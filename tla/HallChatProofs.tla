--------------------------- MODULE HallChatProofs ---------------------------
(***************************************************************************)
(* Proofs about HallChat for any people, connections, nodes, messages and  *)
(* filters: its types, that a message is broadcast once, acknowledged as   *)
(* it is stored, and private if it was silenced.  ChatInv adds that a task *)
(* has what its kind needs (Fit), that a mail's lost outcome costs an      *)
(* event, and what makes the properties inductive: a task that has stored  *)
(* its message is the only one to send it and knows whether it is silenced *)
(* (SendersAreSole), and what is on a screen has a row (ScreensHaveRows).  *)
(* MailInv counts the workers that may still mail a record, for how often  *)
(* it is mailed.                                                           *)
(*                                                                         *)
(* What the filter makes of a text is left as it is.  FilterInv says that  *)
(* rows hold what it makes of their words; only FilterIsExact asks whether *)
(* that is right, and takes it from the evaluation of Differences.         *)
(***************************************************************************)
EXTENDS HallChat, FiniteSetTheorems, TLAPS

Fit == {t \in Task :
          /\ t.op # "idle" => t.conn \in Conns
          /\ t.op \in {"chat", "delete"} => t.id \in Ids
          /\ t.at \in {"judge", "filter", "keep", "insert", "record"} => t.op = "chat"}

DeskOK ==
    /\ settings \in [{"open", "chat"} -> BOOLEAN] /\ cached \in [{"open", "chat"} -> BOOLEAN]
    /\ alerts \in BOOLEAN /\ alertCache \in BOOLEAN
    /\ banned \subseteq People /\ blocked \subseteq People

FiltersOK == saved \in FilterChoices /\ filterCache \in [Nodes -> Filters]

ClientsOK ==
    /\ screen \in [Conns -> SUBSET Ids] /\ told \in [Conns -> SUBSET (Ids \X Contents)]
    /\ sent \in [Ids -> Nat]

EventsOK ==
    /\ event \in [Ids -> Event]
    /\ \A id \in Ids : /\ event[id].st = "pending" => event[id].tries < AlertMaxAttempts
                       /\ event[id].st = "none" => event[id].tries = 0

AlertsOK ==
    /\ mailed \in [Ids -> Nat]
    /\ alert \in [Nodes -> [at : {"idle", "list", "send", "mark", "retry"}, ids : SUBSET Ids]]
    /\ window \in BOOLEAN

\* every lost outcome is one of the events
CountsOK == slips \in Nat /\ events \in Nat /\ slips + events <= MaxEvents

TasksOK == task \in [Workers -> Fit]

ChatTypes ==
    /\ DeskOK /\ FiltersOK /\ subs \subseteq Conns /\ row \in [Ids -> Row]
    /\ ClientsOK /\ EventsOK /\ AlertsOK /\ CountsOK /\ TasksOK

Sending(t) == t.op = "chat" /\ t.at \in {"record", "out"}

SendersAreSole ==
    \A w \in Workers : Sending(task[w]) =>
        LET t == task[w]
        IN /\ row[t.id].st # "none" /\ sent[t.id] = 0
           /\ IF t.silenced THEN row[t.id].by = Who[t.conn] ELSE row[t.id].st # "silenced"
           /\ \A v \in Workers : Sending(task[v]) /\ task[v].id = t.id => v = w

ScreensHaveRows ==
    \A c \in Conns : \A id \in screen[c] : row[id].st # "none"

SentHaveRows == \A id \in Ids : row[id].st = "none" => sent[id] = 0

Messages ==
    /\ SendersAreSole /\ ScreensHaveRows /\ SentHaveRows
    /\ BroadcastOnce /\ AckTellsWhatIsShown /\ SilencedStaysPrivate

ChatInv == ChatTypes /\ Messages

\* a step that neither stores, sends nor shows a message
Still ==
    /\ UNCHANGED <<row, screen, told, sent>>
    /\ \A w \in Workers : Sending(task'[w]) =>
          /\ Sending(task[w])
          /\ task'[w].id = task[w].id /\ task'[w].conn = task[w].conn
          /\ task'[w].silenced = task[w].silenced

-----------------------------------------------------------------------------
LEMMA TypesFollow == ChatTypes => TypeOK
PROOF
<1>1. \A t \in Fit : t \in Task
  BY DEF Fit
<1>2. TasksOK => task \in [Workers -> Task]
  BY <1>1 DEF TasksOK
<1>3. CountsOK => slips \in 0..MaxEvents /\ events \in 0..MaxEvents
  BY HallChatAssumption DEF CountsOK
<1>4. QED
  BY <1>2, <1>3 DEF ChatTypes, TypeOK, DeskOK, FiltersOK, ClientsOK, EventsOK, AlertsOK

LEMMA Persons ==
  /\ \A c \in Conns : Who[c] \in People /\ Home[c] \in Nodes
  /\ \A w \in Workers : w[1] \in Nodes
PROOF
  BY HallChatAssumption DEF Workers

LEMMA Happening ==
  ASSUME CountsOK
  PROVE  /\ Happens /\ UNCHANGED slips => CountsOK'
         /\ UNCHANGED <<slips, events>> => CountsOK'
         /\ Slip => CountsOK'
PROOF
  BY HallChatAssumption DEF CountsOK, Happens, Slip

(* A task that ends, or goes on to a step of its kind. *)
LEMMA TaskSteps ==
  ASSUME TasksOK, NEW w \in Workers
  PROVE  /\ Ends(w) => TasksOK' /\ \A v \in Workers : task'[v] = IF v = w THEN IdleTask ELSE task[v]
         /\ \A at \in {"filter", "insert", "record", "out"} :
              /\ Goes(w, at) => \A v \in Workers :
                                   task'[v] = IF v = w THEN [task[w] EXCEPT !.at = at] ELSE task[v]
              /\ Goes(w, at) /\ task[w].op = "chat" => TasksOK'
              /\ Goes(w, at) /\ at = "out" => TasksOK'
         /\ IdleTask \in Fit /\ ~Sending(IdleTask)
PROOF
<1>1. IdleTask \in Fit /\ ~Sending(IdleTask)
  BY DEF IdleTask, Fit, Task, Sending, Filters
<1>2. \A t \in Fit, at \in {"filter", "insert", "record", "out"} :
         t.op = "chat" \/ at = "out" => [t EXCEPT !.at = at] \in Fit
  BY DEF Fit, Task
<1>3. task \in [Workers -> Fit]
  BY DEF TasksOK
<1>4. Ends(w) => TasksOK' /\ \A v \in Workers : task'[v] = IF v = w THEN IdleTask ELSE task[v]
  BY <1>1, <1>3 DEF Ends, TasksOK
<1>5. ASSUME NEW at \in {"filter", "insert", "record", "out"}, Goes(w, at)
      PROVE  /\ \A v \in Workers :
                   task'[v] = IF v = w THEN [task[w] EXCEPT !.at = at] ELSE task[v]
             /\ task[w].op = "chat" \/ at = "out" => TasksOK'
  <2>1. task' = [task EXCEPT ![w] = [task[w] EXCEPT !.at = at]]
    BY <1>5 DEF Goes
  <2>2. \A v \in Workers : task'[v] = IF v = w THEN [task[w] EXCEPT !.at = at] ELSE task[v]
    BY <1>3, <2>1
  <2>3. task[w].op = "chat" \/ at = "out" => TasksOK'
    BY <1>2, <1>3, <2>1 DEF TasksOK
  <2>4. QED
    BY <2>2, <2>3
<1>6. QED
  BY <1>1, <1>4, <1>5

(* A still step keeps what is known of messages. *)
LEMMA StillKeeps == Messages /\ Still => Messages'
PROOF
<1> SUFFICES ASSUME Messages, Still PROVE Messages'
  OBVIOUS
<1>1. SendersAreSole'
  BY DEF Messages, Still, SendersAreSole
<1>2. QED
  BY <1>1 DEF Messages, Still, ScreensHaveRows, SentHaveRows, BroadcastOnce,
              AckTellsWhatIsShown, SilencedStaysPrivate

(* So does one that leaves messages and workers alone. *)
LEMMA QuietKeeps == Messages /\ UNCHANGED <<row, screen, told, sent, task>> => Messages'
PROOF
<1>1. UNCHANGED <<row, screen, told, sent, task>> => Still
  BY DEF Still
<1>2. QED
  BY <1>1, StillKeeps

(* One worker's task changes to one that is not about to send, or was already. *)
LEMMA WorkerStill ==
  ASSUME NEW w \in Workers, NEW t,
         UNCHANGED <<row, screen, told, sent>>,
         \A v \in Workers : task'[v] = IF v = w THEN t ELSE task[v],
         \/ ~Sending(t)
         \/ /\ Sending(task[w])
            /\ t.id = task[w].id /\ t.conn = task[w].conn /\ t.silenced = task[w].silenced
  PROVE  Still
PROOF
  BY DEF Still

-----------------------------------------------------------------------------
(* The first state. *)
LEMMA ChatStart == Init => ChatInv
PROOF
<1> SUFFICES ASSUME Init PROVE ChatInv
  OBVIOUS
<1>1. IdleTask \in Fit /\ ~Sending(IdleTask)
  BY DEF IdleTask, Fit, Task, Sending, Filters
<1>2. DeskOK /\ FiltersOK /\ subs \subseteq Conns
  BY HallChatAssumption DEF Init, DeskOK, FiltersOK, Filters
<1>3. row \in [Ids -> Row] /\ ClientsOK
  BY DEF Init, NoRow, Row, Contents, ClientsOK
<1>4. EventsOK
  <2>1. NoEvent \in Event /\ NoEvent.st = "none" /\ NoEvent.tries = 0
    BY HallChatAssumption DEF NoEvent, Event
  <2>2. QED
    BY <2>1 DEF Init, EventsOK
<1>5. AlertsOK
  BY DEF Init, AlertsOK, IdleAlert
<1>6. CountsOK
  BY HallChatAssumption DEF Init, CountsOK
<1>7. TasksOK
  BY <1>1 DEF Init, TasksOK
<1>8. Messages
  BY <1>1 DEF Init, Messages, SendersAreSole, ScreensHaveRows, SentHaveRows, BroadcastOnce,
              AckTellsWhatIsShown, SilencedStaysPrivate
<1>9. QED
  BY <1>2, <1>3, <1>4, <1>5, <1>6, <1>7, <1>8 DEF ChatInv, ChatTypes

(* A frame begins a task that has what its kind needs. *)
LEMMA FrameKeeps ==
  ASSUME ChatInv, NEW w \in Workers, NEW t \in Fit, ~Sending(t), Frame(w, t)
  PROVE  ChatInv'
PROOF
<1>1. \A v \in Workers : task'[v] = IF v = w THEN t ELSE task[v]
  BY DEF Frame, ChatInv, ChatTypes, TasksOK
<1>2. TasksOK'
  BY DEF Frame, ChatInv, ChatTypes, TasksOK
<1>3. CountsOK'
  BY Happening DEF Frame, ChatInv, ChatTypes, outbox
<1>4. Messages'
  <2>1. Still
    BY <1>1, WorkerStill DEF Frame, clients
  <2>2. QED
    BY <2>1, StillKeeps DEF ChatInv
<1>5. QED
  BY <1>2, <1>3, <1>4
  DEF ChatInv, ChatTypes, Frame, desk, filters, clients, outbox,
      DeskOK, FiltersOK, ClientsOK, EventsOK, AlertsOK

LEMMA AsksKeep ==
  ASSUME ChatInv, NEW w \in Workers, NEW c \in Conns
  PROVE  /\ AskSubscribe(w, c) => ChatInv'
         /\ \A id \in Ids : AskChat(w, c, id) \/ AskDelete(w, c, id) => ChatInv'
PROOF
<1> DEFINE sub == [IdleTask EXCEPT !.op = "subscribe", !.conn = c]
           chat(id) == [IdleTask EXCEPT !.op = "chat", !.at = "judge", !.conn = c, !.id = id]
           del(id) == [IdleTask EXCEPT !.op = "delete", !.conn = c, !.id = id]
<1>1. sub \in Fit /\ ~Sending(sub)
  BY DEF IdleTask, Fit, Task, Sending, Filters
<1>2. \A id \in Ids : chat(id) \in Fit /\ ~Sending(chat(id))
  BY DEF IdleTask, Fit, Task, Sending, Filters
<1>3. \A id \in Ids : del(id) \in Fit /\ ~Sending(del(id))
  BY DEF IdleTask, Fit, Task, Sending, Filters
<1>4. AskSubscribe(w, c) => Frame(w, sub)
  BY DEF AskSubscribe
<1>5. \A id \in Ids : AskChat(w, c, id) => Frame(w, chat(id))
  BY DEF AskChat
<1>6. \A id \in Ids : AskDelete(w, c, id) => Frame(w, del(id))
  BY DEF AskDelete
<1> HIDE DEF sub, chat, del
<1>7. QED
  BY <1>1, <1>2, <1>3, <1>4, <1>5, <1>6, FrameKeeps

-----------------------------------------------------------------------------
(* What a step leaves alone keeps its types. *)
LEMMA LeftAlone ==
  ASSUME ChatTypes
  PROVE  /\ UNCHANGED desk => DeskOK'
         /\ UNCHANGED filters => FiltersOK'
         /\ UNCHANGED clients => ClientsOK'
         /\ UNCHANGED outbox => EventsOK' /\ AlertsOK' /\ UNCHANGED slips
         /\ UNCHANGED event => EventsOK'
         /\ UNCHANGED <<mailed, alert, window>> => AlertsOK'
PROOF
<1>1. UNCHANGED desk => DeskOK'
  BY DEF ChatTypes, desk, DeskOK
<1>2. UNCHANGED filters => FiltersOK'
  BY DEF ChatTypes, filters, FiltersOK
<1>3. UNCHANGED clients => ClientsOK'
  BY DEF ChatTypes, clients, ClientsOK
<1>4. UNCHANGED event => EventsOK'
  BY DEF ChatTypes, EventsOK
<1>5. UNCHANGED <<mailed, alert, window>> => AlertsOK'
  BY DEF ChatTypes, AlertsOK
<1>6. UNCHANGED outbox => UNCHANGED event /\ UNCHANGED <<mailed, alert, window>> /\ UNCHANGED slips
  BY DEF outbox
<1>7. QED
  BY <1>1, <1>2, <1>3, <1>4, <1>5, <1>6

(* The contents the filter may make of a message are among those of rows. *)
LEMMA ContentsHave == \A id \in Ids, in \in Filters : Content(id, in) \in Contents
PROOF
  BY DEF Contents

(* What the tasks have that are at work. *)
LEMMA AtWork ==
  ASSUME ChatTypes, NEW w \in Workers
  PROVE  /\ task[w] \in Fit
         /\ task[w].filter \in Filters
         /\ task[w].op # "idle" => task[w].conn \in Conns /\ Who[task[w].conn] \in People
         /\ task[w].op \in {"chat", "delete"} => task[w].id \in Ids
         /\ task[w].at \in {"judge", "filter", "keep", "insert", "record"} => task[w].op = "chat"
PROOF
  BY Persons DEF ChatTypes, TasksOK, Fit, Task

LEMMA SubscribeKeeps ==
  ASSUME ChatInv, NEW w \in Workers, Subscribe(w)
  PROVE  ChatInv'
PROOF
<1>1. ChatTypes /\ TasksOK
  BY DEF ChatInv, ChatTypes
<1>2. task[w].conn \in Conns
  BY <1>1, AtWork DEF Subscribe
<1>3. TasksOK' /\ Still
  <2>1. Ends(w) /\ UNCHANGED <<row, screen, told, sent>>
    BY DEF Subscribe, clients
  <2>2. TasksOK' /\ \A v \in Workers : task'[v] = IF v = w THEN IdleTask ELSE task[v]
    BY <1>1, <2>1, TaskSteps
  <2>3. ~Sending(IdleTask)
    BY <1>1, TaskSteps
  <2>4. QED
    BY <2>1, <2>2, <2>3, WorkerStill
<1>4. CountsOK'
  BY <1>1, Happening, LeftAlone DEF Subscribe, ChatTypes
<1>5. Messages'
  BY <1>3, StillKeeps DEF ChatInv
<1>6. subs' \subseteq Conns /\ row' \in [Ids -> Row]
  BY <1>1, <1>2 DEF Subscribe, ChatTypes
<1>7. QED
  BY <1>1, <1>3, <1>4, <1>5, <1>6, LeftAlone DEF Subscribe, ChatInv, ChatTypes

LEMMA JudgeKeeps ==
  ASSUME ChatInv, NEW w \in Workers, Judge(w)
  PROVE  ChatInv'
PROOF
<1>1. ChatTypes /\ TasksOK
  BY DEF ChatInv, ChatTypes
<1>2. task[w] \in Fit /\ task[w].op = "chat" /\ task[w].at = "judge"
  BY <1>1, AtWork DEF Judge
<1>3. TasksOK' /\ Still
  <2>1. CASE Ends(w)
    BY <1>1, <2>1, TaskSteps, WorkerStill DEF Judge, clients
  <2>2. CASE Goes(w, "insert")
    <3> DEFINE t == [task[w] EXCEPT !.at = "insert"]
    <3>1. ~Sending(t)
      BY <1>2 DEF Sending, Fit, Task
    <3>2. TasksOK' /\ \A v \in Workers : task'[v] = IF v = w THEN t ELSE task[v]
      BY <1>1, <1>2, <2>2, TaskSteps
    <3> HIDE DEF t
    <3>3. QED
      BY <3>1, <3>2, WorkerStill DEF Judge, clients
  <2>3. ASSUME NEW b \in BOOLEAN,
               task' = [task EXCEPT ![w] = [task[w] EXCEPT !.silenced = b, !.at = "filter"]]
        PROVE  TasksOK' /\ Still
    <3> DEFINE t == [task[w] EXCEPT !.silenced = b, !.at = "filter"]
    <3>1. ~Sending(t) /\ t \in Fit
      BY <1>2 DEF Sending, Fit, Task
    <3> HIDE DEF t
    <3>2. task' = [task EXCEPT ![w] = t]
      BY <2>3 DEF t
    <3>3. TasksOK' /\ \A v \in Workers : task'[v] = IF v = w THEN t ELSE task[v]
      BY <1>1, <3>1, <3>2 DEF TasksOK
    <3>4. QED
      BY <3>1, <3>3, WorkerStill DEF Judge, clients
  <2>4. \/ Ends(w) \/ Goes(w, "insert")
        \/ task' = [task EXCEPT ![w] = [task[w] EXCEPT
                      !.silenced = Who[task[w].conn] \in blocked, !.at = "filter"]]
    BY <1>1, <1>2 DEF Judge, TasksOK, Fit, Task
  <2>5. (Who[task[w].conn] \in blocked) \in BOOLEAN
    OBVIOUS
  <2>6. QED
    BY <2>1, <2>2, <2>3, <2>4, <2>5
<1>4. CountsOK'
  BY <1>1, Happening, LeftAlone DEF Judge, ChatTypes
<1>5. Messages'
  BY <1>3, StillKeeps DEF ChatInv
<1>6. QED
  BY <1>1, <1>3, <1>4, <1>5, LeftAlone DEF Judge, ChatInv, ChatTypes

LEMMA ReadFilterKeeps ==
  ASSUME ChatInv, NEW w \in Workers, ReadFilter(w)
  PROVE  ChatInv'
PROOF
<1>1. ChatTypes /\ TasksOK
  BY DEF ChatInv, ChatTypes
<1>2. task[w] \in Fit /\ task[w].op = "chat"
  BY <1>1, AtWork DEF ReadFilter
<1>3. PICK f \in Filters, at \in {"insert", "keep"} :
         /\ task' = [task EXCEPT ![w].filter = f, ![w].at = at]
         /\ UNCHANGED events \/ Happens
  BY <1>1, Persons DEF ReadFilter, ChatTypes, FiltersOK, Filters
<1> DEFINE t == [task[w] EXCEPT !.filter = f, !.at = at]
<1>4. ~Sending(t) /\ t \in Fit
  BY <1>2 DEF Sending, Fit, Task
<1>5. task' = [task EXCEPT ![w] = t]
  BY <1>1, <1>2, <1>3 DEF TasksOK, Fit, Task
<1> HIDE DEF t
<1>6. TasksOK' /\ \A v \in Workers : task'[v] = IF v = w THEN t ELSE task[v]
  BY <1>1, <1>4, <1>5 DEF TasksOK
<1>7. Still
  BY <1>4, <1>6, WorkerStill DEF ReadFilter, clients
<1>8. CountsOK'
  BY <1>1, <1>3, Happening, LeftAlone DEF ReadFilter, ChatTypes
<1>9. Messages'
  BY <1>7, StillKeeps DEF ChatInv
<1>10. QED
  BY <1>1, <1>6, <1>8, <1>9, LeftAlone DEF ReadFilter, ChatInv, ChatTypes

LEMMA KeepFilterKeeps ==
  ASSUME ChatInv, NEW w \in Workers, KeepFilter(w)
  PROVE  ChatInv'
PROOF
<1>1. ChatTypes /\ TasksOK
  BY DEF ChatInv, ChatTypes
<1>2. task[w] \in Fit /\ task[w].op = "chat" /\ task[w].filter \in Filters
  BY <1>1, AtWork DEF KeepFilter
<1> DEFINE t == [task[w] EXCEPT !.at = "insert"]
<1>3. ~Sending(t)
  BY <1>2 DEF Sending, Fit, Task
<1>4. TasksOK' /\ \A v \in Workers : task'[v] = IF v = w THEN t ELSE task[v]
  BY <1>1, <1>2, TaskSteps DEF KeepFilter
<1> HIDE DEF t
<1>5. Still
  BY <1>3, <1>4, WorkerStill DEF KeepFilter, clients
<1>6. CountsOK'
  BY <1>1, Happening, LeftAlone DEF KeepFilter, ChatTypes
<1>7. Messages'
  BY <1>5, StillKeeps DEF ChatInv
<1>8. FiltersOK'
  BY <1>1, <1>2 DEF KeepFilter, ChatTypes, FiltersOK
<1>9. QED
  BY <1>1, <1>4, <1>6, <1>7, <1>8, LeftAlone DEF KeepFilter, ChatInv, ChatTypes

(* A new message: nobody has seen, sent or acknowledged its id before. *)
LEMMA InsertFirst ==
  ASSUME ChatInv, NEW w \in Workers, task[w].at = "insert", row[task[w].id].st = "none",
         NEW new \in Row, new.st = IF task[w].silenced THEN "silenced" ELSE "shown",
         new.by = Who[task[w].conn], new.content = Content(task[w].id, task[w].filter),
         row' = [row EXCEPT ![task[w].id] = new], UNCHANGED <<screen, sent>>
  PROVE  /\ Acknowledge(task[w], new.content) \/ UNCHANGED told =>
              ScreensHaveRows' /\ SentHaveRows' /\ BroadcastOnce' /\ AckTellsWhatIsShown'
                /\ SilencedStaysPrivate'
         /\ (\E at \in {"record", "out"} : Goes(w, at)) \/ Ends(w) => SendersAreSole'
PROOF
<1>1. ChatTypes /\ TasksOK /\ Messages
  BY DEF ChatInv, ChatTypes
<1> DEFINE id == task[w].id
<1>2. id \in Ids /\ task[w].conn \in Conns /\ task[w].op = "chat" /\ task[w] \in Fit
  BY <1>1, AtWork
<1>3. \A i \in Ids : row'[i] = IF i = id THEN new ELSE row[i]
  BY <1>1, <1>2 DEF ChatTypes
<1>4. new.st \in {"shown", "silenced"}
  BY <1>2 DEF Fit, Task
<1>5. /\ sent[id] = 0 /\ \A c \in Conns : id \notin screen[c]
      /\ \A v \in Workers : Sending(task[v]) => task[v].id # id /\ task[v].id \in Ids
      /\ \A c \in Conns : \A a \in told[c] : a[1] # id /\ a[1] \in Ids
  <2>1. \A c \in Conns : told[c] \subseteq Ids \X Contents
    BY <1>1 DEF ChatTypes, ClientsOK
  <2>2. \A v \in Workers : Sending(task[v]) => task[v].id \in Ids
    BY <1>1, AtWork DEF Sending
  <2>3. QED
    BY <1>1, <1>2, <2>1, <2>2
    DEF Messages, SentHaveRows, ScreensHaveRows, SendersAreSole, AckTellsWhatIsShown
<1>6. \A c \in Conns : screen[c] \subseteq Ids
  BY <1>1 DEF ChatTypes, ClientsOK
<1>7. ScreensHaveRows' /\ SentHaveRows' /\ BroadcastOnce' /\ SilencedStaysPrivate'
  BY <1>1, <1>3, <1>4, <1>5, <1>6
  DEF Messages, ScreensHaveRows, SentHaveRows, BroadcastOnce, SilencedStaysPrivate
<1>8. ASSUME Acknowledge(task[w], new.content) \/ UNCHANGED told
      PROVE  AckTellsWhatIsShown'
  <2>1. \A c \in Conns : \A a \in told'[c] :
           a \in told[c] \/ (a = <<id, new.content>> /\ c = task[w].conn)
    BY <1>1, <1>2, <1>8 DEF Acknowledge, ChatTypes, ClientsOK
  <2>2. SUFFICES ASSUME NEW c \in Conns, NEW a \in told'[c]
                 PROVE  row'[a[1]].st # "none" /\ row'[a[1]].content = a[2]
                          /\ row'[a[1]].by = Who[c]
    BY DEF AckTellsWhatIsShown
  <2>3. CASE a \in told[c]
    BY <1>1, <1>3, <1>5, <2>3 DEF Messages, AckTellsWhatIsShown
  <2>4. CASE a = <<id, new.content>> /\ c = task[w].conn
    BY <1>2, <1>3, <1>4, <2>4
  <2>5. QED
    BY <2>1, <2>3, <2>4
<1>9. ASSUME (\E at \in {"record", "out"} : Goes(w, at)) \/ Ends(w)
      PROVE  SendersAreSole'
  <2>1. \A v \in Workers : v # w => task'[v] = task[v]
    BY <1>1, <1>9 DEF Goes, Ends, TasksOK
  <2>2. Sending(task'[w]) => /\ task'[w].id = id /\ task'[w].conn = task[w].conn
                             /\ task'[w].silenced = task[w].silenced
    <3>1. ASSUME NEW at \in {"record", "out"}, Goes(w, at)
          PROVE  /\ task'[w].id = id /\ task'[w].conn = task[w].conn
                 /\ task'[w].silenced = task[w].silenced
      <4>1. task'[w] = [task[w] EXCEPT !.at = at]
        BY <1>1, <3>1 DEF Goes, TasksOK
      <4>2. QED
        BY <1>2, <4>1 DEF Fit, Task
    <3>2. Ends(w) => ~Sending(task'[w])
      BY <1>1, TaskSteps
    <3>3. QED
      BY <1>9, <3>1, <3>2
  <2>3. SUFFICES ASSUME NEW v \in Workers, Sending(task'[v])
                 PROVE  /\ row'[task'[v].id].st # "none" /\ sent'[task'[v].id] = 0
                        /\ IF task'[v].silenced THEN row'[task'[v].id].by = Who[task'[v].conn]
                           ELSE row'[task'[v].id].st # "silenced"
                        /\ \A u \in Workers :
                             Sending(task'[u]) /\ task'[u].id = task'[v].id => u = v
    BY DEF SendersAreSole
  <2>4. CASE v = w
    BY <1>2, <1>3, <1>4, <1>5, <2>1, <2>2, <2>3, <2>4
  <2>5. CASE v # w
    BY <1>1, <1>3, <1>5, <2>1, <2>2, <2>3, <2>5 DEF Messages, SendersAreSole
  <2>6. QED
    BY <2>4, <2>5
<1>10. QED
  BY <1>7, <1>8, <1>9

LEMMA InsertKeeps ==
  ASSUME ChatInv, NEW w \in Workers, Insert(w)
  PROVE  ChatInv'
PROOF
<1> DEFINE t == task[w]
           content == Content(t.id, t.filter)
           new == [st |-> IF t.silenced THEN "silenced" ELSE "shown",
                   by |-> Who[t.conn], content |-> content]
           first == row[t.id].st = "none"
<1>1. ChatTypes /\ TasksOK /\ Messages
  BY DEF ChatInv, ChatTypes
<1>2. /\ t \in Fit /\ t.op = "chat" /\ t.id \in Ids /\ t.conn \in Conns
      /\ t.filter \in Filters /\ Who[t.conn] \in People /\ t.at = "insert"
  BY <1>1, AtWork DEF Insert
<1>3. content \in Contents
  BY <1>2, ContentsHave
<1>4. new \in Row
  BY <1>2, <1>3 DEF Row
<1>5. UNCHANGED <<desk, filters, subs, screen, sent, outbox>>
  BY DEF Insert
<1>6. /\ new.st = IF t.silenced THEN "silenced" ELSE "shown"
      /\ new.by = Who[t.conn] /\ new.content = content
  OBVIOUS
<1>7. \/ /\ first /\ row' = [row EXCEPT ![t.id] = new] /\ Acknowledge(t, new.content)
         /\ \E at \in {"record", "out"} : Goes(w, at)
         /\ UNCHANGED events
      \/ /\ ~first /\ Repeats(t.id, Who[t.conn], content) /\ Acknowledge(t, content)
         /\ Ends(w) /\ UNCHANGED <<row, events>>
      \/ /\ Ends(w) /\ UNCHANGED <<row, told>> /\ (UNCHANGED events \/ Happens)
      \/ /\ first /\ row' = [row EXCEPT ![t.id] = new] /\ Ends(w) /\ UNCHANGED told /\ Happens
  BY DEF Insert
<1> HIDE DEF new
<1>8. CountsOK'
  <2>1. UNCHANGED events \/ Happens
    BY <1>7
  <2>2. UNCHANGED slips /\ CountsOK
    BY <1>1, <1>5, LeftAlone DEF ChatTypes
  <2>3. QED
    BY <2>1, <2>2, Happening
<1>9. TasksOK' /\ row' \in [Ids -> Row]
  <2>1. TasksOK'
    <3>1. CASE Ends(w)
      BY <1>1, <3>1, TaskSteps
    <3>2. CASE \E at \in {"record", "out"} : Goes(w, at)
      <4>1. PICK at \in {"record", "out"} : Goes(w, at)
        BY <3>2
      <4>2. QED
        BY <1>1, <1>2, <4>1, TaskSteps, ZenonT(30)
    <3>3. QED
      BY <1>7, <3>1, <3>2
  <2>2. row \in [Ids -> Row]
    BY <1>1 DEF ChatTypes
  <2>3. row' = row \/ row' = [row EXCEPT ![t.id] = new]
    BY <1>7
  <2>4. QED
    BY <1>2, <1>4, <2>1, <2>2, <2>3
<1>10. ClientsOK'
  <2>1. told' \in [Conns -> SUBSET (Ids \X Contents)]
    <3>1. told' = told \/ told' = [told EXCEPT ![t.conn] = @ \cup {<<t.id, content>>}]
      BY <1>6, <1>7 DEF Acknowledge
    <3>2. told \in [Conns -> SUBSET (Ids \X Contents)]
      BY <1>1 DEF ChatTypes, ClientsOK
    <3> HIDE DEF t, content
    <3>3. QED
      BY <1>2, <1>3, <3>1, <3>2
  <2>2. QED
    BY <1>1, <1>5, <2>1 DEF ChatTypes, ClientsOK
<1>11. Messages'
  <2>1. CASE /\ first /\ row' = [row EXCEPT ![t.id] = new] /\ Acknowledge(t, new.content)
             /\ \E at \in {"record", "out"} : Goes(w, at)
    BY <1>2, <1>4, <1>5, <1>6, <2>1, InsertFirst DEF Messages
  <2>2. CASE /\ ~first /\ Repeats(t.id, Who[t.conn], content) /\ Acknowledge(t, content)
             /\ Ends(w) /\ UNCHANGED row
    <3>1. AckTellsWhatIsShown'
      <4>1. \A c \in Conns : \A a \in told'[c] :
               a \in told[c] \/ (a = <<t.id, content>> /\ c = t.conn)
        BY <1>1, <1>2, <2>2 DEF Acknowledge, ChatTypes, ClientsOK
      <4>2. /\ row[t.id].st # "none" /\ row[t.id].by = Who[t.conn]
            /\ row[t.id].content = content
        BY <2>2 DEF Repeats
      <4>3. QED
        BY <1>1, <2>2, <4>1, <4>2 DEF Messages, AckTellsWhatIsShown
    <3>2. SendersAreSole'
      <4>1. \A v \in Workers : Sending(task'[v]) => Sending(task[v]) /\ task'[v] = task[v]
        BY <1>1, <2>2, TaskSteps
      <4>2. UNCHANGED <<row, sent>>
        BY <1>5, <2>2
      <4>3. QED
        BY <1>1, <4>1, <4>2 DEF Messages, SendersAreSole
    <3>3. QED
      BY <1>1, <1>5, <2>2, <3>1, <3>2
      DEF Messages, ScreensHaveRows, SentHaveRows, BroadcastOnce, SilencedStaysPrivate
  <2>3. CASE Ends(w) /\ UNCHANGED <<row, told>>
    <3>1. Still
      BY <1>1, <1>5, <2>3, TaskSteps, WorkerStill
    <3>2. QED
      BY <1>1, <3>1, StillKeeps
  <2>4. CASE first /\ row' = [row EXCEPT ![t.id] = new] /\ Ends(w) /\ UNCHANGED told
    BY <1>2, <1>4, <1>5, <1>6, <2>4, InsertFirst DEF Messages
  <2>5. QED
    BY <1>7, <2>1, <2>2, <2>3, <2>4
<1>12. QED
  BY <1>1, <1>5, <1>8, <1>9, <1>10, <1>11, LeftAlone DEF ChatInv, ChatTypes

LEMMA RecordKeeps ==
  ASSUME ChatInv, NEW w \in Workers, Record(w)
  PROVE  ChatInv'
PROOF
<1>1. ChatTypes /\ TasksOK
  BY DEF ChatInv, ChatTypes
<1>2. /\ task[w] \in Fit /\ task[w].op = "chat" /\ task[w].id \in Ids
      /\ task[w].at = "record"
  BY <1>1, AtWork DEF Record
<1>3. TasksOK' /\ Still
  <2> DEFINE t == [task[w] EXCEPT !.at = "out"]
  <2>1. TasksOK' /\ \A v \in Workers : task'[v] = IF v = w THEN t ELSE task[v]
    BY <1>1, <1>2, TaskSteps DEF Record
  <2>2. /\ Sending(task[w])
        /\ t.id = task[w].id /\ t.conn = task[w].conn /\ t.silenced = task[w].silenced
    BY <1>2 DEF Sending, Fit, Task
  <2> HIDE DEF t
  <2>3. QED
    BY <2>1, <2>2, WorkerStill DEF Record, clients
<1>4. EventsOK'
  <2>1. \/ UNCHANGED event
        \/ /\ event[task[w].id].st = "none"
           /\ \E st \in {"silenced", "pending", "disabled"} :
                event' = [event EXCEPT ![task[w].id].st = st]
    BY DEF Record
  <2>2. CASE UNCHANGED event
    BY <1>1, <2>2, LeftAlone
  <2>3. ASSUME event[task[w].id].st = "none",
               NEW st \in {"silenced", "pending", "disabled"},
               event' = [event EXCEPT ![task[w].id].st = st]
        PROVE  EventsOK'
    <3>1. 0 < AlertMaxAttempts
      BY HallChatAssumption
    <3>2. event \in [Ids -> Event] /\ event[task[w].id].tries = 0
      BY <1>1, <1>2, <2>3 DEF ChatTypes, EventsOK
    <3>3. QED
      BY <1>1, <1>2, <2>3, <3>1, <3>2 DEF ChatTypes, EventsOK, Event
  <2>4. QED
    BY <2>1, <2>2, <2>3
<1>5. CountsOK'
  BY <1>1, Happening DEF Record, ChatTypes
<1>6. Messages'
  BY <1>3, StillKeeps DEF ChatInv
<1>7. AlertsOK'
  BY <1>1, LeftAlone DEF Record
<1>8. QED
  BY <1>1, <1>3, <1>4, <1>5, <1>6, <1>7, LeftAlone DEF Record, ChatInv, ChatTypes

LEMMA DeliverKeeps ==
  ASSUME ChatInv, NEW w \in Workers, Deliver(w)
  PROVE  ChatInv'
PROOF
<1> DEFINE t == task[w]
           near == {c \in subs : Home[c] = w[1]}
<1>1. ChatTypes /\ TasksOK /\ Messages
  BY DEF ChatInv, ChatTypes
<1>2. t.op = "chat" /\ t.id \in Ids /\ t.conn \in Conns /\ Sending(t)
  BY <1>1, AtWork DEF Deliver, Sending
<1>3. UNCHANGED <<desk, filters, subs, row, told, outbox>> /\ Ends(w)
  BY DEF Deliver
<1>4. \/ /\ t.silenced
         /\ screen' = [screen EXCEPT ![t.conn] = @ \cup {t.id}]
         /\ UNCHANGED <<sent, events>>
      \/ /\ ~t.silenced
         /\ \E cs \in {subs, near} :
              screen' = [c \in Conns |-> screen[c] \cup (IF c \in cs THEN {t.id} ELSE {})]
         /\ sent' = [sent EXCEPT ![t.id] = @ + 1]
         /\ UNCHANGED events \/ Happens
  BY DEF Deliver
<1>5. /\ row[t.id].st # "none" /\ sent[t.id] = 0
      /\ IF t.silenced THEN row[t.id].by = Who[t.conn] ELSE row[t.id].st # "silenced"
      /\ \A v \in Workers : Sending(task[v]) /\ task[v].id = t.id => v = w
  BY <1>1, <1>2 DEF Messages, SendersAreSole
<1>6. \A c \in Conns : \A id \in screen'[c] :
         \/ id \in screen[c]
         \/ id = t.id /\ (~t.silenced \/ c = t.conn)
  <2>1. screen \in [Conns -> SUBSET Ids]
    BY <1>1 DEF ChatTypes, ClientsOK
  <2> HIDE DEF t
  <2>2. QED
    BY <1>2, <1>4, <2>1
<1>7. \A id \in Ids : sent'[id] = IF id = t.id /\ ~t.silenced THEN 1 ELSE sent[id]
  <2>1. sent \in [Ids -> Nat]
    BY <1>1 DEF ChatTypes, ClientsOK
  <2> HIDE DEF t
  <2>2. QED
    BY <1>2, <1>4, <1>5, <2>1
<1>8. TasksOK' /\ \A v \in Workers : Sending(task'[v]) => v # w /\ task'[v] = task[v]
  BY <1>1, <1>3, TaskSteps
<1>9. Messages'
  <2>1. SendersAreSole'
    <3>1. \A v \in Workers : Sending(task'[v]) => task[v].id # t.id /\ task[v].id \in Ids
      BY <1>1, <1>5, <1>8, AtWork DEF Sending
    <3>2. UNCHANGED row
      BY <1>3
    <3> HIDE DEF t
    <3>3. QED
      BY <1>1, <1>7, <1>8, <3>1, <3>2 DEF Messages, SendersAreSole
  <2>2. ScreensHaveRows' /\ SilencedStaysPrivate'
    BY <1>1, <1>3, <1>5, <1>6 DEF Messages, ScreensHaveRows, SilencedStaysPrivate
  <2>3. SentHaveRows' /\ BroadcastOnce'
    BY <1>1, <1>3, <1>5, <1>7 DEF Messages, SentHaveRows, BroadcastOnce
  <2>4. AckTellsWhatIsShown'
    BY <1>1, <1>3 DEF Messages, AckTellsWhatIsShown
  <2>5. QED
    BY <2>1, <2>2, <2>3, <2>4 DEF Messages
<1>10. CountsOK'
  BY <1>1, <1>3, <1>4, Happening, LeftAlone DEF ChatTypes
<1>11. ClientsOK'
  <2>1. /\ screen \in [Conns -> SUBSET Ids] /\ sent \in [Ids -> Nat]
        /\ told \in [Conns -> SUBSET (Ids \X Contents)]
    BY <1>1 DEF ChatTypes, ClientsOK
  <2>2. screen' \in [Conns -> SUBSET Ids]
    <3> HIDE DEF t
    <3>1. QED
      BY <1>2, <1>4, <2>1
  <2>3. sent' \in [Ids -> Nat]
    <3> HIDE DEF t
    <3>1. QED
      BY <1>2, <1>4, <2>1
  <2>4. QED
    BY <1>3, <2>1, <2>2, <2>3 DEF ClientsOK
<1>12. QED
  BY <1>1, <1>3, <1>8, <1>9, <1>10, <1>11, LeftAlone DEF ChatInv, ChatTypes

(* Rows whose status changes to one that hides them, and screens that lose. *)
LEMMA HidingKeeps ==
  ASSUME ChatTypes, Messages, NEW id \in Ids, NEW st \in {"deleted", "purged"},
         row[id].st # "none", row' = [row EXCEPT ![id].st = st],
         UNCHANGED <<screen, told, sent>>,
         \A v \in Workers : Sending(task'[v]) => task'[v] = task[v]
  PROVE  Messages' /\ row' \in [Ids -> Row]
PROOF
<1>1. row \in [Ids -> Row]
  BY DEF ChatTypes
<1>2. \A i \in Ids : row'[i] = IF i = id THEN [row[id] EXCEPT !.st = st] ELSE row[i]
  BY <1>1
<1>3. \A i \in Ids : /\ row'[i].by = row[i].by /\ row'[i].content = row[i].content
                     /\ row'[i].st = IF i = id THEN st ELSE row[i].st
  BY <1>1, <1>2 DEF Row
<1>4. /\ \A c \in Conns : screen[c] \subseteq Ids
      /\ \A c \in Conns : \A a \in told[c] : a[1] \in Ids
  BY DEF ChatTypes, ClientsOK
<1>5. SendersAreSole'
  <2>1. \A v \in Workers : Sending(task'[v]) => task[v].id \in Ids
    BY AtWork DEF Sending
  <2>2. QED
    BY <1>3, <2>1 DEF Messages, SendersAreSole
<1>6. /\ ScreensHaveRows' /\ SentHaveRows' /\ BroadcastOnce' /\ AckTellsWhatIsShown'
      /\ SilencedStaysPrivate'
  BY <1>3, <1>4 DEF Messages, ScreensHaveRows, SentHaveRows, BroadcastOnce,
                    AckTellsWhatIsShown, SilencedStaysPrivate
<1>7. row' \in [Ids -> Row]
  BY <1>1, <1>2 DEF Row
<1>8. QED
  BY <1>5, <1>6, <1>7 DEF Messages

LEMMA SoftDeleteKeeps ==
  ASSUME ChatInv, NEW w \in Workers, SoftDelete(w)
  PROVE  ChatInv'
PROOF
<1>1. ChatTypes /\ TasksOK /\ Messages
  BY DEF ChatInv, ChatTypes
<1>2. /\ task[w] \in Fit /\ task[w].op = "delete" /\ task[w].id \in Ids
      /\ UNCHANGED <<desk, filters, subs, clients, outbox, events>>
  BY <1>1, AtWork DEF SoftDelete
<1>3. /\ TasksOK'
      /\ \A v \in Workers : Sending(task'[v]) => Sending(task[v]) /\ task'[v] = task[v]
  <2>1. CASE Ends(w)
    BY <1>1, <2>1, TaskSteps
  <2>2. CASE Goes(w, "out")
    <3>1. ~Sending([task[w] EXCEPT !.at = "out"])
      BY <1>2 DEF Sending, Fit, Task
    <3>2. QED
      BY <1>1, <2>2, <3>1, TaskSteps
  <2>3. QED
    BY <2>1, <2>2 DEF SoftDelete
<1>4. Messages' /\ row' \in [Ids -> Row]
  <2>1. CASE row[task[w].id].st = "shown" /\ row' = [row EXCEPT ![task[w].id].st = "deleted"]
    BY <1>1, <1>2, <1>3, <2>1, HidingKeeps DEF clients
  <2>2. CASE UNCHANGED row
    <3>1. Still
      BY <1>2, <1>3, <2>2 DEF Still, clients
    <3>2. QED
      BY <1>1, <2>2, <3>1, StillKeeps DEF ChatTypes
  <2>3. QED
    BY <2>1, <2>2 DEF SoftDelete
<1>5. CountsOK'
  BY <1>1, <1>2, Happening, LeftAlone DEF ChatTypes
<1>6. QED
  BY <1>1, <1>2, <1>3, <1>4, <1>5, LeftAlone DEF ChatInv, ChatTypes

(* Screens on which only messages are that their readers may see. *)
LEMMA ScreenKeeps ==
  ASSUME Messages, UNCHANGED <<row, told, sent>>,
         \A v \in Workers : Sending(task'[v]) => task'[v] = task[v],
         \A c \in Conns : \A id \in screen'[c] : id \in screen[c] \/ id \in Visible(Who[c])
  PROVE  Messages'
PROOF
<1>1. SendersAreSole'
  BY DEF Messages, SendersAreSole
<1>2. ScreensHaveRows' /\ SilencedStaysPrivate'
  BY DEF Messages, ScreensHaveRows, SilencedStaysPrivate, Visible
<1>3. QED
  BY <1>1, <1>2 DEF Messages, SentHaveRows, BroadcastOnce, AckTellsWhatIsShown

LEMMA AnnounceKeeps ==
  ASSUME ChatInv, NEW w \in Workers, AnnounceDeletion(w)
  PROVE  ChatInv'
PROOF
<1>1. ChatTypes /\ TasksOK /\ Messages
  BY DEF ChatInv, ChatTypes
<1>2. UNCHANGED <<desk, filters, subs, row, told, sent, outbox, events>>
  BY DEF AnnounceDeletion
<1>3. TasksOK' /\ \A v \in Workers : Sending(task'[v]) => task'[v] = task[v]
  BY <1>1, TaskSteps DEF AnnounceDeletion
<1>4. \A c \in Conns : screen'[c] \subseteq screen[c]
  BY DEF AnnounceDeletion
<1>5. Messages'
  BY <1>1, <1>2, <1>3, <1>4, ScreenKeeps
<1>6. ClientsOK'
  BY <1>1, <1>2 DEF AnnounceDeletion, ChatTypes, ClientsOK
<1>7. CountsOK'
  BY <1>1, <1>2, Happening, LeftAlone DEF ChatTypes
<1>8. QED
  BY <1>1, <1>2, <1>3, <1>5, <1>6, <1>7, LeftAlone DEF ChatInv, ChatTypes

LEMMA StepKeeps ==
  ASSUME ChatInv, NEW w \in Workers, Step(w)
  PROVE  ChatInv'
PROOF
  BY SubscribeKeeps, JudgeKeeps, ReadFilterKeeps, KeepFilterKeeps, InsertKeeps, RecordKeeps,
     DeliverKeeps, SoftDeleteKeeps, AnnounceKeeps DEF Step

-----------------------------------------------------------------------------
(* History, and what participants and the desk do. *)
LEMMA HistoryKeeps ==
  ASSUME ChatInv, NEW c \in Conns, ReadHistory(c)
  PROVE  ChatInv'
PROOF
<1>1. ChatTypes /\ Messages
  BY DEF ChatInv
<1>2. UNCHANGED <<desk, filters, subs, row, told, sent, task, outbox>> /\ Happens
  BY DEF ReadHistory
<1>3. screen \in [Conns -> SUBSET Ids] /\ Visible(Who[c]) \subseteq Ids
  BY <1>1 DEF ChatTypes, ClientsOK, Visible
<1>4. screen' = [screen EXCEPT ![c] = Visible(Who[c])]
  BY DEF ReadHistory
<1>5. Messages'
  BY <1>1, <1>2, <1>3, <1>4, ScreenKeeps
<1>6. ClientsOK'
  BY <1>1, <1>2, <1>3, <1>4 DEF ChatTypes, ClientsOK
<1>7. CountsOK'
  BY <1>1, <1>2, Happening, LeftAlone DEF ChatTypes
<1>8. QED
  BY <1>1, <1>2, <1>5, <1>6, <1>7, LeftAlone DEF ChatInv, ChatTypes, TasksOK

(* What the desk does to switches, caches, bans and subscriptions. *)
LEMMA DeskKeeps ==
  ASSUME ChatInv, UNCHANGED <<row, clients, task, outbox>>,
         DeskOK', FiltersOK', subs' \subseteq Conns, UNCHANGED events \/ Happens
  PROVE  ChatInv'
PROOF
<1>1. ChatTypes /\ Messages
  BY DEF ChatInv
<1>2. Messages'
  BY <1>1, QuietKeeps DEF clients
<1>3. CountsOK'
  BY <1>1, Happening, LeftAlone DEF ChatTypes
<1>4. QED
  BY <1>1, <1>2, <1>3, LeftAlone DEF ChatInv, ChatTypes, TasksOK

LEMMA PeopleKeep ==
  ASSUME ChatInv
  PROVE  /\ \A c \in Conns : Unsubscribe(c) \/ Dismiss(c) => ChatInv'
         /\ \A p \in People : Kick(p) \/ BanExpires(p) \/ SetBlocked(p) => ChatInv'
         /\ \A s \in {"open", "chat"} : Switch(s) => ChatInv'
         /\ CacheExpires => ChatInv'
PROOF
<1>1. ChatTypes /\ DeskOK /\ FiltersOK /\ subs \subseteq Conns
  BY DEF ChatInv, ChatTypes
<1>2. ASSUME NEW c \in Conns PROVE Unsubscribe(c) \/ Dismiss(c) => ChatInv'
  <2>1. HAVE Unsubscribe(c) \/ Dismiss(c)
  <2>2. DeskOK' /\ FiltersOK' /\ subs' \subseteq Conns
    BY <1>1, <2>1, LeftAlone DEF Unsubscribe, Dismiss
  <2>3. QED
    BY <2>1, <2>2, DeskKeeps DEF Unsubscribe, Dismiss
<1>3. ASSUME NEW p \in People PROVE Kick(p) => ChatInv'
  <2>1. HAVE Kick(p)
  <2>2. DeskOK' /\ FiltersOK' /\ subs' \subseteq Conns
    BY <1>1, <2>1, LeftAlone DEF Kick, DeskOK
  <2>3. QED
    BY <2>1, <2>2, DeskKeeps DEF Kick
<1>4. ASSUME NEW p \in People PROVE BanExpires(p) => ChatInv'
  <2>1. HAVE BanExpires(p)
  <2>2. DeskOK' /\ FiltersOK' /\ subs' \subseteq Conns
    BY <1>1, <2>1, LeftAlone DEF BanExpires, DeskOK
  <2>3. QED
    BY <2>1, <2>2, DeskKeeps DEF BanExpires
<1>5. ASSUME NEW p \in People PROVE SetBlocked(p) => ChatInv'
  <2>1. HAVE SetBlocked(p)
  <2>2. DeskOK' /\ FiltersOK' /\ subs' \subseteq Conns
    BY <1>1, <2>1, LeftAlone DEF SetBlocked, DeskOK
  <2>3. QED
    BY <2>1, <2>2, DeskKeeps DEF SetBlocked
<1>6. ASSUME NEW s \in {"open", "chat"} PROVE Switch(s) => ChatInv'
  <2>1. HAVE Switch(s)
  <2>2. DeskOK' /\ FiltersOK' /\ subs' \subseteq Conns
    BY <1>1, <2>1, LeftAlone DEF Switch, DeskOK
  <2>3. QED
    BY <2>1, <2>2, DeskKeeps DEF Switch
<1>7. CacheExpires => ChatInv'
  <2>1. HAVE CacheExpires
  <2>2. DeskOK' /\ FiltersOK' /\ subs' \subseteq Conns
    BY <1>1, <2>1, LeftAlone DEF CacheExpires, DeskOK
  <2>3. QED
    BY <2>1, <2>2, DeskKeeps DEF CacheExpires
<1>8. QED
  BY <1>2, <1>3, <1>4, <1>5, <1>6, <1>7

LEMMA SavesKeep ==
  ASSUME ChatInv, NEW n \in Nodes
  PROVE  /\ \A in \in FilterChoices : SaveFilterSettings(n, in) => ChatInv'
         /\ SaveAlertMail(n) => ChatInv'
PROOF
<1>1. ChatTypes /\ DeskOK /\ FiltersOK /\ subs \subseteq Conns
  BY DEF ChatInv, ChatTypes
<1>2. ASSUME NEW in \in FilterChoices PROVE SaveFilterSettings(n, in) => ChatInv'
  <2>1. HAVE SaveFilterSettings(n, in)
  <2>2. DeskOK' /\ FiltersOK' /\ subs' \subseteq Conns
    BY <1>1, <2>1, LeftAlone DEF SaveFilterSettings, FiltersOK, Filters
  <2>3. QED
    BY <2>1, <2>2, DeskKeeps DEF SaveFilterSettings
<1>3. SaveAlertMail(n) => ChatInv'
  <2>1. HAVE SaveAlertMail(n)
  <2>2. DeskOK' /\ FiltersOK' /\ subs' \subseteq Conns
    BY <1>1, <2>1 DEF SaveAlertMail, DeskOK, FiltersOK, Filters
  <2>3. QED
    BY <2>1, <2>2, DeskKeeps DEF SaveAlertMail
<1>4. QED
  BY <1>2, <1>3

LEMMA PurgeKeeps ==
  ASSUME ChatInv, NEW id \in Ids, Purge(id)
  PROVE  ChatInv'
PROOF
<1>1. ChatTypes /\ Messages
  BY DEF ChatInv
<1>2. /\ UNCHANGED <<desk, filters, subs, clients, task, mailed, alert, window, slips>>
      /\ Happens
  BY DEF Purge
<1>3. Messages' /\ row' \in [Ids -> Row]
  <2>1. CASE row[id].st # "none" /\ row' = [row EXCEPT ![id].st = "purged"]
    BY <1>1, <1>2, <2>1, HidingKeeps DEF clients
  <2>2. CASE UNCHANGED row
    BY <1>1, <1>2, <2>2, QuietKeeps DEF clients, ChatTypes
  <2>3. QED
    BY <2>1, <2>2 DEF Purge
<1>4. EventsOK'
  <2>1. CASE UNCHANGED event
    BY <1>1, <2>1, LeftAlone
  <2>2. CASE event' = [event EXCEPT ![id].st = "purged"]
    BY <1>1, <2>2 DEF ChatTypes, EventsOK, Event
  <2>3. QED
    BY <2>1, <2>2 DEF Purge
<1>5. CountsOK'
  BY <1>1, <1>2, Happening DEF ChatTypes
<1>6. QED
  BY <1>1, <1>2, <1>3, <1>4, <1>5, LeftAlone DEF ChatInv, ChatTypes, TasksOK

-----------------------------------------------------------------------------
(* The outbox leaves messages alone. *)
LEMMA OutboxKeeps ==
  ASSUME ChatInv, UNCHANGED outside, EventsOK', AlertsOK', CountsOK'
  PROVE  ChatInv'
PROOF
<1>1. ChatTypes /\ Messages
  BY DEF ChatInv
<1>2. UNCHANGED <<desk, filters, subs, row, clients, task>>
  BY DEF outside
<1>3. Messages'
  BY <1>1, <1>2, QuietKeeps DEF clients
<1>4. QED
  BY <1>1, <1>2, <1>3, LeftAlone DEF ChatInv, ChatTypes, TasksOK

(* An alert worker goes on with events. *)
LEMMA Posting ==
  ASSUME ChatTypes, NEW n \in Nodes,
         NEW at \in {"idle", "list", "send", "mark", "retry"}, NEW ids \in SUBSET Ids,
         Posts(n, at, ids)
  PROVE  /\ UNCHANGED mailed \/ Mailed(n) => mailed' \in [Ids -> Nat]
         /\ alert' \in [Nodes -> [at : {"idle", "list", "send", "mark", "retry"},
                                  ids : SUBSET Ids]]
PROOF
<1>1. mailed \in [Ids -> Nat]
  BY DEF ChatTypes, AlertsOK
<1>2. Mailed(n) => mailed' \in [Ids -> Nat]
  BY <1>1 DEF Mailed
<1>3. QED
  BY <1>1, <1>2 DEF ChatTypes, AlertsOK, Posts

LEMMA AlertKeeps ==
  ASSUME ChatInv, NEW n \in Nodes, Alert(n)
  PROVE  ChatInv'
PROOF
<1>1. /\ ChatTypes /\ EventsOK /\ AlertsOK /\ CountsOK
      /\ alert[n].ids \in SUBSET Ids /\ window \in BOOLEAN
  BY DEF ChatInv, ChatTypes, AlertsOK
<1>2. UNCHANGED outside
  BY DEF Alert, AlertTick, ListPending, SendMail, MarkSent, MarkRetry
<1>3. CountsOK'
  BY <1>1, Happening DEF Alert, AlertTick, ListPending, SendMail, MarkSent, MarkRetry
<1>4. EventsOK'
  <2>1. CASE UNCHANGED event
    BY <1>1, <2>1, LeftAlone
  <2>2. CASE event' = [id \in Ids |-> IF ~Marks(n, id) THEN event[id]
                         ELSE [event[id] EXCEPT !.st = "sent", !.tries = @ + 1]]
    <3>1. \A id \in Ids : /\ event[id] \in Event
                          /\ Marks(n, id) => event[id].tries + 1 \in 0..AlertMaxAttempts
      BY <1>1, HallChatAssumption DEF EventsOK, Event, Marks
    <3>2. \A id \in Ids : ~Marks(n, id) => event'[id] = event[id]
      BY <2>2
    <3>3. \A id \in Ids : Marks(n, id) =>
             /\ event'[id] \in Event /\ event'[id].st = "sent"
      BY <2>2, <3>1 DEF Event
    <3>4. event' \in [Ids -> Event]
      BY <2>2, <3>1, <3>3
    <3>5. QED
      BY <1>1, <3>2, <3>3, <3>4 DEF EventsOK
  <2>3. CASE event' = [id \in Ids |-> IF ~Marks(n, id) THEN event[id]
                         ELSE [st |-> IF event[id].tries + 1 >= AlertMaxAttempts
                                      THEN "failed" ELSE "pending",
                               tries |-> event[id].tries + 1, waits |-> TRUE]]
    BY <1>1, <2>3, HallChatAssumption DEF EventsOK, Event, Marks
  <2>4. QED
    BY <2>1, <2>2, <2>3 DEF Alert, AlertTick, ListPending, SendMail, MarkSent, MarkRetry
<1>5. AlertsOK'
  <2>1. \E at \in {"idle", "list", "send", "mark", "retry"}, ids \in SUBSET Ids :
           Posts(n, at, ids)
    BY <1>1 DEF Alert, AlertTick, ListPending, SendMail, MarkSent, MarkRetry, Ready
  <2>2. /\ UNCHANGED mailed \/ Mailed(n)
        /\ window' \in BOOLEAN
    BY <1>1 DEF Alert, AlertTick, ListPending, SendMail, MarkSent, MarkRetry
  <2>3. QED
    BY <1>1, <2>1, <2>2, Posting DEF AlertsOK
<1>6. QED
  BY <1>2, <1>3, <1>4, <1>5, OutboxKeeps

LEMMA LapsesKeep ==
  ASSUME ChatInv
  PROVE  /\ \A id \in Ids : BackoffLapses(id) => ChatInv'
         /\ WindowLapses => ChatInv'
PROOF
<1>1. ChatTypes /\ EventsOK /\ AlertsOK /\ CountsOK
  BY DEF ChatInv, ChatTypes
<1>2. ASSUME NEW id \in Ids PROVE BackoffLapses(id) => ChatInv'
  <2>1. HAVE BackoffLapses(id)
  <2>2. EventsOK'
    BY <1>1, <2>1 DEF BackoffLapses, EventsOK, Event
  <2>3. AlertsOK' /\ CountsOK'
    BY <1>1, <2>1, LeftAlone, Happening DEF BackoffLapses
  <2>4. QED
    BY <2>1, <2>2, <2>3, OutboxKeeps DEF BackoffLapses
<1>3. WindowLapses => ChatInv'
  <2>1. HAVE WindowLapses
  <2>2. AlertsOK' /\ CountsOK' /\ EventsOK'
    BY <1>1, <2>1, LeftAlone, Happening DEF WindowLapses, AlertsOK
  <2>3. QED
    BY <2>1, <2>2, OutboxKeeps DEF WindowLapses
<1>4. QED
  BY <1>2, <1>3

(* The tasks of a node that stops send nothing any more. *)
LEMMA CrashKeeps ==
  ASSUME ChatInv, NEW n \in Nodes, Crash(n)
  PROVE  ChatInv'
PROOF
<1>1. /\ ChatTypes /\ TasksOK /\ CountsOK /\ Messages /\ AlertsOK /\ FiltersOK
      /\ subs \subseteq Conns
  BY DEF ChatInv, ChatTypes
<1>2. /\ UNCHANGED <<desk, saved, row, clients, event, mailed, window>>
      /\ task' = [w \in Workers |-> IF w[1] = n THEN IdleTask ELSE task[w]]
      /\ subs' \subseteq subs
  BY DEF Crash
<1>3. IdleTask \in Fit /\ ~Sending(IdleTask)
  BY DEF IdleTask, Fit, Task, Sending, Filters
<1>4. TasksOK' /\ Still
  BY <1>1, <1>2, <1>3 DEF TasksOK, Still, clients
<1>5. CountsOK'
  BY <1>1, HallChatAssumption DEF Crash, Happens, CountsOK
<1>6. AlertsOK'
  <2>1. Posts(n, "idle", {}) /\ UNCHANGED <<mailed, window>>
    BY DEF Crash
  <2>2. QED
    BY <1>1, <2>1, Posting DEF AlertsOK
<1>7. FiltersOK'
  BY <1>1 DEF Crash, FiltersOK, Filters
<1>8. QED
  BY <1>1, <1>2, <1>4, <1>5, <1>6, <1>7, StillKeeps, LeftAlone DEF ChatInv, ChatTypes

-----------------------------------------------------------------------------
LEMMA ChatStep == ChatInv /\ [Next]_vars => ChatInv'
PROOF
<1> SUFFICES ASSUME ChatInv, [Next]_vars PROVE ChatInv'
  OBVIOUS
<1>1. CASE UNCHANGED vars
  <2>1. UNCHANGED <<desk, filters, subs, row, clients, task, outbox, events>>
    BY <1>1 DEF vars
  <2>2. DeskOK' /\ FiltersOK' /\ subs' \subseteq Conns
    BY <2>1, LeftAlone DEF ChatInv, ChatTypes
  <2>3. QED
    BY <2>1, <2>2, DeskKeeps
<1>2. CASE Next
  BY <1>2, StepKeeps, AsksKeep, HistoryKeeps, PeopleKeep, SavesKeep, PurgeKeeps,
     AlertKeeps, LapsesKeep, CrashKeeps DEF Next
<1>3. QED
  BY <1>1, <1>2

(* ChatInv is inductive. *)
LEMMA ChatInvariant == Spec => []ChatInv
PROOF
<1>1. QED
  BY ChatStart, ChatStep, PTL DEF Spec

-----------------------------------------------------------------------------
(***************************************************************************)
(* How often a record is mailed.  A worker that lists, or sends a mail     *)
(* with the record, may mail it once more; one that marks has mailed it.   *)
(* The lock allows one worker, and each lost outcome another; only a lost  *)
(* outcome leaves a record waiting that has been mailed.                   *)
(***************************************************************************)
Carriers(id) == {n \in Nodes : alert[n].at = "send" /\ id \in alert[n].ids}
Candidates(id) == {n \in Nodes : alert[n].at = "list" \/ n \in Carriers(id)}
Markers(id) == {n \in Nodes : alert[n].at = "mark" /\ id \in alert[n].ids}

Unsettled(id) == event[id].st \in {"none", "pending"}

MailsCounted(id) ==
    /\ mailed[id] + Cardinality(Carriers(id)) <= 1 + slips
    /\ Unsettled(id) =>
         /\ mailed[id] <= slips + Cardinality(Markers(id))
         /\ mailed[id] + Cardinality(Candidates(id)) <= slips + (IF window THEN 1 ELSE 0)

MailInv ==
    \A id \in Ids : /\ MailsCounted(id)
                    /\ event[id].st = "none" => \A n \in Nodes : id \notin alert[n].ids

\* no record goes back to waiting
Onward == \A id \in Ids : /\ Unsettled(id)' => Unsettled(id)
                          /\ event'[id].st = "none" => event[id].st = "none"

LEMMA Recount ==
  ASSUME NEW S, NEW T, NEW x, IsFiniteSet(S), T \ {x} = S \ {x}
  PROVE  /\ IsFiniteSet(T)
         /\ Cardinality(S) \in Nat /\ Cardinality(T) \in Nat
         /\ Cardinality(T) + (IF x \in S THEN 1 ELSE 0) = Cardinality(S) + (IF x \in T THEN 1 ELSE 0)
PROOF
<1> DEFINE R == S \ {x}
<1>1. IsFiniteSet(R) /\ Cardinality(R) = IF x \in S THEN Cardinality(S) - 1 ELSE Cardinality(S)
  BY FS_RemoveElement
<1>2. T = IF x \in T THEN R \cup {x} ELSE R
  OBVIOUS
<1>3. x \notin R
  OBVIOUS
<1> HIDE DEF R
<1>4. Cardinality(R \cup {x}) = Cardinality(R) + 1 /\ IsFiniteSet(R \cup {x})
  BY <1>1, <1>3, FS_AddElement
<1>5. IsFiniteSet(T)
  BY <1>1, <1>2, <1>4
<1>6. Cardinality(S) \in Nat /\ Cardinality(T) \in Nat /\ Cardinality(R) \in Nat
  BY <1>1, <1>5, FS_CardinalityType
<1>7. CASE x \in T
  <2>1. Cardinality(T) = Cardinality(R) + 1
    BY <1>2, <1>4, <1>7
  <2>2. QED
    BY <1>1, <1>5, <1>6, <1>7, <2>1
<1>8. CASE x \notin T
  BY <1>1, <1>2, <1>5, <1>6, <1>8
<1>9. QED
  BY <1>7, <1>8

(* What is counted is finite. *)
LEMMA SomeNodes ==
  ASSUME NEW S \in SUBSET Nodes
  PROVE  IsFiniteSet(S) /\ Cardinality(S) \in Nat
PROOF
<1>1. IsFiniteSet(S)
  BY HallChatAssumption, FS_Subset
<1>2. QED
  BY <1>1, FS_CardinalityType

LEMMA Counts ==
  ASSUME NEW id \in Ids
  PROVE  /\ {Carriers(id), Candidates(id), Markers(id)} \subseteq SUBSET Nodes
         /\ {Carriers(id)', Candidates(id)', Markers(id)'} \subseteq SUBSET Nodes
         /\ Carriers(id) \subseteq Candidates(id)
PROOF
<1>1. /\ Carriers(id) \subseteq Nodes /\ Candidates(id) \subseteq Nodes
      /\ Markers(id) \subseteq Nodes /\ Carriers(id) \subseteq Candidates(id)
  BY DEF Carriers, Candidates, Markers
<1>2. Carriers(id)' \subseteq Nodes /\ Candidates(id)' \subseteq Nodes /\ Markers(id)' \subseteq Nodes
  BY DEF Carriers, Candidates, Markers
<1>3. QED
  BY <1>1, <1>2

(* How the counts change when one worker goes on. *)
LEMMA Moves ==
  ASSUME ChatTypes, NEW n \in Nodes, NEW at, NEW ids, Posts(n, at, ids), NEW id \in Ids
  PROVE  LET k(b) == IF b THEN 1 ELSE 0
             before == alert[n]
         IN /\ Cardinality(Carriers(id))' + k(before.at = "send" /\ id \in before.ids)
                 = Cardinality(Carriers(id)) + k(at = "send" /\ id \in ids)
            /\ Cardinality(Candidates(id))'
                 + k(before.at = "list" \/ (before.at = "send" /\ id \in before.ids))
                 = Cardinality(Candidates(id)) + k(at = "list" \/ (at = "send" /\ id \in ids))
            /\ Cardinality(Markers(id))' + k(before.at = "mark" /\ id \in before.ids)
                 = Cardinality(Markers(id)) + k(at = "mark" /\ id \in ids)
PROOF
<1>1. /\ alert'[n] = [at |-> at, ids |-> ids]
      /\ \A m \in Nodes : m # n => alert'[m] = alert[m]
  BY DEF ChatTypes, AlertsOK, Posts
<1>2. /\ Carriers(id)' \ {n} = Carriers(id) \ {n}
      /\ Candidates(id)' \ {n} = Candidates(id) \ {n}
      /\ Markers(id)' \ {n} = Markers(id) \ {n}
  BY <1>1 DEF Carriers, Candidates, Markers
<1>3. /\ n \in Carriers(id)' <=> (at = "send" /\ id \in ids)
      /\ n \in Candidates(id)' <=> (at = "list" \/ (at = "send" /\ id \in ids))
      /\ n \in Markers(id)' <=> (at = "mark" /\ id \in ids)
  BY <1>1 DEF Carriers, Candidates, Markers
<1>4. /\ n \in Carriers(id) <=> (alert[n].at = "send" /\ id \in alert[n].ids)
      /\ n \in Candidates(id) <=>
           (alert[n].at = "list" \/ (alert[n].at = "send" /\ id \in alert[n].ids))
      /\ n \in Markers(id) <=> (alert[n].at = "mark" /\ id \in alert[n].ids)
  BY DEF Carriers, Candidates, Markers
<1>5. Cardinality(Carriers(id))' + (IF n \in Carriers(id) THEN 1 ELSE 0)
        = Cardinality(Carriers(id)) + (IF n \in Carriers(id)' THEN 1 ELSE 0)
  BY <1>2, Counts, SomeNodes, Recount
<1>6. Cardinality(Candidates(id))' + (IF n \in Candidates(id) THEN 1 ELSE 0)
        = Cardinality(Candidates(id)) + (IF n \in Candidates(id)' THEN 1 ELSE 0)
  BY <1>2, Counts, SomeNodes, Recount
<1>7. Cardinality(Markers(id))' + (IF n \in Markers(id) THEN 1 ELSE 0)
        = Cardinality(Markers(id)) + (IF n \in Markers(id)' THEN 1 ELSE 0)
  BY <1>2, Counts, SomeNodes, Recount
<1>8. QED
  BY <1>3, <1>4, <1>5, <1>6, <1>7

(* Counts are numbers, before a step and after it. *)
LEMMA MailNumbers ==
  ASSUME ChatTypes, ChatTypes', NEW id \in Ids
  PROVE  /\ mailed[id] \in Nat /\ mailed'[id] \in Nat /\ slips \in Nat /\ slips' \in Nat
         /\ Cardinality(Carriers(id)) \in Nat /\ Cardinality(Candidates(id)) \in Nat
         /\ Cardinality(Markers(id)) \in Nat
         /\ Cardinality(Carriers(id))' \in Nat /\ Cardinality(Candidates(id))' \in Nat
         /\ Cardinality(Markers(id))' \in Nat
PROOF
<1>1. /\ mailed[id] \in Nat /\ mailed'[id] \in Nat /\ slips \in Nat /\ slips' \in Nat
  BY DEF ChatTypes, AlertsOK, CountsOK
<1>2. QED
  BY <1>1, Counts, SomeNodes

(* A step of no alert worker, after which no more records wait. *)
LEMMA OthersKeepMails ==
  ASSUME MailInv, Onward, UNCHANGED <<mailed, alert, window, slips>>
  PROVE  MailInv'
PROOF
<1>1. ASSUME NEW id \in Ids
      PROVE  /\ Carriers(id)' = Carriers(id) /\ Candidates(id)' = Candidates(id)
             /\ Markers(id)' = Markers(id)
  BY DEF Carriers, Candidates, Markers
<1>2. QED
  BY <1>1 DEF MailInv, MailsCounted, Onward

LEMMA Inside ==
  ASSUME NEW id \in Ids
  PROVE  /\ Cardinality(Carriers(id)) <= Cardinality(Candidates(id))
         /\ Cardinality(Carriers(id))' <= Cardinality(Candidates(id))'
PROOF
<1>1. Carriers(id) \in SUBSET Candidates(id) /\ IsFiniteSet(Candidates(id))
  BY Counts, SomeNodes
<1>2. Carriers(id)' \in SUBSET Candidates(id)'
  BY DEF Carriers, Candidates
<1>3. IsFiniteSet(Candidates(id)')
  BY Counts, SomeNodes
<1>4. QED
  BY <1>1, <1>2, <1>3, FS_Subset

LEMMA TickKeepsMails ==
  ASSUME ChatTypes, ChatTypes', MailInv, NEW n \in Nodes, AlertTick(n) \/ ListPending(n)
  PROVE  MailInv'
PROOF
<1>1. UNCHANGED <<event, mailed, slips>>
  BY DEF AlertTick, ListPending
<1>2. ASSUME NEW id \in Ids PROVE MailsCounted(id)'
  <2>1. Unsettled(id)' <=> Unsettled(id)
    BY <1>1 DEF Unsettled
  <2>2. CASE AlertTick(n)
    <3>1. Posts(n, "list", {}) /\ alert[n].at = "idle" /\ ~window /\ window'
      BY <2>2 DEF AlertTick
    <3>2. /\ Cardinality(Carriers(id))' = Cardinality(Carriers(id))
          /\ Cardinality(Candidates(id))' = Cardinality(Candidates(id)) + 1
          /\ Cardinality(Markers(id))' = Cardinality(Markers(id))
      BY <3>1, Moves, MailNumbers
    <3>3. QED
      BY <1>1, <2>1, <3>1, <3>2, MailNumbers DEF MailInv, MailsCounted
  <2>3. CASE ListPending(n)
    <3>1. PICK at \in {"idle", "send"}, ids \in SUBSET Ready :
             Posts(n, at, ids) /\ alert[n].at = "list" /\ window' = window
      BY <2>3 DEF ListPending
    <3>2. /\ Cardinality(Carriers(id))' =
               Cardinality(Carriers(id)) + (IF at = "send" /\ id \in ids THEN 1 ELSE 0)
          /\ Cardinality(Candidates(id))' + 1 =
               Cardinality(Candidates(id)) + (IF at = "send" /\ id \in ids THEN 1 ELSE 0)
          /\ Cardinality(Markers(id))' = Cardinality(Markers(id))
      BY <3>1, Moves, MailNumbers
    <3>3. id \in ids => Unsettled(id)
      BY <3>1 DEF Ready, Unsettled
    <3>4. Cardinality(Carriers(id))' <= Cardinality(Candidates(id))'
      BY <3>1, MailNumbers, Inside
    <3>5. QED
      BY <1>1, <2>1, <3>1, <3>2, <3>3, <3>4, MailNumbers DEF MailInv, MailsCounted
  <2>4. QED
    BY <2>2, <2>3
<1>3. ASSUME NEW id \in Ids, NEW m \in Nodes, event'[id].st = "none" PROVE id \notin alert'[m].ids
  <2>1. PICK at \in {"list", "idle", "send"}, ids \in SUBSET Ready : Posts(n, at, ids)
    <3>1. CASE AlertTick(n)
      BY <3>1 DEF AlertTick
    <3>2. CASE ListPending(n)
      BY <3>2 DEF ListPending
    <3>3. QED
      BY <3>1, <3>2
  <2>2. alert'[m].ids = IF m = n THEN ids ELSE alert[m].ids
    BY <2>1 DEF Posts, ChatTypes, AlertsOK
  <2>3. QED
    BY <1>1, <1>3, <2>1, <2>2 DEF Ready, MailInv
<1>4. QED
  BY <1>2, <1>3 DEF MailInv

LEMMA SendKeepsMails ==
  ASSUME ChatTypes, ChatTypes', MailInv, NEW n \in Nodes, SendMail(n)
  PROVE  MailInv'
PROOF
<1>1. UNCHANGED <<event, window>> /\ alert[n].at = "send"
  BY DEF SendMail
<1>2. PICK at \in {"mark", "retry"} :
        /\ Posts(n, at, alert[n].ids)
        /\ \/ Mailed(n) /\ ((at = "mark" /\ slips' = slips) \/ slips' = slips + 1)
           \/ mailed' = mailed /\ slips' = slips /\ at = "retry"
  BY DEF SendMail, Slip
<1>3. ASSUME NEW id \in Ids PROVE MailsCounted(id)'
  <2>1. Unsettled(id)' <=> Unsettled(id)
    BY <1>1 DEF Unsettled
  <2>2. Mailed(n) => mailed'[id] = mailed[id] + (IF id \in alert[n].ids THEN 1 ELSE 0)
    BY DEF Mailed
  <2> DEFINE own == IF id \in alert[n].ids THEN 1 ELSE 0
  <2>3. /\ Cardinality(Carriers(id))' + own = Cardinality(Carriers(id))
        /\ Cardinality(Candidates(id))' + own = Cardinality(Candidates(id))
        /\ Cardinality(Markers(id))' =
             Cardinality(Markers(id)) + (IF at = "mark" THEN own ELSE 0)
    BY <1>1, <1>2, Moves, MailNumbers
  <2>4. own \in {0, 1}
    OBVIOUS
  <2> HIDE DEF own
  <2>5. mailed'[id] = mailed[id] + own \/ mailed'[id] = mailed[id]
    BY <1>2, <2>2 DEF own
  <2>6. CASE slips' = slips
    BY <1>1, <1>2, <2>1, <2>2, <2>3, <2>4, <2>5, <2>6, MailNumbers DEF MailInv, MailsCounted, own
  <2>7. CASE slips' = slips + 1
    BY <1>1, <1>2, <2>1, <2>2, <2>3, <2>4, <2>5, <2>7, MailNumbers DEF MailInv, MailsCounted
  <2>8. QED
    BY <1>2, <2>6, <2>7
<1>4. \A m \in Nodes : alert'[m].ids = alert[m].ids
  BY <1>2 DEF Posts, ChatTypes, AlertsOK
<1>5. QED
  BY <1>1, <1>3, <1>4 DEF MailInv

LEMMA MarkKeepsMails ==
  ASSUME ChatTypes, ChatTypes', MailInv, NEW n \in Nodes, MarkSent(n) \/ MarkRetry(n)
  PROVE  MailInv'
PROOF
<1>1. UNCHANGED <<mailed, window>> /\ Posts(n, "idle", {}) /\ alert[n].at \in {"mark", "retry"}
  BY DEF MarkSent, MarkRetry
<1>2. \/ slips' = slips + 1 /\ UNCHANGED event
      \/ /\ slips' = slips
         /\ \A id \in Ids : Marks(n, id) /\ alert[n].at = "mark" => ~Unsettled(id)'
  <2>1. CASE MarkSent(n)
    <3>1. CASE slips' = slips + 1 /\ UNCHANGED event
      BY <3>1
    <3>2. CASE /\ event' = [id \in Ids |-> IF ~Marks(n, id) THEN event[id]
                              ELSE [event[id] EXCEPT !.st = "sent", !.tries = @ + 1]]
               /\ UNCHANGED slips
      <4>1. ASSUME NEW id \in Ids, Marks(n, id) PROVE event'[id].st = "sent"
        <5>1. event'[id] = [event[id] EXCEPT !.st = "sent", !.tries = @ + 1] /\ event[id] \in Event
          BY <3>2, <4>1 DEF ChatTypes, EventsOK
        <5>2. QED
          BY <5>1 DEF Event
      <4>2. QED
        BY <3>2, <4>1 DEF Unsettled
    <3>3. QED
      BY <2>1, <3>1, <3>2 DEF MarkSent, Slip
  <2>2. CASE MarkRetry(n)
    BY <2>2 DEF MarkRetry
  <2>3. QED
    BY <2>1, <2>2
<1>3. Onward
  <2>1. ASSUME NEW id \in Ids PROVE Unsettled(id)' => Unsettled(id)
    BY DEF MarkSent, MarkRetry, Marks, Unsettled
  <2>2. ASSUME NEW id \in Ids PROVE event'[id].st = "none" => event[id].st = "none"
    <3>1. event[id] \in Event
      BY DEF ChatTypes, EventsOK
    <3>2. CASE MarkSent(n)
      <4>1. \/ event'[id] = event[id]
            \/ event'[id] = [event[id] EXCEPT !.st = "sent", !.tries = @ + 1]
        BY <3>2 DEF MarkSent
      <4>2. QED
        BY <3>1, <4>1 DEF Event
    <3>3. CASE MarkRetry(n)
      BY <3>3 DEF MarkRetry
    <3>4. QED
      BY <3>2, <3>3
  <2>3. QED
    BY <2>1, <2>2 DEF Onward
<1>4. ASSUME NEW id \in Ids PROVE MailsCounted(id)'
  <2> DEFINE own == IF alert[n].at = "mark" /\ id \in alert[n].ids THEN 1 ELSE 0
  <2>1. /\ Cardinality(Carriers(id))' = Cardinality(Carriers(id))
        /\ Cardinality(Candidates(id))' = Cardinality(Candidates(id))
        /\ Cardinality(Markers(id))' + own = Cardinality(Markers(id))
    BY <1>1, Moves, MailNumbers
  <2>2. own = 1 /\ slips' = slips => ~Unsettled(id)'
    <3>1. ASSUME own = 1, slips' = slips PROVE ~Unsettled(id)'
      <4>1. event[id].st # "none"
        BY <3>1 DEF MailInv
      <4>2. CASE event[id].st = "pending"
        BY <1>2, <3>1, <4>2, MailNumbers DEF Marks
      <4>3. CASE event[id].st # "pending"
        BY <1>3, <4>1, <4>3 DEF Onward, Unsettled
      <4>4. QED
        BY <4>2, <4>3
    <3>2. QED
      BY <3>1
  <2>3. own \in {0, 1}
    OBVIOUS
  <2> HIDE DEF own
  <2>4. slips' = slips \/ slips' = slips + 1
    BY <1>2
  <2>5. QED
    BY <1>1, <1>3, <2>1, <2>2, <2>3, <2>4, MailNumbers DEF MailInv, MailsCounted, Onward
<1>5. \A m \in Nodes : alert'[m].ids \subseteq alert[m].ids
  BY <1>1 DEF Posts, ChatTypes, AlertsOK
<1>6. QED
  BY <1>3, <1>4, <1>5 DEF MailInv, Onward

(* A crash, and a lock that lapses, are paid for. *)
LEMMA CrashKeepsMails ==
  ASSUME ChatTypes, ChatTypes', MailInv, NEW n \in Nodes, Crash(n)
  PROVE  MailInv'
PROOF
<1>1. /\ UNCHANGED <<event, mailed, window>> /\ Posts(n, "idle", {})
      /\ slips' = IF alert[n].at \in {"send", "mark"} THEN slips + 1 ELSE slips
  BY DEF Crash
<1>2. ASSUME NEW id \in Ids PROVE MailsCounted(id)'
  <2>1. Unsettled(id)' <=> Unsettled(id)
    BY <1>1 DEF Unsettled
  <2>2. /\ Cardinality(Carriers(id))' <= Cardinality(Carriers(id))
        /\ Cardinality(Candidates(id))' <= Cardinality(Candidates(id))
        /\ slips' + Cardinality(Markers(id))' >= slips + Cardinality(Markers(id))
        /\ slips' >= slips
    BY <1>1, Moves, MailNumbers
  <2>3. QED
    BY <1>1, <2>1, <2>2, MailNumbers DEF MailInv, MailsCounted
<1>3. \A m \in Nodes : alert'[m].ids \subseteq alert[m].ids
  BY <1>1 DEF Posts, ChatTypes, AlertsOK
<1>4. QED
  BY <1>1, <1>2, <1>3 DEF MailInv

LEMMA LapseKeepsMails ==
  ASSUME ChatTypes, ChatTypes', MailInv, WindowLapses
  PROVE  MailInv'
PROOF
<1>1. UNCHANGED <<event, mailed, alert>> /\ window /\ ~window'
  BY DEF WindowLapses
<1>2. ASSUME NEW id \in Ids PROVE MailsCounted(id)'
  <2>1. /\ Carriers(id)' = Carriers(id) /\ Candidates(id)' = Candidates(id)
        /\ Markers(id)' = Markers(id) /\ Unsettled(id)' = Unsettled(id)
    BY <1>1 DEF Carriers, Candidates, Markers, Unsettled
  <2>2. CASE \A n \in Nodes : alert[n].at = "idle"
    <3>1. Carriers(id) = {} /\ Candidates(id) = {} /\ Markers(id) = {}
      BY <2>2 DEF Carriers, Candidates, Markers
    <3>2. slips' = slips /\ Cardinality(Candidates(id)) = 0 /\ Cardinality(Markers(id)) = 0
      BY <2>2, <3>1, FS_EmptySet DEF WindowLapses
    <3>3. QED
      BY <1>1, <2>1, <3>2, MailNumbers DEF MailInv, MailsCounted
  <2>3. CASE slips' = slips + 1
    BY <1>1, <2>1, <2>3, MailNumbers DEF MailInv, MailsCounted
  <2>4. QED
    BY <2>2, <2>3 DEF WindowLapses, Slip
<1>3. QED
  BY <1>1, <1>2 DEF MailInv

(* No step but the clean-up and the outbox changes a record that is there. *)
LEMMA RecordsGoOnward ==
  ASSUME ChatTypes
  PROVE  /\ UNCHANGED event => Onward
         /\ \A w \in Workers : Record(w) => Onward
         /\ \A id \in Ids : Purge(id) \/ BackoffLapses(id) => Onward
PROOF
<1>1. UNCHANGED event => Onward
  BY DEF Onward, Unsettled
<1>2. ASSUME NEW w \in Workers PROVE Record(w) => Onward
  BY <1>1 DEF Record, Onward, Unsettled, ChatTypes, EventsOK, Event
<1>3. ASSUME NEW id \in Ids PROVE Purge(id) \/ BackoffLapses(id) => Onward
  BY <1>1 DEF Purge, BackoffLapses, Onward, Unsettled, ChatTypes, EventsOK, Event
<1>4. QED
  BY <1>1, <1>2, <1>3

LEMMA MailStep == ChatInv /\ ChatInv' /\ MailInv /\ [Next]_vars => MailInv'
PROOF
<1> SUFFICES ASSUME ChatInv, ChatInv', MailInv, [Next]_vars PROVE MailInv'
  OBVIOUS
<1> USE DEF ChatInv
<1>1. CASE UNCHANGED outbox
  BY <1>1, RecordsGoOnward, OthersKeepMails DEF outbox
<1>2. ASSUME NEW w \in Workers, Step(w) PROVE MailInv'
  <2>1. CASE Record(w)
    BY <2>1, RecordsGoOnward, OthersKeepMails DEF Record
  <2>2. CASE ~Record(w)
    <3>1. UNCHANGED outbox
      BY <1>2, <2>2
      DEF Step, Subscribe, Judge, ReadFilter, KeepFilter, Insert, Deliver, SoftDelete,
          AnnounceDeletion
    <3>2. QED
      BY <1>1, <3>1
  <2>3. QED
    BY <2>1, <2>2
<1>3. ASSUME NEW w \in Workers, NEW c \in Conns, NEW id \in Ids,
             AskSubscribe(w, c) \/ AskChat(w, c, id) \/ AskDelete(w, c, id)
      PROVE  MailInv'
  BY <1>1, <1>3 DEF AskSubscribe, AskChat, AskDelete, Frame
<1>4. ASSUME NEW w \in Workers, NEW c \in Conns, AskSubscribe(w, c) PROVE MailInv'
  BY <1>1, <1>4 DEF AskSubscribe, Frame
<1>5. ASSUME NEW c \in Conns, ReadHistory(c) \/ Unsubscribe(c) \/ Dismiss(c) PROVE MailInv'
  BY <1>1, <1>5 DEF ReadHistory, Unsubscribe, Dismiss
<1>6. ASSUME NEW p \in People, Kick(p) \/ BanExpires(p) \/ SetBlocked(p) PROVE MailInv'
  BY <1>1, <1>6 DEF Kick, BanExpires, SetBlocked
<1>7. ASSUME NEW s \in {"open", "chat"}, Switch(s) PROVE MailInv'
  BY <1>1, <1>7 DEF Switch
<1>8. ASSUME NEW n \in Nodes, NEW in \in FilterChoices, SaveFilterSettings(n, in) PROVE MailInv'
  BY <1>1, <1>8 DEF SaveFilterSettings
<1>9. ASSUME NEW n \in Nodes, SaveAlertMail(n) PROVE MailInv'
  BY <1>1, <1>9 DEF SaveAlertMail
<1>10. ASSUME NEW n \in Nodes, Alert(n) \/ Crash(n) PROVE MailInv'
  BY <1>10, TickKeepsMails, SendKeepsMails, MarkKeepsMails, CrashKeepsMails DEF Alert
<1>11. ASSUME NEW id \in Ids, Purge(id) \/ BackoffLapses(id) PROVE MailInv'
  <2>1. UNCHANGED <<mailed, alert, window, slips>>
    BY <1>11 DEF Purge, BackoffLapses
  <2>2. QED
    BY <1>11, <2>1, RecordsGoOnward, OthersKeepMails
<1>12. CASE CacheExpires
  BY <1>1, <1>12 DEF CacheExpires
<1>13. CASE WindowLapses
  BY <1>13, LapseKeepsMails
<1>14. CASE UNCHANGED vars
  BY <1>1, <1>14 DEF vars
<1>15. CASE Next
  BY <1>15, <1>2, <1>3, <1>4, <1>5, <1>6, <1>7, <1>8, <1>9, <1>10, <1>11, <1>12, <1>13 DEF Next
<1>16. QED
  BY <1>14, <1>15

LEMMA MailStart == Init => MailInv
PROOF
<1> SUFFICES ASSUME Init PROVE MailInv
  OBVIOUS
<1>1. ASSUME NEW id \in Ids
      PROVE  Carriers(id) = {} /\ Candidates(id) = {} /\ Markers(id) = {}
  BY DEF Init, IdleAlert, Carriers, Candidates, Markers
<1>2. \A id \in Ids : MailsCounted(id)
  <2> SUFFICES ASSUME NEW id \in Ids PROVE MailsCounted(id)
    OBVIOUS
  <2>1. /\ Cardinality(Carriers(id)) = 0 /\ Cardinality(Candidates(id)) = 0
        /\ Cardinality(Markers(id)) = 0
    BY <1>1, FS_EmptySet
  <2>2. mailed[id] = 0 /\ slips = 0
    BY DEF Init
  <2> QED
    BY <2>1, <2>2 DEF MailsCounted
<1>3. \A n \in Nodes : alert[n].ids = {}
  BY DEF Init, IdleAlert
<1>4. QED
  BY <1>2, <1>3 DEF MailInv

-----------------------------------------------------------------------------
(***************************************************************************)
(* What is stored.  A worker compiles the filter of a visitor's message    *)
(* from settings that were saved, or does without; an agent's message goes *)
(* past the filter.                                                        *)
(***************************************************************************)
AgentsAreUnfiltered ==
    \A w \in Workers :
        task[w].op = "chat" /\ Who[task[w].conn] \in Agents =>
           task[w].filter = NoFilter /\ task[w].at \notin {"filter", "keep"}

RowsAreFiltered ==
    \A id \in Ids : row[id].st # "none" =>
        /\ \E in \in Filters : row[id].content = Content(id, in)
        /\ row[id].by \in Agents => row[id].content = Words[id]

FilterInv == AgentsAreUnfiltered /\ RowsAreFiltered

\* a task that is not about to filter what an agent writes, if it was not
StaysUnfiltered(w) ==
    \/ task'[w].op # "chat"
    \/ Who[task'[w].conn] \notin Agents
    \/ task'[w].filter = NoFilter /\ task'[w].at \notin {"filter", "keep"}
    \/ /\ task[w].op = "chat"
       /\ task'[w].conn = task[w].conn /\ task'[w].filter = task[w].filter
       /\ task'[w].at \notin {"filter", "keep"} \/ task'[w].at = task[w].at

LEMMA UnfilteredStay ==
  ASSUME AgentsAreUnfiltered, \A w \in Workers : StaysUnfiltered(w)
  PROVE  AgentsAreUnfiltered'
PROOF
  BY DEF AgentsAreUnfiltered, StaysUnfiltered

(* One worker's task changes. *)
LEMMA OneStaysUnfiltered ==
  ASSUME TasksOK, NEW w \in Workers, NEW t, task' = [task EXCEPT ![w] = t],
         task'[w] = t => StaysUnfiltered(w)
  PROVE  \A v \in Workers : StaysUnfiltered(v)
PROOF
<1>1. task'[w] = t /\ \A v \in Workers : v # w => task'[v] = task[v]
  BY DEF TasksOK
<1>2. QED
  BY <1>1 DEF StaysUnfiltered

(* A row that keeps its author and content, or disappears, stays filtered. *)
LEMMA RowsStayFiltered ==
  ASSUME RowsAreFiltered,
         \A id \in Ids : \/ row'[id] = row[id]
                         \/ row[id].st # "none" /\ row'[id].by = row[id].by
                              /\ row'[id].content = row[id].content
  PROVE  RowsAreFiltered'
PROOF
<1> SUFFICES ASSUME NEW id \in Ids, row'[id].st # "none"
             PROVE  /\ \E in \in Filters : row'[id].content = Content(id, in)
                    /\ row'[id].by \in Agents => row'[id].content = Words[id]
  BY DEF RowsAreFiltered, Content, Verdict, Filters
<1>1. row[id].st # "none" /\ row'[id].by = row[id].by /\ row'[id].content = row[id].content
  OBVIOUS
<1>2. QED
  BY <1>1 DEF RowsAreFiltered

(* The worker's steps.  Only Judge decides who is filtered, only Insert    *)
(* stores.                                                                 *)
LEMMA WorkersFilter ==
  ASSUME ChatTypes, FilterInv, NEW w \in Workers, Step(w)
  PROVE  FilterInv'
PROOF
<1> DEFINE t == task[w]
<1>1. /\ TasksOK /\ t \in Fit /\ t \in Task /\ t.filter \in Filters
      /\ t.op \in {"chat", "delete"} => t.id \in Ids
      /\ t.at \in {"judge", "filter", "keep", "insert", "record"} => t.op = "chat"
  BY AtWork DEF ChatTypes, Fit
<1>2. AgentsAreUnfiltered /\ RowsAreFiltered
  BY DEF FilterInv
<1>3. ASSUME Ends(w) PROVE \A v \in Workers : StaysUnfiltered(v)
  <2>1. task' = [task EXCEPT ![w] = IdleTask]
    BY <1>3 DEF Ends
  <2>2. task'[w] = IdleTask => StaysUnfiltered(w)
    BY DEF IdleTask, StaysUnfiltered
  <2>3. QED
    BY <1>1, <2>1, <2>2, OneStaysUnfiltered
<1>4. ASSUME NEW at \in {"insert", "record", "out"}, Goes(w, at)
      PROVE  \A v \in Workers : StaysUnfiltered(v)
  <2>1. task' = [task EXCEPT ![w] = [t EXCEPT !.at = at]]
    BY <1>4 DEF Goes
  <2>2. /\ [t EXCEPT !.at = at].op = t.op /\ [t EXCEPT !.at = at].conn = t.conn
        /\ [t EXCEPT !.at = at].filter = t.filter /\ [t EXCEPT !.at = at].at = at
    BY <1>1 DEF Task
  <2>3. task'[w] = [t EXCEPT !.at = at] => StaysUnfiltered(w)
    BY <2>2 DEF StaysUnfiltered
  <2>4. QED
    BY <1>1, <2>1, <2>3, OneStaysUnfiltered
<1>5. CASE Subscribe(w) \/ Deliver(w) \/ AnnounceDeletion(w) \/ Record(w)
  <2>1. \A v \in Workers : StaysUnfiltered(v)
    BY <1>3, <1>4, <1>5 DEF Subscribe, Deliver, AnnounceDeletion, Record
  <2>2. UNCHANGED row
    BY <1>5 DEF Subscribe, Deliver, AnnounceDeletion, Record
  <2>3. QED
    BY <1>2, <2>1, <2>2, UnfilteredStay, RowsStayFiltered DEF FilterInv
<1>6. CASE Judge(w)
  <2>1. t.at = "judge" /\ UNCHANGED row /\ t.op = "chat"
    BY <1>1, <1>6 DEF Judge
  <2>2. CASE Who[t.conn] \in Agents
    <3>1. Ends(w) \/ Goes(w, "insert")
      BY <1>6, <2>2 DEF Judge
    <3>2. QED
      BY <1>2, <1>3, <1>4, <2>1, <3>1, UnfilteredStay, RowsStayFiltered DEF FilterInv
  <2>3. CASE Who[t.conn] \notin Agents
    <3>1. PICK b : task' = [task EXCEPT ![w] = [t EXCEPT !.silenced = b, !.at = "filter"]]
      BY <1>1, <1>6, <2>3 DEF Judge, TasksOK
    <3>2. [t EXCEPT !.silenced = b, !.at = "filter"].conn = t.conn
      BY <1>1 DEF Task
    <3>3. task'[w] = [t EXCEPT !.silenced = b, !.at = "filter"] => StaysUnfiltered(w)
      BY <2>3, <3>2 DEF StaysUnfiltered
    <3>4. QED
      BY <1>1, <1>2, <2>1, <3>1, <3>3, OneStaysUnfiltered, UnfilteredStay, RowsStayFiltered
      DEF FilterInv
  <2>4. QED
    BY <2>2, <2>3
<1>7. CASE ReadFilter(w)
  <2>1. t.at = "filter" /\ UNCHANGED row /\ Who[t.conn] \notin Agents
    BY <1>1, <1>2, <1>7 DEF ReadFilter, AgentsAreUnfiltered
  <2>2. PICK f, at : task' = [task EXCEPT ![w] = [t EXCEPT !.filter = f, !.at = at]]
    <3>1. PICK f, at : task' = [task EXCEPT ![w].filter = f, ![w].at = at]
      BY <1>7 DEF ReadFilter
    <3>2. task' = [task EXCEPT ![w] = [t EXCEPT !.filter = f, !.at = at]]
      BY <1>1, <3>1 DEF TasksOK, Task
    <3>3. QED
      BY <3>2
  <2>3. [t EXCEPT !.filter = f, !.at = at].conn = t.conn
    BY <1>1 DEF Task
  <2>4. task'[w] = [t EXCEPT !.filter = f, !.at = at] => StaysUnfiltered(w)
    BY <2>1, <2>3 DEF StaysUnfiltered
  <2>5. QED
    BY <1>1, <1>2, <2>1, <2>2, <2>4, OneStaysUnfiltered, UnfilteredStay, RowsStayFiltered
    DEF FilterInv
<1>8. CASE KeepFilter(w)
  BY <1>2, <1>4, <1>8, UnfilteredStay, RowsStayFiltered DEF KeepFilter, FilterInv
<1>9. CASE SoftDelete(w)
  <2>1. \A v \in Workers : StaysUnfiltered(v)
    BY <1>3, <1>4, <1>9 DEF SoftDelete
  <2>2. row \in [Ids -> Row] /\ t.id \in Ids
    BY <1>1, <1>9 DEF SoftDelete, ChatTypes
  <2>3. UNCHANGED row \/ (row[t.id].st = "shown" /\ row' = [row EXCEPT ![t.id].st = "deleted"])
    BY <1>9 DEF SoftDelete
  <2>4. \A id \in Ids : \/ row'[id] = row[id]
                        \/ row[id].st # "none" /\ row'[id].by = row[id].by
                             /\ row'[id].content = row[id].content
    BY <2>2, <2>3 DEF Row
  <2>5. QED
    BY <1>2, <2>1, <2>4, UnfilteredStay, RowsStayFiltered DEF FilterInv
<1>10. CASE Insert(w)
  <2>1. \A v \in Workers : StaysUnfiltered(v)
    BY <1>3, <1>4, <1>10 DEF Insert
  <2>2. /\ t.at = "insert" /\ t.id \in Ids /\ row \in [Ids -> Row] /\ t.op = "chat"
    BY <1>1, <1>10 DEF Insert, ChatTypes
  <2>3. Who[t.conn] \in Agents => Content(t.id, t.filter) = Words[t.id]
    BY <1>2, <2>2 DEF AgentsAreUnfiltered, Content
  <2>4. \/ UNCHANGED row
        \/ \E s : row' = [row EXCEPT ![t.id] =
                            [st |-> s, by |-> Who[t.conn], content |-> Content(t.id, t.filter)]]
    BY <1>10 DEF Insert
  <2>5. CASE UNCHANGED row
    BY <1>2, <2>1, <2>5, UnfilteredStay, RowsStayFiltered DEF FilterInv
  <2>6. ASSUME NEW s,
               row' = [row EXCEPT ![t.id] =
                         [st |-> s, by |-> Who[t.conn], content |-> Content(t.id, t.filter)]]
        PROVE  FilterInv'
    <3>1. ASSUME NEW id \in Ids, row'[id].st # "none"
          PROVE  /\ \E in \in Filters : row'[id].content = Content(id, in)
                 /\ row'[id].by \in Agents => row'[id].content = Words[id]
      <4>1. CASE id = t.id
        <5>1. row'[id].by = Who[t.conn] /\ row'[id].content = Content(t.id, t.filter)
          BY <2>2, <2>6, <4>1
        <5>2. QED
          BY <1>1, <2>3, <4>1, <5>1
      <4>2. CASE id # t.id
        <5>1. row'[id] = row[id]
          BY <2>2, <2>6, <4>2
        <5>2. QED
          BY <1>2, <3>1, <5>1 DEF RowsAreFiltered
      <4>3. QED
        BY <4>1, <4>2
    <3>2. RowsAreFiltered'
      BY <3>1 DEF RowsAreFiltered, Content, Verdict, Filters
    <3>3. QED
      BY <1>2, <2>1, <3>2, UnfilteredStay DEF FilterInv
  <2>7. QED
    BY <2>4, <2>5, <2>6
<1>11. QED
  BY <1>5, <1>6, <1>7, <1>8, <1>9, <1>10 DEF Step

(* A frame begins without a filter. *)
LEMMA FramesBeginUnfiltered ==
  ASSUME ChatTypes, FilterInv, NEW w \in Workers, NEW t, Frame(w, t),
         t.filter = NoFilter, t.at \in {"start", "judge"}
  PROVE  FilterInv'
PROOF
<1>1. task' = [task EXCEPT ![w] = t] /\ UNCHANGED row /\ TasksOK
  BY DEF Frame, ChatTypes
<1>2. \A v \in Workers : StaysUnfiltered(v)
  BY <1>1, OneStaysUnfiltered DEF StaysUnfiltered
<1>3. QED
  BY <1>1, <1>2, UnfilteredStay, RowsStayFiltered DEF FilterInv

(* A step that leaves rows and workers alone, or takes workers or rows away. *)
LEMMA OthersFilterNothing ==
  ASSUME ChatTypes, FilterInv,
         \A w \in Workers : task'[w] \in {task[w], IdleTask},
         \/ UNCHANGED row
         \/ \E id \in Ids : row[id].st # "none" /\ row' = [row EXCEPT ![id].st = "purged"]
  PROVE  FilterInv'
PROOF
<1>1. \A w \in Workers : StaysUnfiltered(w)
  BY DEF StaysUnfiltered, IdleTask
<1>2. row \in [Ids -> Row]
  BY DEF ChatTypes
<1>3. \A id \in Ids : \/ row'[id] = row[id]
                      \/ row[id].st # "none" /\ row'[id].by = row[id].by
                           /\ row'[id].content = row[id].content
  BY <1>2 DEF Row
<1>4. QED
  BY <1>1, <1>3, UnfilteredStay, RowsStayFiltered DEF FilterInv

LEMMA FilterStep == ChatInv /\ FilterInv /\ [Next]_vars => FilterInv'
PROOF
<1> SUFFICES ASSUME ChatInv, FilterInv, [Next]_vars PROVE FilterInv'
  OBVIOUS
<1>1. ChatTypes
  BY DEF ChatInv
<1>2. ASSUME UNCHANGED <<row, task>> PROVE FilterInv'
  BY <1>1, <1>2, OthersFilterNothing
<1>3. ASSUME NEW w \in Workers, NEW c \in Conns,
             \/ AskSubscribe(w, c)
             \/ \E id \in Ids : AskChat(w, c, id) \/ AskDelete(w, c, id)
      PROVE  FilterInv'
  <2>1. \E t : Frame(w, t) /\ t.filter = NoFilter /\ t.at \in {"start", "judge"}
    <3>1. PICK id : \E t \in {[IdleTask EXCEPT !.op = "subscribe", !.conn = c],
             [IdleTask EXCEPT !.op = "chat", !.at = "judge", !.conn = c, !.id = id],
             [IdleTask EXCEPT !.op = "delete", !.conn = c, !.id = id]} : Frame(w, t)
      BY <1>3 DEF AskSubscribe, AskChat, AskDelete
    <3>2. PICK t \in {[IdleTask EXCEPT !.op = "subscribe", !.conn = c],
             [IdleTask EXCEPT !.op = "chat", !.at = "judge", !.conn = c, !.id = id],
             [IdleTask EXCEPT !.op = "delete", !.conn = c, !.id = id]} : Frame(w, t)
      BY <3>1
    <3>3. t.filter = NoFilter /\ t.at \in {"start", "judge"}
      BY <3>2 DEF IdleTask
    <3>4. QED
      BY <3>2, <3>3
  <2>2. QED
    BY <1>1, <2>1, FramesBeginUnfiltered
<1>4. ASSUME NEW c \in Conns, ReadHistory(c) \/ Unsubscribe(c) \/ Dismiss(c) PROVE FilterInv'
  BY <1>2, <1>4 DEF ReadHistory, Unsubscribe, Dismiss
<1>5. ASSUME NEW p \in People, Kick(p) \/ BanExpires(p) \/ SetBlocked(p) PROVE FilterInv'
  BY <1>2, <1>5 DEF Kick, BanExpires, SetBlocked
<1>6. ASSUME NEW s \in {"open", "chat"}, Switch(s) PROVE FilterInv'
  BY <1>2, <1>6 DEF Switch
<1>7. ASSUME NEW n \in Nodes,
             (\E in \in FilterChoices : SaveFilterSettings(n, in)) \/ SaveAlertMail(n)
      PROVE  FilterInv'
  BY <1>2, <1>7 DEF SaveFilterSettings, SaveAlertMail
<1>8. ASSUME NEW n \in Nodes, Alert(n) PROVE FilterInv'
  BY <1>2, <1>8 DEF Alert, AlertTick, ListPending, SendMail, MarkSent, MarkRetry, outside
<1>9. ASSUME NEW n \in Nodes, Crash(n) PROVE FilterInv'
  <2>1. UNCHANGED row /\ \A w \in Workers : task'[w] \in {task[w], IdleTask}
    BY <1>9 DEF Crash
  <2>2. QED
    BY <1>1, <2>1, OthersFilterNothing
<1>10. ASSUME NEW id \in Ids, Purge(id) PROVE FilterInv'
  BY <1>1, <1>10, OthersFilterNothing DEF Purge
<1>11. ASSUME CacheExpires \/ WindowLapses \/ \E id \in Ids : BackoffLapses(id)
       PROVE  FilterInv'
  BY <1>2, <1>11 DEF CacheExpires, WindowLapses, BackoffLapses, outside
<1>12. CASE UNCHANGED vars
  BY <1>2, <1>12 DEF vars
<1>13. CASE Next
  BY <1>1, <1>13, <1>3, <1>4, <1>5, <1>6, <1>7, <1>8, <1>9, <1>10, <1>11,
     WorkersFilter DEF Next
<1>14. QED
  BY <1>12, <1>13

LEMMA FilterInvariant == Spec => []FilterInv
PROOF
<1>1. Init => FilterInv
  BY DEF Init, FilterInv, AgentsAreUnfiltered, RowsAreFiltered, IdleTask, NoRow
<1>2. QED
  BY <1>1, ChatInvariant, FilterStep, PTL DEF Spec

(***************************************************************************)
(* Everything keeps its type, for any people, connections, nodes, workers, *)
(* messages and filters (frames_chat.go, reconcile.go, filter_runtime.go); *)
(* an event that waits for a mail has attempts left.                       *)
(***************************************************************************)
THEOREM ChatTypeCorrect == Spec => []TypeOK
PROOF
<1>1. ChatInv => TypeOK
  BY TypesFollow DEF ChatInv
<1>2. QED
  BY <1>1, ChatInvariant, PTL

(***************************************************************************)
(* A message is broadcast at most once, however often its sender repeats   *)
(* it, through whichever connection and node, while the first copy is      *)
(* anywhere between the insertion and the broadcast (messages.go).         *)
(***************************************************************************)
THEOREM ChatBroadcastOnce == Spec => []BroadcastOnce
PROOF
<1>1. ChatInv => BroadcastOnce
  BY DEF ChatInv, Messages
<1>2. QED
  BY <1>1, ChatInvariant, PTL

(***************************************************************************)
(* What an acknowledgement tells the sender is what was stored and shown,  *)
(* whatever settings were saved between a message and its retry.           *)
(***************************************************************************)
THEOREM ChatAckTellsWhatIsShown == Spec => []AckTellsWhatIsShown
PROOF
<1>1. ChatInv => AckTellsWhatIsShown
  BY DEF ChatInv, Messages
<1>2. QED
  BY <1>1, ChatInvariant, PTL

(***************************************************************************)
(* What a blocked visitor writes reaches nobody else's screen, by push or  *)
(* by history, whoever blocks, unblocks, deletes or retries meanwhile.     *)
(***************************************************************************)
THEOREM ChatSilencedStaysPrivate == Spec => []SilencedStaysPrivate
PROOF
<1>1. ChatInv => SilencedStaysPrivate
  BY DEF ChatInv, Messages
<1>2. QED
  BY <1>1, ChatInvariant, PTL

(***************************************************************************)
(* Administrators get one mail about a filtered message, and one more for  *)
(* each time the outcome of a mail was lost: reported wrong, not marked,   *)
(* cut off by a crash, or sent while the lock had lapsed (AlertTick).      *)
(***************************************************************************)
THEOREM ChatMailedOnce == Spec => []MailedOnce
PROOF
<1>1. ASSUME ChatInv, MailInv PROVE MailedOnce
  <2>1. ASSUME NEW id \in Ids PROVE mailed[id] <= 1 + slips
    <3>1. mailed[id] \in Nat /\ slips \in Nat
      BY <1>1 DEF ChatInv, ChatTypes, AlertsOK, CountsOK
    <3>2. Cardinality(Carriers(id)) \in Nat
      BY Counts, SomeNodes
    <3>3. QED
      BY <1>1, <3>1, <3>2 DEF MailInv, MailsCounted
  <2>2. QED
    BY <2>1 DEF MailedOnce
<1>2. Spec => []MailInv
  BY ChatInvariant, MailStart, MailStep, PTL DEF Spec
<1>3. QED
  BY <1>1, <1>2, ChatInvariant, PTL

(***************************************************************************)
(* What is stored under an id is what the filter, compiled from settings   *)
(* that were saved or absent, makes of the words sent under that id; what  *)
(* an agent sends is stored as it is written (processChat, textFilter).    *)
(***************************************************************************)
THEOREM ChatRowsAreFiltered == Spec => []RowsAreFiltered
PROOF
<1>1. FilterInv => RowsAreFiltered
  BY DEF FilterInv
<1>2. QED
  BY <1>1, FilterInvariant, PTL

(***************************************************************************)
(* Where the filter makes of the settings and the words what plain search  *)
(* would (what Differences = {} says, and TLC evaluates), every message is *)
(* stored so for some settings that were saved, or as it was written, by   *)
(* whatever way the settings reached the worker (filter_runtime.go).       *)
(***************************************************************************)
THEOREM ChatFilterIsExact ==
  ASSUME Differences = {}, FilterChoices \subseteq Inputs, \A id \in Ids : Words[id] \in Texts
  PROVE  Spec => []FilterIsExact
PROOF
<1>1. ASSUME NEW in \in FilterChoices, NEW id \in Ids
      PROVE  Verdict[in][id].masked = Expected[in][id]
  <2> DEFINE f == Compile(parseFilterSettings(filterKV(ValidateFilterInput(in).cfg)))
  <2>1. in \in {i \in Inputs : ValidateFilterInput(i).ok} /\ Words[id] \in Texts
    BY HallChatAssumption
  <2>2. Verdict[in][id].masked = Check(f, Words[id]).masked
    BY DEF Verdict
  <2>3. Check(f, Words[id]).masked # Enforced(in, Words[id]) => <<in, Words[id]>> \in Differences
    BY <2>1 DEF Differences
  <2>4. QED
    BY <2>2, <2>3 DEF Expected
<1>2. ASSUME RowsAreFiltered PROVE FilterIsExact
  <2>1. ASSUME NEW id \in Ids, row[id].st # "none"
        PROVE  row[id].content \in {Words[id]} \cup {Expected[in][id] : in \in FilterChoices}
    <3>1. PICK in \in Filters : row[id].content = Content(id, in)
      BY <1>2, <2>1 DEF RowsAreFiltered
    <3>2. CASE in = NoFilter
      BY <3>1, <3>2 DEF Content
    <3>3. CASE in # NoFilter
      <4>1. in \in FilterChoices /\ row[id].content = Expected[in][id]
        BY <1>1, <3>1, <3>3 DEF Content, Filters
      <4>2. QED
        BY <4>1
    <3>4. QED
      BY <3>2, <3>3
  <2>2. QED
    BY <2>1 DEF FilterIsExact
<1>3. FilterInv => FilterIsExact
  BY <1>2 DEF FilterInv
<1>4. QED
  BY <1>3, FilterInvariant, PTL

=============================================================================
