------------------------------ MODULE HallChat ------------------------------
(***************************************************************************)
(* The text side of the voice hall, backend/internal/hall: frames of       *)
(* connections that enter the hall and write in it, the filter on what     *)
(* visitors write, deletion, history, the daily clean-up, and the outbox   *)
(* that mails administrators about what was filtered.  Each node works on  *)
(* several frames at a time and caches the settings; the database is the   *)
(* only thing the nodes share besides a lock in Redis and the fan-out.     *)
(*                                                                         *)
(* A frame that a rate limit or its format refuses is one that is not      *)
(* sent.  Attachments are left out.                                        *)
(***************************************************************************)
EXTENDS TextFilter

CONSTANTS Visitors, Agents,
          Nodes,
          Conns,       \* connections
          Who, Home,   \* the person and the node of each connection
          Ids,         \* message ids the clients use
          Words,       \* the text the client writes under each id
          FilterChoices, \* bound: the settings an administrator saves
          FirstFilter,
          FrameSlots,  \* frame workers of a node
          AlertBatch, AlertMaxAttempts,
          MaxEvents,   \* bound: frames, desk actions and failures
          NoFilter, NoId, Nobody

People == Visitors \cup Agents
Workers == Nodes \X (1..FrameSlots)

ASSUME HallChatAssumption ==
    /\ IsFiniteSet(Nodes)
    /\ Who \in [Conns -> People] /\ Home \in [Conns -> Nodes]
    /\ Visitors \cap Agents = {} /\ Nobody \notin People
    /\ FirstFilter \in FilterChoices /\ NoFilter \notin FilterChoices
    /\ \A in \in FilterChoices : ValidateFilterInput(in).ok
    /\ {FrameSlots, AlertBatch, AlertMaxAttempts} \subseteq Nat \ {0} /\ MaxEvents \in Nat
    /\ NoId \notin Ids

VARIABLES
    settings, cached,  \* the switches "open" and "chat"; what a cache may hold
    saved,             \* the filter's settings in the database
    filterCache,       \* by node: the settings compiled last
    alerts,            \* the alert mail is on and configured
    alertCache,        \* what a node's cache of it may hold
    banned,
    blocked,           \* blocked visitors and deactivated agents
    subs,              \* connections subscribed to the hall
    row,               \* hall_messages
    event,             \* hall_filter_events
    screen, told,      \* clients: messages on the screen, acknowledgements
    sent, mailed,      \* how often each message was broadcast, mailed
    task,              \* frame workers
    alert, window,     \* alert workers; the lock of 55 s is taken
    slips,             \* mails whose outcome was lost
    events             \* frames, desk actions and failures to come

desk    == <<settings, cached, alerts, alertCache, banned, blocked>>
filters == <<saved, filterCache>>
clients == <<screen, told, sent>>
outbox  == <<event, mailed, alert, window, slips>>
vars    == <<desk, filters, subs, row, clients, task, outbox, events>>

NoRow == [st |-> "none", by |-> Nobody, content |-> <<>>]
NoEvent == [st |-> "none", tries |-> 0, waits |-> FALSE]
IdleAlert == [at |-> "idle", ids |-> {}]
IdleTask == [op |-> "idle", at |-> "start", conn |-> Nobody, id |-> NoId,
             silenced |-> FALSE, filter |-> NoFilter]

Filters == FilterChoices \cup {NoFilter}

\* what the filter makes of a text
Verdict == [in \in FilterChoices |->
              LET f == Compile(parseFilterSettings(filterKV(ValidateFilterInput(in).cfg)))
              IN [id \in Ids |-> Check(f, Words[id])]]

Content(id, in) == IF in = NoFilter THEN Words[id] ELSE Verdict[in][id].masked
Filtered(id, in) == in # NoFilter /\ Verdict[in][id].filtered

Contents == {<<>>} \cup {Content(id, in) : id \in Ids, in \in Filters}

Row == [st : {"none", "shown", "silenced", "deleted", "purged"},
        by : People \cup {Nobody}, content : Contents]
Event == [st : {"none", "pending", "sent", "failed", "disabled", "silenced", "purged"},
          tries : 0..AlertMaxAttempts, waits : BOOLEAN]
Task == [op : {"idle", "subscribe", "chat", "delete"},
         at : {"start", "judge", "filter", "keep", "insert", "record", "out"},
         conn : Conns \cup {Nobody}, id : Ids \cup {NoId},
         silenced : BOOLEAN, filter : Filters]

TypeOK ==
    /\ settings \in [{"open", "chat"} -> BOOLEAN] /\ cached \in [{"open", "chat"} -> BOOLEAN]
    /\ saved \in FilterChoices /\ filterCache \in [Nodes -> Filters]
    /\ alerts \in BOOLEAN /\ alertCache \in BOOLEAN
    /\ banned \subseteq People /\ blocked \subseteq People /\ subs \subseteq Conns
    /\ row \in [Ids -> Row] /\ event \in [Ids -> Event]
    /\ \A id \in Ids : event[id].st = "pending" => event[id].tries < AlertMaxAttempts
    /\ screen \in [Conns -> SUBSET Ids] /\ told \in [Conns -> SUBSET (Ids \X Contents)]
    /\ sent \in [Ids -> Nat] /\ mailed \in [Ids -> Nat]
    /\ task \in [Workers -> Task]
    /\ alert \in [Nodes -> [at : {"idle", "list", "send", "mark", "retry"}, ids : SUBSET Ids]]
    /\ window \in BOOLEAN
    /\ slips \in 0..MaxEvents /\ events \in 0..MaxEvents

Happens == events > 0 /\ events' = events - 1

-----------------------------------------------------------------------------
(***************************************************************************)
(* Frames.  The hub hands a frame to a free worker of the node.            *)
(***************************************************************************)
Frame(w, t) ==
    /\ Happens
    /\ task[w].op = "idle"
    /\ w[1] = Home[t.conn]
    /\ task' = [task EXCEPT ![w] = t]
    /\ UNCHANGED <<desk, filters, subs, row, clients, outbox>>

Goes(w, at) == task' = [task EXCEPT ![w].at = at]
Ends(w) == task' = [task EXCEPT ![w] = IdleTask]

AskSubscribe(w, c) ==
    \E st \in {settings, cached} :
        /\ st["open"] /\ Who[c] \notin banned
        /\ Frame(w, [IdleTask EXCEPT !.op = "subscribe", !.conn = c])

\* processChat up to the ban check; an id that is purged is not used again.
AskChat(w, c, id) ==
    \E st \in {settings, cached} :
        /\ st["open"] /\ st["chat"] /\ c \in subs /\ Who[c] \notin banned
        /\ row[id].st # "purged"
        /\ Frame(w, [IdleTask EXCEPT !.op = "chat", !.at = "judge", !.conn = c, !.id = id])

AskDelete(w, c, id) ==
    /\ Who[c] \in Agents
    /\ Frame(w, [IdleTask EXCEPT !.op = "delete", !.conn = c, !.id = id])

Subscribe(w) ==
    /\ task[w].op = "subscribe"
    /\ subs' = subs \cup {task[w].conn}
    /\ Ends(w)
    /\ UNCHANGED <<desk, filters, row, clients, outbox, events>>

\* A blocked visitor is silenced; a deactivated agent is refused.
Judge(w) ==
    /\ task[w].at = "judge"
    /\ LET p == Who[task[w].conn]
       IN IF p \in Agents THEN IF p \in blocked THEN Ends(w) ELSE Goes(w, "insert")
          ELSE task' = [task EXCEPT ![w].silenced = p \in blocked, ![w].at = "filter"]
    /\ UNCHANGED <<desk, filters, subs, row, clients, outbox, events>>

\* textFilter: the filter of the node's cache while it lasts, or the saved one
\* once it is read.  When it cannot be read the cached one is used, however
\* old, or none.
ReadFilter(w) ==
    /\ task[w].at = "filter"
    /\ LET cache == filterCache[w[1]]
           uses(f, at) == task' = [task EXCEPT ![w].filter = f, ![w].at = at]
       IN \/ cache # NoFilter /\ uses(cache, "insert") /\ UNCHANGED events
          \/ uses(saved, "keep") /\ UNCHANGED events
          \/ cache = NoFilter /\ uses(cache, "insert") /\ Happens
    /\ UNCHANGED <<desk, filters, subs, row, clients, outbox>>

KeepFilter(w) ==
    /\ task[w].at = "keep"
    /\ filterCache' = [filterCache EXCEPT ![w[1]] = task[w].filter]
    /\ Goes(w, "insert")
    /\ UNCHANGED <<desk, saved, subs, row, clients, outbox, events>>

\* faulty: the content is not compared.
RepeatsAnyContent(id, by, content) == row[id].by = by

\* what a retry of the stored message must repeat
Repeats(id, by, content) == row[id].by = by /\ row[id].content = content

Acknowledge(t, content) ==
    told' = [told EXCEPT ![t.conn] = @ \cup {<<t.id, content>>}]

\* faulty: a retry goes on like a new message.
InsertGoesOn(w) ==
    /\ task[w].at = "insert"
    /\ LET t == task[w]
           content == Content(t.id, t.filter)
           new == [st |-> IF t.silenced THEN "silenced" ELSE "shown",
                   by |-> Who[t.conn], content |-> content]
           first == row[t.id].st = "none"
       IN \/ /\ first \/ Repeats(t.id, Who[t.conn], content)
             /\ row' = IF first THEN [row EXCEPT ![t.id] = new] ELSE row
             /\ Acknowledge(t, content)
             /\ Goes(w, IF Filtered(t.id, t.filter) THEN "record" ELSE "out")
             /\ UNCHANGED events
          \/ /\ Happens /\ first
             /\ row' \in {row, [row EXCEPT ![t.id] = new]}
             /\ Ends(w)
             /\ UNCHANGED told
    /\ UNCHANGED <<desk, filters, subs, screen, sent, outbox>>

\* InsertHallMessage.  A retry is acknowledged and goes no further; an id in
\* use for something else is refused.  The insertion may fail, or be reported
\* as failed when it was made.
Insert(w) ==
    /\ task[w].at = "insert"
    /\ LET t == task[w]
           content == Content(t.id, t.filter)
           new == [st |-> IF t.silenced THEN "silenced" ELSE "shown",
                   by |-> Who[t.conn], content |-> content]
           first == row[t.id].st = "none"
       IN \/ /\ first
             /\ row' = [row EXCEPT ![t.id] = new]
             /\ Acknowledge(t, content)
             /\ Goes(w, IF Filtered(t.id, t.filter) THEN "record" ELSE "out")
             /\ UNCHANGED events
          \/ /\ ~first /\ Repeats(t.id, Who[t.conn], content)
             /\ Acknowledge(t, content)
             /\ Ends(w)
             /\ UNCHANGED <<row, events>>
          \/ /\ ~first /\ ~Repeats(t.id, Who[t.conn], content)
             /\ Ends(w)
             /\ UNCHANGED <<row, told, events>>
          \/ /\ Happens /\ first
             /\ row' \in {row, [row EXCEPT ![t.id] = new]}
             /\ Ends(w)
             /\ UNCHANGED told
    /\ UNCHANGED <<desk, filters, subs, screen, sent, outbox>>

\* recordFilterEvent: the mail settings may come from the cache.  That the
\* record cannot be written is only logged.
Record(w) ==
    /\ task[w].at = "record"
    /\ LET t == task[w]
       IN \E on \in {alerts, alertCache} :
            \/ /\ event' = IF event[t.id].st # "none" THEN event
                            ELSE [event EXCEPT ![t.id].st =
                                    IF t.silenced THEN "silenced"
                                    ELSE IF on THEN "pending" ELSE "disabled"]
               /\ UNCHANGED events
            \/ Happens /\ UNCHANGED event
    /\ Goes(w, "out")
    /\ UNCHANGED <<desk, filters, subs, row, clients, mailed, alert, window, slips>>

\* faulty: what the row says is not looked at again, only who wrote it.
DeliverToAll(w) ==
    /\ task[w].at = "out" /\ task[w].op = "chat"
    /\ screen' = [c \in Conns |-> screen[c] \cup (IF c \in subs THEN {task[w].id} ELSE {})]
    /\ sent' = [sent EXCEPT ![task[w].id] = @ + 1]
    /\ Ends(w)
    /\ UNCHANGED <<desk, filters, subs, row, told, outbox, events>>

\* A silenced message returns to its connection only.  The others go to the
\* subscribers of the node and, unless Redis fails, of the other nodes.
Deliver(w) ==
    /\ task[w].at = "out" /\ task[w].op = "chat"
    /\ LET t == task[w]
           near == {c \in subs : Home[c] = w[1]}
       IN IF t.silenced
          THEN /\ screen' = [screen EXCEPT ![t.conn] = @ \cup {t.id}]
               /\ UNCHANGED <<sent, events>>
          ELSE /\ \/ screen' = [c \in Conns |-> screen[c] \cup (IF c \in subs THEN {t.id} ELSE {})]
                     /\ UNCHANGED events
                  \/ screen' = [c \in Conns |-> screen[c] \cup (IF c \in near THEN {t.id} ELSE {})]
                     /\ near # subs /\ Happens
               /\ sent' = [sent EXCEPT ![t.id] = @ + 1]
    /\ Ends(w)
    /\ UNCHANGED <<desk, filters, subs, row, told, outbox>>

\* SoftDeleteHallMessage: only a message that is shown
SoftDelete(w) ==
    /\ task[w].op = "delete" /\ task[w].at = "start"
    /\ LET id == task[w].id
       IN IF row[id].st = "shown"
          THEN row' = [row EXCEPT ![id].st = "deleted"] /\ Goes(w, "out")
          ELSE UNCHANGED row /\ Ends(w)
    /\ UNCHANGED <<desk, filters, subs, clients, outbox, events>>

AnnounceDeletion(w) ==
    /\ task[w].op = "delete" /\ task[w].at = "out"
    /\ screen' = [c \in Conns |-> screen[c] \ (IF c \in subs THEN {task[w].id} ELSE {})]
    /\ Ends(w)
    /\ UNCHANGED <<desk, filters, subs, row, told, sent, outbox, events>>

Step(w) ==
    \/ Subscribe(w) \/ Judge(w) \/ ReadFilter(w) \/ KeepFilter(w) \/ Insert(w)
    \/ Record(w) \/ Deliver(w) \/ SoftDelete(w) \/ AnnounceDeletion(w)

-----------------------------------------------------------------------------
(***************************************************************************)
(* History, and what participants and the desk do.                         *)
(***************************************************************************)
\* ListHallMessages for a viewer
Visible(p) ==
    {id \in Ids : row[id].st = "shown" \/ (row[id].st = "silenced" /\ row[id].by = p)}

ReadHistory(c) ==
    /\ Happens
    /\ Who[c] \in Visitors =>
         \E st \in {settings, cached} : st["open"] /\ Who[c] \notin banned
    /\ screen' = [screen EXCEPT ![c] = Visible(Who[c])]
    /\ UNCHANGED <<desk, filters, subs, row, told, sent, task, outbox>>

\* A subscription ends at the wish of its client or with its connection, ...
Unsubscribe(c) ==
    /\ Happens
    /\ c \in subs
    /\ subs' = subs \ {c}
    /\ UNCHANGED <<desk, filters, row, clients, task, outbox>>

\* ... or by the notice of a kick or of a closed hall.  It is fanned out, and
\* reaches a connection some time later or, when Redis loses it, never.
Dismiss(c) ==
    /\ Who[c] \in banned \/ ~settings["open"]
    /\ c \in subs
    /\ subs' = subs \ {c}
    /\ UNCHANGED <<desk, filters, row, clients, task, outbox, events>>

Kick(p) ==
    /\ Happens
    /\ banned' = banned \cup {p}
    /\ UNCHANGED <<settings, cached, alerts, alertCache, blocked, filters, subs, row, clients,
                   task, outbox>>

BanExpires(p) ==
    /\ p \in banned
    /\ banned' = banned \ {p}
    /\ UNCHANGED <<settings, cached, alerts, alertCache, blocked, filters, subs, row, clients,
                   task, outbox, events>>

SetBlocked(p) ==
    /\ Happens
    /\ blocked' = IF p \in blocked THEN blocked \ {p} ELSE blocked \cup {p}
    /\ UNCHANGED <<settings, cached, alerts, alertCache, banned, filters, subs, row, clients,
                   task, outbox>>

Switch(s) ==
    /\ Happens
    /\ settings' = [settings EXCEPT ![s] = ~@]
    /\ UNCHANGED <<cached, alerts, alertCache, banned, blocked, filters, subs, row, clients,
                   task, outbox>>

CacheExpires ==
    /\ cached # settings \/ alertCache # alerts
    /\ cached' = settings /\ alertCache' = alerts
    /\ UNCHANGED <<settings, alerts, banned, blocked, filters, subs, row, clients, task,
                   outbox, events>>

\* invalidateFilterCaches is for the node that saves.
SaveFilterSettings(n, in) ==
    /\ Happens
    /\ in # saved
    /\ saved' = in
    /\ filterCache' = [filterCache EXCEPT ![n] = NoFilter]
    /\ UNCHANGED <<desk, subs, row, clients, task, outbox>>

SaveAlertMail(n) ==
    /\ Happens
    /\ alerts' = ~alerts
    /\ filterCache' = [filterCache EXCEPT ![n] = NoFilter]
    /\ UNCHANGED <<settings, cached, alertCache, banned, blocked, saved, subs, row, clients,
                   task, outbox>>

\* purgeHallBefore, for what is 30 days old: messages first, then records
Purge(id) ==
    /\ Happens
    /\ \A w \in Workers : task[w].id # id
    /\ \/ /\ row[id].st \notin {"none", "purged"}
          /\ row' = [row EXCEPT ![id].st = "purged"]
          /\ UNCHANGED event
       \/ /\ row[id].st = "purged" /\ event[id].st \notin {"none", "purged"}
          /\ event' = [event EXCEPT ![id].st = "purged"]
          /\ UNCHANGED row
    /\ UNCHANGED <<desk, filters, subs, clients, task, mailed, alert, window, slips>>

-----------------------------------------------------------------------------
(***************************************************************************)
(* The outbox: AlertTick on every node.                                    *)
(***************************************************************************)
Ready == {id \in Ids : event[id].st = "pending" /\ ~event[id].waits}

Posts(n, at, ids) == alert' = [alert EXCEPT ![n] = [at |-> at, ids |-> ids]]

outside == <<desk, filters, subs, row, clients, task>>

\* faulty: the lock is not taken.
AlertTickUnlocked(n) ==
    /\ alert[n].at = "idle"
    /\ alerts /\ Ready # {}
    /\ Posts(n, "list", {})
    /\ UNCHANGED <<outside, event, mailed, window, slips, events>>

AlertTick(n) ==
    /\ alert[n].at = "idle"
    /\ alerts /\ Ready # {} /\ ~window
    /\ window' = TRUE
    /\ Posts(n, "list", {})
    /\ UNCHANGED <<outside, event, mailed, slips, events>>

ListPending(n) ==
    /\ alert[n].at = "list"
    /\ \E ids \in SUBSET Ready :
         /\ Cardinality(ids) = Min({AlertBatch, Cardinality(Ready)})
         /\ Posts(n, IF ids = {} THEN "idle" ELSE "send", ids)
    /\ UNCHANGED <<outside, event, mailed, window, slips, events>>

Mailed(n) == mailed' = [id \in Ids |-> mailed[id] + (IF id \in alert[n].ids THEN 1 ELSE 0)]

Slip == Happens /\ slips' = slips + 1

\* The server takes the mail or not; a mail it took may be reported as failed.
SendMail(n) ==
    /\ alert[n].at = "send"
    /\ \/ Mailed(n) /\ Posts(n, "mark", alert[n].ids) /\ UNCHANGED <<slips, events>>
       \/ Posts(n, "retry", alert[n].ids) /\ UNCHANGED <<mailed, slips, events>>
       \/ Mailed(n) /\ Posts(n, "retry", alert[n].ids) /\ Slip
    /\ UNCHANGED <<outside, event, window>>

\* the records of the mail that are still pending
Marks(n, id) == id \in alert[n].ids /\ event[id].st = "pending"

MarkSent(n) ==
    /\ alert[n].at = "mark"
    /\ \/ /\ event' = [id \in Ids |-> IF ~Marks(n, id) THEN event[id]
                         ELSE [event[id] EXCEPT !.st = "sent", !.tries = @ + 1]]
          /\ UNCHANGED <<slips, events>>
       \/ Slip /\ UNCHANGED event
    /\ Posts(n, "idle", {})
    /\ UNCHANGED <<outside, mailed, window>>

\* faulty: the attempts are not counted.
MarkRetryForever(n) ==
    /\ alert[n].at = "retry"
    /\ event' = [id \in Ids |-> IF ~Marks(n, id) THEN event[id]
                   ELSE [event[id] EXCEPT !.waits = TRUE]]
    /\ Posts(n, "idle", {})
    /\ UNCHANGED <<outside, mailed, window, slips, events>>

\* faulty: the status is decided by the attempts made before this one.
MarkRetryLate(n) ==
    /\ alert[n].at = "retry"
    /\ \/ /\ event' = [id \in Ids |-> IF ~Marks(n, id) THEN event[id]
                         ELSE [st |-> IF event[id].tries >= AlertMaxAttempts
                                      THEN "failed" ELSE "pending",
                               tries |-> event[id].tries + 1, waits |-> TRUE]]
          /\ UNCHANGED events
       \/ Happens /\ UNCHANGED event
    /\ Posts(n, "idle", {})
    /\ UNCHANGED <<outside, mailed, window, slips>>

\* The status is decided by the attempts counted up (the comment of
\* MarkHallFilterMailRetry on MySQL's order of assignments).
MarkRetry(n) ==
    /\ alert[n].at = "retry"
    /\ \/ /\ event' = [id \in Ids |-> IF ~Marks(n, id) THEN event[id]
                         ELSE [st |-> IF event[id].tries + 1 >= AlertMaxAttempts
                                      THEN "failed" ELSE "pending",
                               tries |-> event[id].tries + 1, waits |-> TRUE]]
          /\ UNCHANGED events
       \/ Happens /\ UNCHANGED event
    /\ Posts(n, "idle", {})
    /\ UNCHANGED <<outside, mailed, window, slips>>

Alert(n) == AlertTick(n) \/ ListPending(n) \/ SendMail(n) \/ MarkSent(n) \/ MarkRetry(n)

BackoffLapses(id) ==
    /\ event[id].waits
    /\ event' = [event EXCEPT ![id].waits = FALSE]
    /\ UNCHANGED <<outside, mailed, alert, window, slips, events>>

\* A mail takes 40 s at most, the lock 55 s: only a database that hangs makes
\* it lapse before the worker is done.
WindowLapses ==
    /\ window
    /\ window' = FALSE
    /\ IF \A n \in Nodes : alert[n].at = "idle" THEN UNCHANGED <<slips, events>> ELSE Slip
    /\ UNCHANGED <<outside, event, mailed, alert>>

\* A node stops and starts again; its connections are to subscribe again.
Crash(n) ==
    /\ Happens
    /\ task' = [w \in Workers |-> IF w[1] = n THEN IdleTask ELSE task[w]]
    /\ subs' = {c \in subs : Home[c] # n}
    /\ filterCache' = [filterCache EXCEPT ![n] = NoFilter]
    /\ Posts(n, "idle", {})
    /\ slips' = IF alert[n].at \in {"send", "mark"} THEN slips + 1 ELSE slips
    /\ UNCHANGED <<desk, saved, row, clients, event, mailed, window>>

-----------------------------------------------------------------------------
\* A hall with everything on, where all are subscribed and nothing is written
Init ==
    /\ settings = [s \in {"open", "chat"} |-> TRUE] /\ cached = settings
    /\ saved = FirstFilter /\ filterCache = [n \in Nodes |-> NoFilter]
    /\ alerts = TRUE /\ alertCache = TRUE
    /\ banned = {} /\ blocked = {} /\ subs = Conns
    /\ row = [id \in Ids |-> NoRow] /\ event = [id \in Ids |-> NoEvent]
    /\ screen = [c \in Conns |-> {}] /\ told = [c \in Conns |-> {}]
    /\ sent = [id \in Ids |-> 0] /\ mailed = [id \in Ids |-> 0]
    /\ task = [w \in Workers |-> IdleTask]
    /\ alert = [n \in Nodes |-> IdleAlert] /\ window = FALSE
    /\ slips = 0 /\ events = MaxEvents

Next ==
    \/ \E w \in Workers :
        \/ Step(w)
        \/ \E c \in Conns :
            \/ AskSubscribe(w, c)
            \/ \E id \in Ids : AskChat(w, c, id) \/ AskDelete(w, c, id)
    \/ \E c \in Conns : ReadHistory(c) \/ Unsubscribe(c) \/ Dismiss(c)
    \/ \E p \in People : Kick(p) \/ BanExpires(p) \/ SetBlocked(p)
    \/ \E s \in {"open", "chat"} : Switch(s)
    \/ \E n \in Nodes :
        \/ \E in \in FilterChoices : SaveFilterSettings(n, in)
        \/ SaveAlertMail(n) \/ Alert(n) \/ Crash(n)
    \/ \E id \in Ids : Purge(id) \/ BackoffLapses(id)
    \/ CacheExpires \/ WindowLapses

\* The alert job runs every 15 s and time passes; frames and their workers may stop
\* anywhere, as MailSettles is about records that are stored.
Fairness ==
    /\ \A n \in Nodes : WF_vars(Alert(n))
    /\ \A id \in Ids : WF_vars(BackoffLapses(id))
    /\ WF_vars(WindowLapses)

Spec == Init /\ [][Next]_vars /\ Fairness

-----------------------------------------------------------------------------
(***************************************************************************)
(* What a visitor writes while blocked is seen by nobody else, on a screen *)
(* or in a history, whoever deletes, retries or unblocks meanwhile.        *)
(***************************************************************************)
SilencedStaysPrivate ==
    \A c \in Conns : \A id \in screen[c] :
        row[id].st = "silenced" => Who[c] = row[id].by

(***************************************************************************)
(* A message is broadcast once, however often it is retried, from whatever *)
(* connection and node.                                                    *)
(***************************************************************************)
BroadcastOnce == \A id \in Ids : sent[id] <= 1

(***************************************************************************)
(* An acknowledgement tells its sender the text that the others see, even  *)
(* when the filter has changed between a message and its retry.            *)
(***************************************************************************)
AckTellsWhatIsShown ==
    \A c \in Conns : \A a \in told[c] :
        row[a[1]].st # "none" /\ row[a[1]].content = a[2] /\ row[a[1]].by = Who[c]

(***************************************************************************)
(* What an administrator submits is what is enforced: once it is cleaned,  *)
(* stored, read back and compiled, exactly the words, links and contacts   *)
(* it lists are hidden, whatever overlaps with what; and a message is      *)
(* stored as one of the settings saved has it, or, of an agent or while    *)
(* the settings cannot be read, as it was written.                         *)
(***************************************************************************)
Expected == [in \in FilterChoices |-> [id \in Ids |-> Enforced(in, Words[id])]]

FilterIsExact ==
    /\ Differences = {}
    /\ \A id \in Ids : row[id].st # "none" =>
         row[id].content \in {Words[id]} \cup {Expected[in][id] : in \in FilterChoices}

(***************************************************************************)
(* Administrators get one mail about a filtered message, except for each   *)
(* time the outcome of a mail was lost.                                    *)
(***************************************************************************)
MailedOnce == \A id \in Ids : mailed[id] <= 1 + slips

(***************************************************************************)
(* As long as the alert mail is on, every record waiting for a mail is     *)
(* mailed or given up.                                                     *)
(***************************************************************************)
MailSettles == \A id \in Ids : []<>(event[id].st = "pending" => ~alerts)

(***************************************************************************)
(* Checked by hand, README section 4.  Saved settings take effect at once  *)
(* (the comment filter_runtime.go:84 on invalidateFilterCaches), on a      *)
(* deployment of a single node.                                            *)
(***************************************************************************)
SavedTakesEffect == \A n \in Nodes : filterCache[n] \in {saved, NoFilter}

(***************************************************************************)
(* Checked by hand, README section 4.  Who is put out of the hall does not *)
(* hear it again: besides what a notice still on its way will end, no      *)
(* subscription of a banned person begins.                                 *)
(***************************************************************************)
BannedHearNothing == [][\A c \in subs' \ subs : Who[c] \notin banned]_vars

(***************************************************************************)
(* Checked by hand, README section 4.  A message that was deleted stays    *)
(* off the screens of those who heard of the deletion.                     *)
(***************************************************************************)
DeletedLeavesScreens ==
    [][\A c \in Conns, id \in Ids :
         row[id].st = "deleted" /\ id \notin screen[c] => id \notin screen'[c]]_vars

=============================================================================
