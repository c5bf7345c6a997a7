----------------------------- MODULE HallMedia -----------------------------
(***************************************************************************)
(* The media side of the voice hall, backend/internal/hall: who may speak  *)
(* and show a camera.  Redis holds the slots (leases in a sorted set per   *)
(* kind), the bans and the muted agents; LiveKit, an external server,      *)
(* holds the participants and what each may publish.  Requests, webhooks   *)
(* and background tasks change both in several calls that interleave, and  *)
(* any call to LiveKit may fail or time out after it took effect.  A job   *)
(* compares the two every 30 s and takes back what nobody is entitled to.  *)
(*                                                                         *)
(* Redis and the database answer; a request refused by a rate limit is a   *)
(* request that is not made.  Time is a tick that ages every lease.        *)
(***************************************************************************)
EXTENDS FiniteSets, Naturals

CONSTANTS Visitors, Agents,
          Kinds,       \* "mic" and "cam"
          LeaseTicks,  \* slotLease, in ticks
          Slots,       \* the highest MaxSpeakers and MaxCameras set, by kind
          Holders,     \* who has a slot at the start, by kind
          MaxRequests, \* bound: HTTP requests in progress at a time
          BgSlots,     \* bgSlots: background tasks at a time
          MaxCalls,    \* maxReconcileCalls
          MaxEvents,   \* bound: requests, visits, changes and failing calls
          Nobody

Identities == Visitors \cup Agents
AllKinds == {"mic", "cam"}
Switches == Kinds \cup {"open"}
Workers == 1..(MaxRequests + BgSlots)
Requests == 1..MaxRequests
Background == Workers \ Requests
Eligible(k) == IF k = "mic" THEN Visitors ELSE Identities

ASSUME HallMediaAssumption ==
    /\ Kinds \subseteq AllKinds
    /\ IsFiniteSet(Identities) /\ Visitors \cap Agents = {}
    /\ Slots \in [AllKinds -> Nat]
    /\ MaxRequests \in Nat /\ BgSlots \in Nat
    /\ \A k \in Kinds : /\ Holders[k] \subseteq Eligible(k)
                        /\ Cardinality(Holders[k]) <= Slots[k]
    /\ LeaseTicks \in Nat \ {0}
    /\ MaxCalls \in Nat /\ MaxEvents \in Nat
    /\ Nobody \notin Identities

VARIABLES
    settings,  \* the switches in the database
    cached,    \* what a node's 3 s cache may still hold
    lease,     \* sorted sets: 0 absent, 1 expired, more is alive
    banned, muted,
    blocked,   \* visitors a supervisor has blocked
    tokens,    \* LiveKit: sources granted by each valid token
    inRoom, perm, pub,  \* LiveKit: participants, may publish, publishing
    task,      \* the requests and background tasks
    round,     \* the reconciliation in progress
    events     \* requests, visits, changes and failing calls to come

media  == <<tokens, inRoom, perm, pub>>
desk   == <<settings, cached, banned, muted, blocked>>
vars   == <<media, desk, lease, task, round, events>>

Fresh == LeaseTicks + 1
Lease == 0..Fresh

TaskOps == {"idle", "join", "on", "off", "mute", "kick", "muteAll", "blocked",
            "removeAll", "revoke", "regrant", "joined", "left", "track", "finished"}

NewTask(op, p, k, st) ==
    [op |-> op, at |-> "effect", p |-> p, k |-> k, st |-> st, todo |-> {},
     want |-> {}, new |-> FALSE, locks |-> FALSE]

AllOff == [s \in Switches |-> FALSE]
Plain(op, p) == NewTask(op, p, "mic", AllOff)
Idle == Plain("idle", Nobody)

Quiet == [at |-> "idle", st |-> AllOff, perm |-> [p \in Identities |-> {}],
          pub |-> [p \in Identities |-> {}], banned |-> {}, blocked |-> {},
          todo |-> {}, cur |-> Nobody, keep |-> {}, want |-> {}, calls |-> 0]

Task ==
    [op : TaskOps, p : Identities \cup {Nobody}, k : AllKinds,
     at : {"effect", "list", "sync", "call", "remove", "undo", "clear"},
     st : [Switches -> BOOLEAN], todo : SUBSET Identities,
     want : SUBSET Kinds, new : BOOLEAN, locks : BOOLEAN]

Round ==
    [at : {"idle", "remove", "return", "each", "keep", "call"},
     st : [Switches -> BOOLEAN], perm : [Identities -> SUBSET Kinds],
     pub : [Identities -> SUBSET Kinds], banned : SUBSET Identities,
     blocked : SUBSET Visitors, todo : SUBSET Identities,
     cur : Identities \cup {Nobody}, keep : SUBSET Kinds,
     want : SUBSET Kinds, calls : 0..MaxCalls]

TypeOK ==
    /\ settings \in [Switches -> BOOLEAN] /\ cached \in [Switches -> BOOLEAN]
    /\ lease \in [Kinds -> [Identities -> Lease]]
    /\ banned \subseteq Identities /\ muted \subseteq Agents /\ blocked \subseteq Visitors
    /\ tokens \in [Identities -> SUBSET SUBSET Kinds]
    /\ inRoom \subseteq Identities
    /\ perm \in [Identities -> SUBSET Kinds] /\ pub \in [Identities -> SUBSET Kinds]
    /\ task \in [Workers -> Task]
    /\ round \in Round
    /\ events \in 0..MaxEvents

-----------------------------------------------------------------------------
(***************************************************************************)
(* Faulty variants: each is a slip that one of the properties must expose. *)
(* Spec uses none of them.                                                 *)
(***************************************************************************)
\* ZADD without XX gives a slot back to one who lost it.
RenewedAnyway(ks, p) ==
    [k \in Kinds |-> IF k \in ks THEN [lease[k] EXCEPT ![p] = Fresh] ELSE lease[k]]

-----------------------------------------------------------------------------
(***************************************************************************)
(* The scripts of redisState.                                              *)
(***************************************************************************)
Listed(k) == {p \in Identities : k \in Kinds /\ lease[k][p] > 0}
Held(k, p) == lease[k][p] > 1

\* ZREMRANGEBYSCORE, at the head of the scripts that take and list slots
Purged(l) == [p \in Identities |-> IF l[p] = 1 THEN 0 ELSE l[p]]

Cleared == [p \in Identities |-> 0]

\* the leases after p gives up slots of some kinds
Released(ks, p) ==
    [k \in Kinds |-> IF k \in ks THEN [lease[k] EXCEPT ![p] = 0] ELSE lease[k]]

\* ZADD XX: a lease that is no longer in the set is not renewed.
Renewed(ks, p) ==
    [k \in Kinds |-> IF k \in ks /\ lease[k][p] > 0
                     THEN [lease[k] EXCEPT ![p] = Fresh] ELSE lease[k]]

\* what a participant should be able to publish now
DesiredSources(leases, p, st) ==
    {k \in Kinds : /\ st[k]
                   /\ IF k = "mic" /\ p \in Agents THEN p \notin muted
                      ELSE leases[k][p] > 1}

\* the lock is held by another request of the same participant
LockedOut(w, p) ==
    \E v \in Requests \ {w} : task[v].p = p /\ task[v].locks

-----------------------------------------------------------------------------
(***************************************************************************)
(* Calls to LiveKit: what each does, and that it may fail with or without  *)
(* having done it.                                                         *)
(***************************************************************************)
Update(p, sources) ==
    IF p \notin inRoom THEN UNCHANGED media
    ELSE /\ perm' = [perm EXCEPT ![p] = sources]
         /\ pub' = [pub EXCEPT ![p] = @ \cap sources]
         /\ UNCHANGED <<tokens, inRoom>>

Remove(p) ==
    IF p \notin inRoom THEN UNCHANGED media
    ELSE /\ inRoom' = inRoom \ {p}
         /\ perm' = [perm EXCEPT ![p] = {}]
         /\ pub' = [pub EXCEPT ![p] = {}]
         /\ tokens' = [tokens EXCEPT ![p] = {}]

Happens == events > 0 /\ events' = events - 1

\* a call that succeeds or fails; failed tells the caller which
Called(effect, failed) ==
    \/ ~failed /\ effect /\ UNCHANGED events
    \/ failed /\ Happens /\ (effect \/ UNCHANGED media)

\* runBackground: the task takes a free slot of bgSlots; with none it is dropped.
Started(tasks, t) ==
    LET free == {b \in Background : tasks[b].op = "idle"}
    IN IF free = {} THEN {tasks} ELSE {[tasks EXCEPT ![b] = t] : b \in free}

\* The task of a webhook, which LiveKit may fail to deliver.  Its duplicates
\* are dropped by event id.
Hooked(tasks, t) == {tasks} \cup Started(tasks, t)

-----------------------------------------------------------------------------
(***************************************************************************)
(* Requests.  The checks are made when the request arrives, on settings    *)
(* that may come from the node's cache; what they found may be stale when  *)
(* the request goes on.                                                    *)
(***************************************************************************)
Begin(w, t) ==
    /\ Happens
    /\ task[w].op = "idle" /\ \A v \in 1..(w - 1) : task[v].op # "idle"
    /\ task' = [task EXCEPT ![w] = t]
    /\ UNCHANGED <<media, desk, lease, round>>

AskJoin(w, p) ==
    \E st \in {settings, cached} :
        /\ st["open"] /\ p \notin banned
        /\ Begin(w, NewTask("join", p, "mic", st))

AskMedia(w, p, k, on) ==
    \E st \in {settings, cached} :
        /\ st["open"]
        /\ p \in Eligible(k)
        /\ on => st[k] /\ p \notin banned /\ p \notin blocked
        /\ Begin(w, NewTask(IF on THEN "on" ELSE "off", p, k, st))

Moderate(w, op, p, k) ==
    \E st \in {settings, cached} : Begin(w, NewTask(op, p, k, st))

(***************************************************************************)
(* The first call of a request or task: its effect in Redis.               *)
(***************************************************************************)
Goes(w, leases, t) ==
    /\ lease' = leases
    /\ task' = [task EXCEPT ![w] = t]
    /\ UNCHANGED <<round, events>>

Synced(t, todo) == [t EXCEPT !.at = "sync", !.todo = todo]

\* Join: the token, and an agent is no longer muted.
Join(w) ==
    /\ task[w].op = "join"
    /\ LET t == task[w]
           sources == {k \in Kinds : /\ t.p \in Agents /\ t.st[k]
                                     /\ k = "mic" \/ Held(k, t.p)}
       IN tokens' = [tokens EXCEPT ![t.p] = @ \cup {sources}]
    /\ muted' = muted \ {task[w].p}
    /\ Goes(w, lease, Idle)
    /\ UNCHANGED <<inRoom, perm, pub, settings, cached, banned, blocked>>

\* setMedia, on: under the participant's lock, renew a slot or take a free one.
\* The limit may have been set lower than Slots by now.
Acquire(w) ==
    /\ task[w].op = "on" /\ task[w].at = "effect"
    /\ LET t == task[w]
           kept == Purged(lease[t.k])
           leases == [lease EXCEPT ![t.k] = kept]
           free == Cardinality({p \in Identities : kept[p] > 0}) < Slots[t.k]
       IN \/ LockedOut(w, t.p) /\ Goes(w, lease, Idle)
          \/ ~LockedOut(w, t.p) /\ kept[t.p] = 0 /\ Goes(w, leases, Idle)
          \/ /\ ~LockedOut(w, t.p) /\ (kept[t.p] > 0 \/ free)
             /\ Goes(w, [leases EXCEPT ![t.k][t.p] = Fresh],
                     [Synced(t, {t.p}) EXCEPT !.new = kept[t.p] = 0, !.locks = TRUE])
    /\ UNCHANGED <<media, desk>>

\* setMedia, off
Release(w) ==
    /\ task[w].op = "off" /\ task[w].at = "effect"
    /\ LET t == task[w]
       IN IF LockedOut(w, t.p) THEN Goes(w, lease, Idle)
          ELSE Goes(w, Released({t.k}, t.p), [Synced(t, {t.p}) EXCEPT !.locks = TRUE])
    /\ UNCHANGED <<media, desk>>

\* mute and camera_off; an agent speaks without a slot
Mute(w) ==
    /\ task[w].op = "mute" /\ task[w].at = "effect"
    /\ LET t == task[w]
           mark == t.k = "mic" /\ t.p \in Agents
       IN /\ muted' = IF mark THEN muted \cup {t.p} ELSE muted
          /\ Goes(w, IF mark THEN lease ELSE Released({t.k}, t.p), Synced(t, {t.p}))
    /\ UNCHANGED <<media, settings, cached, banned, blocked>>

Kick(w) ==
    /\ task[w].op = "kick" /\ task[w].at = "effect"
    /\ LET t == task[w]
       IN /\ banned' = banned \cup {t.p}
          /\ Goes(w, Released(Kinds, t.p), [t EXCEPT !.at = "remove", !.todo = {t.p}])
    /\ UNCHANGED <<media, settings, cached, muted, blocked>>

\* mute_all, and the tasks that follow a switch turned off: list the
\* holders, clear the slots, then look who is in the room
ClearAll(w) ==
    /\ task[w].op \in {"muteAll", "revoke"} /\ task[w].at = "effect"
    /\ LET t == task[w]
       IN Goes(w, [lease EXCEPT ![t.k] = Cleared],
               [t EXCEPT !.at = "list", !.todo = {p \in Identities : Held(t.k, p)}])
    /\ UNCHANGED <<media, desk>>

StartList(w) ==
    /\ task[w].op \in {"removeAll", "regrant"} /\ task[w].at = "effect"
    /\ Goes(w, lease, [task[w] EXCEPT !.at = "list"])
    /\ UNCHANGED <<media, desk>>

\* OnVisitorBlocked
Block(w) ==
    /\ task[w].op = "blocked" /\ task[w].at = "effect"
    /\ LET t == task[w]
       IN \E st \in {settings, cached} :
              Goes(w, Released(Kinds, t.p),
                   IF \A k \in Kinds : t.p \notin Listed(k) THEN Idle
                   ELSE [Synced(t, {t.p}) EXCEPT !.st = st])
    /\ UNCHANGED <<media, desk>>

(***************************************************************************)
(* processWebhook                                                          *)
(***************************************************************************)
HookJoined(w) ==
    /\ task[w].op = "joined" /\ task[w].at = "effect"
    /\ LET t == task[w]
       IN \E st \in {settings, cached} :
              Goes(w, lease, IF st["open"] /\ t.p \notin banned THEN Idle
                             ELSE [t EXCEPT !.at = "remove", !.todo = {t.p}])
    /\ UNCHANGED <<media, desk>>

HookLeft(w) ==
    /\ task[w].op = "left"
    /\ Goes(w, Released(Kinds, task[w].p), Idle)
    /\ UNCHANGED <<media, desk>>

HookTrack(w) ==
    /\ task[w].op = "track" /\ task[w].at = "effect"
    /\ LET t == task[w]
       IN \E st \in {settings, cached} :
              Goes(w, IF st[t.k] THEN lease ELSE Released({t.k}, t.p),
                   IF t.k \in DesiredSources(lease, t.p, st) THEN Idle
                   ELSE [Synced(t, {t.p}) EXCEPT !.st = st])
    /\ UNCHANGED <<media, desk>>

HookFinished(w) ==
    /\ task[w].op = "finished"
    /\ Goes(w, [k \in Kinds |-> Cleared], Idle)
    /\ UNCHANGED <<media, desk>>

-----------------------------------------------------------------------------
(***************************************************************************)
(* The calls to LiveKit that follow.                                       *)
(***************************************************************************)
Concerns(t, p) ==
    CASE t.op = "muteAll"   -> p \in Visitors /\ "mic" \in perm[p]
      [] t.op = "revoke"    -> t.k \in perm[p]
      [] t.op = "regrant"   -> p \in Agents /\ "mic" \notin perm[p]
      [] OTHER -> TRUE

\* the task once it has dealt with p
Past(t, p) ==
    LET rest == [t EXCEPT !.todo = @ \ {p}, !.p = Nobody, !.want = {}]
    IN IF rest.todo # {} THEN [rest EXCEPT !.at = IF t.at = "call" THEN "sync" ELSE t.at]
       ELSE IF t.op = "removeAll" THEN [rest EXCEPT !.at = "clear"] ELSE Idle

\* ListParticipants; without it the task goes on with the holders it knows.
ListRoom(w) ==
    /\ task[w].at = "list"
    /\ \E failed \in BOOLEAN :
        /\ Called(UNCHANGED media, failed)
        /\ LET t == task[w]
               found == IF failed THEN {} ELSE {p \in inRoom : Concerns(t, p)}
               next == IF t.op = "removeAll" THEN "remove" ELSE "sync"
           IN task' = [task EXCEPT ![w] =
                  Past([t EXCEPT !.todo = @ \cup found, !.at = next], Nobody)]
    /\ UNCHANGED <<desk, lease, round>>

\* syncPermission, first half: what the participant is entitled to
ReadDesired(w) ==
    /\ task[w].at = "sync"
    /\ LET t == task[w]
       IN \E p \in t.todo :
              task' = [task EXCEPT ![w] =
                  [t EXCEPT !.at = "call", !.p = p, !.want = DesiredSources(lease, p, t.st)]]
    /\ UNCHANGED <<media, desk, lease, round, events>>

\* syncPermission, second half: UpdatePermission
CallUpdate(w) ==
    /\ task[w].at = "call"
    /\ LET t == task[w]
       IN \E failed \in BOOLEAN :
           /\ Called(Update(t.p, t.want), failed)
           /\ task' = [task EXCEPT ![w] =
                  IF t.new /\ (failed \/ t.p \notin inRoom)
                  THEN [t EXCEPT !.at = "undo", !.todo = {}, !.want = {}]
                  ELSE Past(t, t.p)]
    /\ UNCHANGED <<desk, lease, round>>

\* RemoveParticipant; LiveKit reports that the participant left.
CallRemove(w) ==
    /\ task[w].at = "remove"
    /\ \E p \in task[w].todo, failed \in BOOLEAN :
        /\ Called(Remove(p), failed)
        /\ LET rest == [task EXCEPT ![w] = Past(@, p)]
           IN task' \in IF inRoom' = inRoom THEN {rest}
                        ELSE Hooked(rest, Plain("left", p))
    /\ UNCHANGED <<desk, lease, round>>

\* setMedia gives back the slot it took when the grant failed.
Undo(w) ==
    /\ task[w].at = "undo"
    /\ Goes(w, Released({task[w].k}, task[w].p), Idle)
    /\ UNCHANGED <<media, desk>>

\* removeAll empties the slots at its end.
ClearSlots(w) ==
    /\ task[w].at = "clear"
    /\ Goes(w, [k \in Kinds |-> Cleared], Idle)
    /\ UNCHANGED <<media, desk>>

\* The lock outlives a request whose calls time out by 8 s at most.
LockLapses(w) ==
    /\ Happens
    /\ task[w].locks
    /\ task' = [task EXCEPT ![w].locks = FALSE]
    /\ UNCHANGED <<media, desk, lease, round>>

Step(w) ==
    \/ Join(w) \/ Acquire(w) \/ Release(w) \/ Mute(w) \/ Kick(w) \/ ClearAll(w)
    \/ StartList(w) \/ Block(w) \/ HookJoined(w) \/ HookLeft(w) \/ HookTrack(w)
    \/ HookFinished(w) \/ ListRoom(w) \/ ReadDesired(w) \/ CallUpdate(w)
    \/ CallRemove(w) \/ Undo(w) \/ ClearSlots(w)

-----------------------------------------------------------------------------
(***************************************************************************)
(* ReconcileOnce.  It works on the participants LiveKit listed at its      *)
(* start and on slots and settings as they are when it comes to them.      *)
(***************************************************************************)
\* faulty: the bans are not looked up.
LookIgnoresBans ==
    /\ round.at = "idle"
    /\ round' = IF ~settings["open"] THEN [Quiet EXCEPT !.at = "remove", !.todo = inRoom]
                ELSE [Quiet EXCEPT !.at = "return", !.st = settings, !.todo = inRoom,
                                   !.perm = perm, !.pub = pub,
                                   !.blocked = blocked \cap inRoom]
    /\ UNCHANGED <<media, desk, lease, task, events>>

Look ==
    /\ round.at = "idle"
    /\ round' = IF ~settings["open"] THEN [Quiet EXCEPT !.at = "remove", !.todo = inRoom]
                ELSE [Quiet EXCEPT !.at = "return", !.st = settings, !.todo = inRoom,
                                   !.perm = perm, !.pub = pub,
                                   !.banned = banned \cap inRoom,
                                   !.blocked = blocked \cap inRoom]
    /\ UNCHANGED <<media, desk, lease, task, events>>

\* Slots of those who are not in the list, and of a kind that is off
ReturnSlots ==
    /\ round.at = "return"
    /\ lease' = [k \in Kinds |-> IF ~round.st[k] THEN Cleared
                 ELSE [p \in Identities |-> IF p \in round.todo THEN Purged(lease[k])[p]
                                            ELSE 0]]
    /\ round' = [round EXCEPT !.at = "each"]
    /\ UNCHANGED <<media, desk, task, events>>

MayCall == round.calls < MaxCalls

Forget(p) == [round EXCEPT !.at = IF @ = "remove" THEN "remove" ELSE "each",
                           !.todo = @ \ {p}, !.cur = Nobody, !.keep = {}, !.want = {},
                           !.perm[p] = {}, !.pub[p] = {},
                           !.banned = @ \ {p}, !.blocked = @ \ {p}]

\* Everybody when the hall is closed, otherwise the banned
RoundRemoves(p) ==
    /\ round.at = "remove" \/ (round.at = "each" /\ p \in round.banned)
    /\ MayCall
    /\ \E failed \in BOOLEAN : Called(Remove(p), failed)
    /\ task' \in IF inRoom' = inRoom THEN {task}
                 ELSE Hooked(task, Plain("left", p))
    /\ round' = [Forget(p) EXCEPT !.calls = @ + 1]
    /\ UNCHANGED <<desk, lease>>

\* with no calls left, the rest waits for the next round
RoundPutsOff(p) ==
    /\ round.at = "remove" \/ (round.at = "each" /\ p \in round.banned)
    /\ ~MayCall
    /\ round' = Forget(p)
    /\ UNCHANGED <<media, desk, lease, task, events>>

\* faulty: only those who publish something are looked at.
ExamineSkipsSilent(p) ==
    /\ round.at = "each" /\ p \notin round.banned
    /\ lease' = IF p \in round.blocked THEN Released(Kinds, p) ELSE lease
    /\ round' = IF round.pub[p] = {} THEN Forget(p)
                ELSE [round EXCEPT !.at = "keep", !.cur = p, !.pub[p] = {},
                         !.keep = {k \in round.pub[p] : p \notin round.blocked /\ Held(k, p)}]
    /\ UNCHANGED <<media, desk, task, events>>

\* A blocked visitor loses the slots; of the others those in use are kept.
Examine(p) ==
    /\ round.at = "each" /\ p \notin round.banned
    /\ lease' = IF p \in round.blocked THEN Released(Kinds, p) ELSE lease
    /\ round' = [round EXCEPT !.at = "keep", !.cur = p, !.pub[p] = {},
                     !.keep = {k \in round.pub[p] : /\ p \notin round.blocked
                                                    /\ k = "mic" => p \in Visitors
                                                    /\ k = "cam" => round.st["cam"]
                                                    /\ Held(k, p)}]
    /\ UNCHANGED <<media, desk, task, events>>

\* faulty: the calls of a round are not limited.
KeepSlotsUncounted ==
    /\ round.at = "keep"
    /\ lease' = Renewed(round.keep, round.cur)
    /\ LET desired == DesiredSources(lease', round.cur, round.st)
       IN round' = IF round.perm[round.cur] \subseteq desired THEN Forget(round.cur)
                   ELSE [round EXCEPT !.at = "call", !.keep = {}, !.want = desired,
                                      !.calls = @ + 1]
    /\ UNCHANGED <<media, desk, task, events>>

\* Only a permission beyond the desired sources is taken back; nothing is
\* given.  (syncPermission reads the sources once more, at once.)
KeepSlots ==
    /\ round.at = "keep"
    /\ lease' = Renewed(round.keep, round.cur)
    /\ LET desired == DesiredSources(lease', round.cur, round.st)
       IN round' = IF round.perm[round.cur] \subseteq desired \/ ~MayCall
                   THEN Forget(round.cur)
                   ELSE [round EXCEPT !.at = "call", !.keep = {}, !.want = desired,
                                      !.calls = @ + 1]
    /\ UNCHANGED <<media, desk, task, events>>

RoundUpdates ==
    /\ round.at = "call"
    /\ \E failed \in BOOLEAN : Called(Update(round.cur, round.want), failed)
    /\ round' = Forget(round.cur)
    /\ UNCHANGED <<desk, lease, task>>

RoundEnds ==
    /\ round.at \in {"remove", "each"} /\ round.todo = {}
    /\ lease' = IF round.at = "remove" THEN [k \in Kinds |-> Cleared] ELSE lease
    /\ round' = Quiet
    /\ UNCHANGED <<media, desk, task, events>>

Reconcile ==
    \/ Look \/ ReturnSlots \/ KeepSlots \/ RoundUpdates
    \/ RoundEnds
    \/ \E p \in round.todo : RoundRemoves(p) \/ RoundPutsOff(p) \/ Examine(p)

-----------------------------------------------------------------------------
(***************************************************************************)
(* Participants, who talk to LiveKit directly, and the desk.               *)
(***************************************************************************)
Outside == Happens /\ UNCHANGED round

Reports(t) == task' \in Hooked(task, t)
Spawns(t) == task' \in Started(task, t)

Connect(p, sources) ==
    /\ Outside
    /\ p \notin inRoom /\ sources \in tokens[p]
    /\ inRoom' = inRoom \cup {p}
    /\ perm' = [perm EXCEPT ![p] = sources]
    /\ Reports(Plain("joined", p))
    /\ UNCHANGED <<pub, tokens, desk, lease>>

Leave(p) ==
    /\ Outside
    /\ p \in inRoom
    /\ inRoom' = inRoom \ {p}
    /\ perm' = [perm EXCEPT ![p] = {}]
    /\ pub' = [pub EXCEPT ![p] = {}]
    /\ Reports(Plain("left", p))
    /\ UNCHANGED <<tokens, desk, lease>>

RoomFinishes ==
    /\ Outside
    /\ inRoom = {}
    /\ Reports(Plain("finished", Nobody))
    /\ UNCHANGED <<media, desk, lease>>

Publish(p, k) ==
    /\ Outside
    /\ k \in perm[p] \ pub[p]
    /\ pub' = [pub EXCEPT ![p] = @ \cup {k}]
    /\ Reports(NewTask("track", p, k, AllOff))
    /\ UNCHANGED <<tokens, inRoom, perm, desk, lease>>

Unpublish(p, k) ==
    /\ Outside
    /\ k \in pub[p]
    /\ pub' = [pub EXCEPT ![p] = @ \ {k}]
    /\ UNCHANGED <<tokens, inRoom, perm, desk, lease, task>>

\* UpdateSwitches and OnSettingsChanged, one switch at a time
Switch(s) ==
    /\ Outside
    /\ settings' = [settings EXCEPT ![s] = ~@]
    /\ LET off == settings[s]
       IN CASE s = "open" /\ off -> Spawns(Plain("removeAll", Nobody))
            [] s # "open" /\ off ->
                 Spawns(NewTask("revoke", Nobody, s, settings'))
            [] s = "mic" /\ ~off ->
                 Spawns(NewTask("regrant", Nobody, s, settings'))
            [] OTHER -> UNCHANGED task
    /\ UNCHANGED <<media, cached, banned, muted, blocked, lease>>

SetBlocked(v) ==
    /\ Outside
    /\ IF v \in blocked THEN blocked' = blocked \ {v} /\ UNCHANGED task
       ELSE blocked' = blocked \cup {v} /\ Spawns(Plain("blocked", v))
    /\ UNCHANGED <<media, settings, cached, banned, muted, lease>>

BanExpires(p) ==
    /\ p \in banned
    /\ banned' = banned \ {p}
    /\ UNCHANGED <<media, settings, cached, muted, blocked, lease, task, round, events>>

CacheExpires ==
    /\ cached # settings
    /\ cached' = settings
    /\ UNCHANGED <<media, settings, banned, muted, blocked, lease, task, round, events>>

Tick ==
    /\ \E k \in Kinds, p \in Identities : Held(k, p)
    /\ lease' = [k \in Kinds |-> [p \in Identities |->
                    IF Held(k, p) THEN lease[k][p] - 1 ELSE lease[k][p]]]
    /\ UNCHANGED <<media, desk, task, round, events>>

-----------------------------------------------------------------------------
\* A hall at rest with everything on: everybody is in the room, the first
\* holders publish and the others listen.
Init ==
    /\ settings = [s \in Switches |-> TRUE] /\ cached = settings
    /\ banned = {} /\ muted = {} /\ blocked = {}
    /\ inRoom = Identities
    /\ lease = [k \in Kinds |-> [p \in Identities |->
                   IF p \in Holders[k] THEN Fresh ELSE 0]]
    /\ perm = [p \in Identities |-> {k \in Kinds :
                   p \in Holders[k] \/ (k = "mic" /\ p \in Agents)}]
    /\ pub = perm
    /\ tokens = [p \in Identities |-> IF p \in Agents THEN {Kinds \cap {"mic"}} ELSE {{}}]
    /\ task = [w \in Workers |-> Idle] /\ round = Quiet
    /\ events = MaxEvents

Next ==
    \/ \E w \in Requests :
        \/ \E p \in Identities : AskJoin(w, p)
        \/ \E p \in Identities, k \in Kinds :
            \/ \E on \in BOOLEAN : AskMedia(w, p, k, on)
            \/ Moderate(w, "mute", p, k)
        \/ \E p \in Identities : Moderate(w, "kick", p, "mic")
        \/ "mic" \in Kinds /\ Moderate(w, "muteAll", Nobody, "mic")
        \/ LockLapses(w)
    \/ \E w \in Workers : Step(w)
    \/ Reconcile
    \/ \E p \in Identities :
        \/ Leave(p) \/ BanExpires(p)
        \/ \E sources \in tokens[p] : Connect(p, sources)
        \/ \E k \in Kinds : Publish(p, k) \/ Unpublish(p, k)
    \/ \E s \in Switches : Switch(s)
    \/ \E v \in Visitors : SetBlocked(v)
    \/ RoomFinishes \/ CacheExpires \/ Tick

\* A request ends, if only by its timeouts; the job runs every 30 s; time passes.
Fairness ==
    /\ \A w \in Workers : WF_vars(Step(w))
    /\ WF_vars(Reconcile)
    /\ WF_vars(Tick)

Spec == Init /\ [][Next]_vars /\ Fairness

-----------------------------------------------------------------------------
MicPool == INSTANCE SlotPool WITH
    Members <- Eligible("mic"), Capacity <- Slots["mic"],
    held <- Listed("mic"), present <- inRoom \cap Eligible("mic")

CamPool == INSTANCE SlotPool WITH
    Members <- Eligible("cam"), Capacity <- Slots["cam"],
    held <- Listed("cam"), present <- inRoom \cap Eligible("cam")

(***************************************************************************)
(* The slots of each kind are a SlotPool: never more holders than places,  *)
(* whatever a late renewal or a lapsed lease does, and a place does not    *)
(* stay with somebody who has left, even if LiveKit never says so.         *)
(***************************************************************************)
SlotsArePools == MicPool!Pool /\ CamPool!Pool

\* What the participant may publish now, by the desk's current decisions
Entitled(p, k) ==
    /\ settings["open"] /\ settings[k]
    /\ p \notin banned \cup blocked
    /\ k \in DesiredSources(lease, p, settings)

(***************************************************************************)
(* A permission in LiveKit that nothing in Redis justifies any more ends:  *)
(* a moderation, a block or a switch takes effect even if the calls that   *)
(* follow it are overtaken, fail or are never made (media.go:271).         *)
(***************************************************************************)
StrayGrantEnds ==
    \A p \in Identities, k \in Kinds :
        []<>(k \in perm[p] => Entitled(p, k))

(***************************************************************************)
(* One who is banned, or in a hall that is closed, is put out of the room. *)
(***************************************************************************)
UnwelcomeLeaves ==
    \A p \in Identities :
        []<>(p \in inRoom => p \notin banned /\ settings["open"])

(***************************************************************************)
(* Checked by hand, README section 4.  A slot is not kept by one who may   *)
(* not use it: a grant that was lost or taken back while the slot stayed   *)
(* ends with the slot's lease.                                             *)
(***************************************************************************)
UnusedSlotEnds ==
    \A p \in Identities, k \in Kinds : []<>(Held(k, p) => k \in perm[p])

(***************************************************************************)
(* Checked by hand, README section 4.  When voice is on, an agent in the   *)
(* hall has the microphone without entering again (the comment             *)
(* reconcile.go:256 on regrantAgentMics).                                  *)
(***************************************************************************)
AgentMicReturns ==
    \A a \in Agents :
        []<>(settings["open"] /\ settings["mic"] /\ a \in inRoom \ (banned \cup muted)
                => "mic" \in perm[a])

=============================================================================
