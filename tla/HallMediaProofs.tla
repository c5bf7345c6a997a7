-------------------------- MODULE HallMediaProofs --------------------------
(***************************************************************************)
(* Proofs about HallMedia for any participants, kinds, numbers of slots,   *)
(* requests and background tasks: its types, and that every step is a step *)
(* of the two slot pools.  HallInv adds to the types that a participant    *)
(* who is about to take a slot may have one of the kind (Taskable), and    *)
(* that the holders of each kind may and are not too many (SlotsFit).      *)
(***************************************************************************)
EXTENDS HallMedia, TLAPS, FiniteSetTheorems

Named == {"join", "on", "off", "mute", "kick", "blocked", "joined", "left", "track"}

\* tasks that name somebody to begin with, and one who may have a slot
\* if they are to take one
Taskable ==
    {t \in Task :
       t.at = "effect" => /\ t.op \in Named => t.p \in Identities
                          /\ t.op = "on" => t.p \in Eligible(t.k)}

Leases == [Kinds -> [Identities -> Lease]]

SlotsFit ==
    \A k \in AllKinds : /\ Listed(k) \subseteq Eligible(k)
                        /\ Cardinality(Listed(k)) <= Slots[k]

HallTypes == TypeOK /\ task \in [Workers -> Taskable]

HallInv == HallTypes /\ SlotsFit

\* leases of a step that gives no slot to anybody
Below(leases) ==
    /\ leases \in Leases
    /\ \A k \in Kinds, p \in Identities : leases[k][p] > 0 => lease[k][p] > 0

MediaOK ==
    /\ tokens \in [Identities -> SUBSET SUBSET Kinds]
    /\ inRoom \subseteq Identities
    /\ perm \in [Identities -> SUBSET Kinds] /\ pub \in [Identities -> SUBSET Kinds]

DeskOK ==
    /\ settings \in [Switches -> BOOLEAN] /\ cached \in [Switches -> BOOLEAN]
    /\ banned \subseteq Identities /\ muted \subseteq Agents /\ blocked \subseteq Visitors

\* a step that keeps the types and gives no slot to anybody
Quietly ==
    /\ MediaOK' /\ DeskOK'
    /\ Below(lease') /\ (lease' = lease \/ inRoom' = inRoom)
    /\ task' \in [Workers -> Taskable] /\ round' \in Round
    /\ events' \in 0..MaxEvents

-----------------------------------------------------------------------------
(* The types in parts. *)
LEMMA TypeParts ==
  HallTypes <=> /\ MediaOK /\ DeskOK /\ lease \in Leases
                /\ task \in [Workers -> Taskable] /\ round \in Round
                /\ events \in 0..MaxEvents
PROOF
<1>1. \A t \in Taskable : t \in Task
  BY DEF Taskable
<1>2. task \in [Workers -> Taskable] => task \in [Workers -> Task]
  BY <1>1
<1>3. QED
  BY <1>2 DEF HallTypes, TypeOK, MediaOK, DeskOK, Leases

LEMMA TypePartsPrime ==
  /\ MediaOK' /\ DeskOK' /\ lease' \in Leases
  /\ task' \in [Workers -> Taskable] /\ round' \in Round /\ events' \in 0..MaxEvents
  => HallTypes'
PROOF
<1>1. \A t \in Taskable : t \in Task
  BY DEF Taskable
<1>2. task' \in [Workers -> Taskable] => task' \in [Workers -> Task]
  BY <1>1
<1>3. QED
  BY <1>2 DEF HallTypes, TypeOK, MediaOK, DeskOK, Leases

LEMMA WorkersAndKinds ==
  /\ Requests \subseteq Workers /\ Background \subseteq Workers
  /\ Kinds \subseteq Switches /\ "open" \in Switches /\ Switches \subseteq AllKinds \cup {"open"}
  /\ Visitors \subseteq Identities /\ Agents \subseteq Identities
PROOF
  BY HallMediaAssumption DEF Requests, Background, Workers, Switches, Identities

LEMMA LeaseValues ==
  /\ Fresh \in Lease /\ 0 \in Lease /\ Fresh > 0
  /\ \A n \in Lease : n \in Nat /\ (n > 1 => n - 1 \in Lease /\ n - 1 > 0)
PROOF
  BY HallMediaAssumption DEF Lease, Fresh

(* Every script that takes slots back, renews or cleans leaves leases *)
(* below the present ones. *)
LEMMA ScriptsBelow ==
  ASSUME lease \in Leases
  PROVE  /\ Below(lease)
         /\ Below([k \in Kinds |-> Cleared])
         /\ \A ks, p : Below(Released(ks, p)) /\ Below(Renewed(ks, p))
         /\ \A k : Below([lease EXCEPT ![k] = Cleared])
         /\ \A k : Below([lease EXCEPT ![k] = Purged(lease[k])])
         /\ \A ks : Below([k \in Kinds |-> IF k \in ks THEN Cleared ELSE lease[k]])
PROOF
<1> USE LeaseValues
<1>1. \A k \in Kinds : lease[k] \in [Identities -> Lease]
  BY DEF Leases
<1>2. Cleared \in [Identities -> Lease] /\ \A p \in Identities : ~(Cleared[p] > 0)
  BY DEF Cleared
<1>3. \A k \in Kinds : /\ Purged(lease[k]) \in [Identities -> Lease]
                       /\ \A p \in Identities : Purged(lease[k])[p] > 0 => lease[k][p] > 0
  BY <1>1 DEF Purged
<1>4. ASSUME NEW ks, NEW p
      PROVE  Below(Released(ks, p))
  <2>1. \A k \in Kinds : /\ [lease[k] EXCEPT ![p] = 0] \in [Identities -> Lease]
                         /\ \A q \in Identities :
                              [lease[k] EXCEPT ![p] = 0][q] > 0 => lease[k][q] > 0
    <3>1. TAKE k \in Kinds
    <3>2. lease[k] \in [Identities -> Lease]
      BY <1>1
    <3>3. \A q \in Identities :
             [lease[k] EXCEPT ![p] = 0][q] = IF q = p THEN 0 ELSE lease[k][q]
      BY <3>2
    <3>4. [lease[k] EXCEPT ![p] = 0] \in [Identities -> Lease]
      BY <3>2
    <3>5. ~(0 > 0)
      OBVIOUS
    <3>6. QED
      BY <3>3, <3>4, <3>5
  <2>2. QED
    BY <1>1, <2>1 DEF Below, Released, Leases
<1>5. ASSUME NEW ks, NEW p
      PROVE  Below(Renewed(ks, p))
  <2>1. \A k \in Kinds : /\ [lease[k] EXCEPT ![p] = Fresh] \in [Identities -> Lease]
                         /\ lease[k][p] > 0 => \A q \in Identities :
                              [lease[k] EXCEPT ![p] = Fresh][q] > 0 => lease[k][q] > 0
    BY <1>1
  <2>2. QED
    BY <1>1, <2>1 DEF Below, Renewed, Leases
<1>6. \A k : Below([lease EXCEPT ![k] = Cleared])
  BY <1>1, <1>2 DEF Below, Leases
<1>7. ASSUME NEW k
      PROVE  Below([lease EXCEPT ![k] = Purged(lease[k])])
  BY <1>1, <1>3 DEF Below, Leases
<1>8. QED
  BY <1>1, <1>2, <1>4, <1>5, <1>6, <1>7 DEF Below, Leases

(* Tasks that are made by the code, and what becomes of them. *)
LEMMA IdleIsTask ==
  /\ Idle \in Taskable
  /\ \A op \in TaskOps \ {"on"}, p \in Identities \cup {Nobody} :
       op \notin Named \/ p \in Identities => Plain(op, p) \in Taskable
  /\ \A op \in TaskOps, p \in Identities \cup {Nobody}, k \in AllKinds,
        st \in [Switches -> BOOLEAN] :
       /\ op \notin Named \/ p \in Identities
       /\ op # "on" \/ p \in Eligible(k)
       => NewTask(op, p, k, st) \in Taskable
PROOF
<1>1. AllOff \in [Switches -> BOOLEAN] /\ "mic" \in AllKinds /\ "idle" \in (TaskOps \ {"on"}) \ Named
  BY DEF AllOff, AllKinds, TaskOps, Named
<1>2. ASSUME NEW op \in TaskOps, NEW p \in Identities \cup {Nobody}, NEW k \in AllKinds,
             NEW st \in [Switches -> BOOLEAN], op \notin Named \/ p \in Identities,
             op # "on" \/ p \in Eligible(k)
      PROVE  NewTask(op, p, k, st) \in Taskable
  <2>1. NewTask(op, p, k, st) \in Task
    BY DEF NewTask, Task
  <2>2. NewTask(op, p, k, st).op = op /\ NewTask(op, p, k, st).p = p
        /\ NewTask(op, p, k, st).k = k
    BY DEF NewTask
  <2>3. QED
    BY <1>2, <2>1, <2>2 DEF Taskable
<1>3. QED
  BY <1>1, <1>2 DEF Plain, Idle

LEMMA WhoIsNamed ==
  \A t \in Taskable : t.at = "effect" /\ t.op \in Named => t.p \in Identities
PROOF
  BY DEF Taskable

(* A task that has made its first call may have any of its fields replaced. *)
LEMMA TaskGoesOn ==
  ASSUME NEW t \in Task, NEW at \in {"list", "sync", "call", "remove", "undo", "clear"},
         NEW todo \in SUBSET Identities
  PROVE  /\ [t EXCEPT !.at = at] \in Taskable
         /\ [t EXCEPT !.at = at, !.todo = todo] \in Taskable
         /\ [t EXCEPT !.at = at, !.todo = todo, !.want = {}] \in Taskable
         /\ \A p \in Identities, want \in SUBSET Kinds :
               [t EXCEPT !.at = at, !.p = p, !.want = want] \in Taskable
         /\ \A p \in Identities, want \in SUBSET Kinds :
               [t EXCEPT !.p = Nobody, !.todo = todo, !.want = {}, !.at = at] \in Taskable
PROOF
  BY DEF Task, Taskable

LEMMA SyncedTask ==
  ASSUME NEW t \in Task, NEW todo \in SUBSET Identities
  PROVE  /\ Synced(t, todo) \in Taskable
         /\ \A st \in [Switches -> BOOLEAN] : [Synced(t, todo) EXCEPT !.st = st] \in Taskable
         /\ \A b \in BOOLEAN : [Synced(t, todo) EXCEPT !.new = b, !.locks = TRUE] \in Taskable
         /\ [Synced(t, todo) EXCEPT !.locks = TRUE] \in Taskable
PROOF
  BY DEF Task, Taskable, Synced

LEMMA PastTask ==
  ASSUME NEW t \in Task, NEW p, t.at # "effect"
  PROVE  Past(t, p) \in Taskable
PROOF
<1> DEFINE rest == [t EXCEPT !.todo = @ \ {p}, !.p = Nobody, !.want = {}]
<1>1. rest \in Task /\ rest.at = t.at
  BY DEF Task
<1>2. \A at \in {"list", "sync", "call", "remove", "undo", "clear"} :
         [rest EXCEPT !.at = at] \in Taskable
  BY <1>1, TaskGoesOn
<1>3. t.at \in {"list", "sync", "call", "remove", "undo", "clear"}
  BY DEF Task
<1> HIDE DEF rest
<1>4. Past(t, p) \in {[rest EXCEPT !.at = IF t.at = "call" THEN "sync" ELSE t.at],
                       [rest EXCEPT !.at = "clear"], Idle}
  BY DEF Past, rest
<1>5. QED
  BY <1>2, <1>3, <1>4, IdleIsTask

LEMMA TasksReplaced ==
  ASSUME NEW tasks \in [Workers -> Taskable], NEW t \in Taskable
  PROVE  /\ \A w : [tasks EXCEPT ![w] = t] \in [Workers -> Taskable]
         /\ \A x \in Started(tasks, t) : x \in [Workers -> Taskable]
         /\ \A x \in Hooked(tasks, t) : x \in [Workers -> Taskable]
PROOF
<1>1. \A w : [tasks EXCEPT ![w] = t] \in [Workers -> Taskable]
  OBVIOUS
<1>2. \A x \in Started(tasks, t) : x \in [Workers -> Taskable]
  BY <1>1 DEF Started
<1>3. QED
  BY <1>1, <1>2 DEF Hooked

LEMMA DesiredAreKinds ==
  \A leases, p, st : DesiredSources(leases, p, st) \in SUBSET Kinds
PROOF
  BY DEF DesiredSources

(* Calls to LiveKit keep the types of what it holds. *)
LEMMA CallsKeepTypes ==
  ASSUME MediaOK, events \in 0..MaxEvents, NEW p, NEW sources \in SUBSET Kinds,
         NEW failed \in BOOLEAN
  PROVE  /\ UNCHANGED media => MediaOK'
         /\ Update(p, sources) => MediaOK' /\ inRoom' = inRoom
         /\ Remove(p) => MediaOK'
         /\ Called(UNCHANGED media, failed) => MediaOK' /\ inRoom' = inRoom
                                                /\ events' \in 0..MaxEvents
         /\ Called(Update(p, sources), failed) => MediaOK' /\ inRoom' = inRoom
                                                   /\ events' \in 0..MaxEvents
         /\ Called(Remove(p), failed) => MediaOK' /\ events' \in 0..MaxEvents
PROOF
<1>1. UNCHANGED media => MediaOK' /\ inRoom' = inRoom
  BY DEF media, MediaOK
<1>2. Update(p, sources) => MediaOK' /\ inRoom' = inRoom
  BY <1>1 DEF Update, MediaOK
<1>3. Remove(p) => MediaOK'
  <2>1. CASE p \notin inRoom
    BY <2>1, <1>1 DEF Remove
  <2>2. CASE p \in inRoom
    BY <2>2 DEF Remove, MediaOK
  <2>3. QED
    BY <2>1, <2>2
<1>4. (UNCHANGED events \/ Happens) => events' \in 0..MaxEvents
  BY HallMediaAssumption DEF Happens
<1>5. QED
  BY <1>1, <1>2, <1>3, <1>4 DEF Called

-----------------------------------------------------------------------------
(***************************************************************************)
(* The steps, but for the one that takes a slot.                           *)
(***************************************************************************)
LEMMA DeskStays == DeskOK /\ UNCHANGED desk => DeskOK'
PROOF
  BY DEF DeskOK, desk

LEMMA BeginQuietly ==
  ASSUME HallTypes, NEW w, NEW t \in Taskable, Begin(w, t)
  PROVE  Quietly
PROOF
<1>1. MediaOK /\ DeskOK /\ lease \in Leases /\ task \in [Workers -> Taskable]
      /\ round \in Round /\ events \in 0..MaxEvents
  BY TypeParts
<1>2. task' \in [Workers -> Taskable]
  BY <1>1, TasksReplaced DEF Begin
<1>3. MediaOK' /\ events' \in 0..MaxEvents
  BY <1>1, HallMediaAssumption DEF Begin, Happens, MediaOK, media
<1>4. QED
  BY <1>1, <1>2, <1>3, ScriptsBelow, DeskStays DEF Begin, Quietly

LEMMA AskedQuietly ==
  ASSUME HallTypes, NEW w \in Requests
  PROVE  /\ \A p \in Identities : AskJoin(w, p) => Quietly
         /\ \A p \in Identities, k \in Kinds, on \in BOOLEAN : AskMedia(w, p, k, on) => Quietly
         /\ \A op \in {"mute", "kick", "muteAll"}, p \in Identities \cup {Nobody},
              k \in AllKinds : (op = "muteAll" \/ p \in Identities) /\ Moderate(w, op, p, k) => Quietly
         /\ LockLapses(w) => Quietly
PROOF
<1>1. settings \in [Switches -> BOOLEAN] /\ cached \in [Switches -> BOOLEAN]
  BY DEF HallTypes, TypeOK
<1>2. Kinds \subseteq AllKinds /\ "mic" \in AllKinds
  BY HallMediaAssumption DEF AllKinds
<1>3. ASSUME NEW p \in Identities, AskJoin(w, p)
      PROVE  Quietly
  <2>1. PICK st \in {settings, cached} : Begin(w, NewTask("join", p, "mic", st))
    BY <1>3 DEF AskJoin
  <2>2. "join" \in TaskOps /\ NewTask("join", p, "mic", st) \in Taskable
    BY <1>1, <1>2, IdleIsTask DEF TaskOps
  <2>3. QED
    BY <2>1, <2>2, BeginQuietly
<1>4. ASSUME NEW p \in Identities, NEW k \in Kinds, NEW on \in BOOLEAN, AskMedia(w, p, k, on)
      PROVE  Quietly
  <2>1. PICK st \in {settings, cached} :
               p \in Eligible(k) /\ Begin(w, NewTask(IF on THEN "on" ELSE "off", p, k, st))
    BY <1>4 DEF AskMedia
  <2>2. (IF on THEN "on" ELSE "off") \in TaskOps
    BY DEF TaskOps
  <2>3. NewTask(IF on THEN "on" ELSE "off", p, k, st) \in Taskable
    BY <1>1, <1>2, <2>1, <2>2, IdleIsTask
  <2>4. QED
    BY <2>1, <2>3, BeginQuietly
<1>5. ASSUME NEW op \in {"mute", "kick", "muteAll"}, NEW p \in Identities \cup {Nobody},
             NEW k \in AllKinds, op = "muteAll" \/ p \in Identities, Moderate(w, op, p, k)
      PROVE  Quietly
  <2>1. PICK st \in {settings, cached} : Begin(w, NewTask(op, p, k, st))
    BY <1>5 DEF Moderate
  <2>2. op \in TaskOps /\ op # "on" /\ (op \in Named => p \in Identities)
    BY <1>5 DEF TaskOps, Named
  <2>3. NewTask(op, p, k, st) \in Taskable
    BY <1>1, <2>2, IdleIsTask
  <2>4. QED
    BY <2>1, <2>3, BeginQuietly
<1>6. ASSUME LockLapses(w)
      PROVE  Quietly
  <2>1. w \in Workers /\ task[w] \in Taskable
    BY WorkersAndKinds DEF HallTypes
  <2>2. [task[w] EXCEPT !.locks = FALSE] \in Taskable
    BY <2>1 DEF Taskable, Task
  <2>3. task' = [task EXCEPT ![w] = [task[w] EXCEPT !.locks = FALSE]]
    BY <1>6 DEF LockLapses
  <2>4. task' \in [Workers -> Taskable]
    BY <2>2, <2>3, TasksReplaced, TypeParts
  <2>5. events' \in 0..MaxEvents
    BY <1>6, HallMediaAssumption, TypeParts DEF LockLapses, Happens
  <2>6. QED
    BY <1>6, <2>4, <2>5, TypeParts, ScriptsBelow, DeskStays
       DEF LockLapses, Quietly, media, MediaOK
<1>7. QED
  BY <1>3, <1>4, <1>5, <1>6

(* A first call: it goes on from leases below the present ones with a task. *)
LEMMA GoesQuietly ==
  ASSUME HallTypes, NEW w, NEW leases, NEW t \in Taskable, Below(leases),
         MediaOK', inRoom' = inRoom, DeskOK', Goes(w, leases, t)
  PROVE  Quietly
PROOF
  BY TypeParts, TasksReplaced DEF Goes, Quietly

LEMMA FirstCallQuietly ==
  ASSUME HallTypes, NEW w \in Workers,
         \/ Join(w) \/ Release(w) \/ Mute(w) \/ Kick(w) \/ ClearAll(w)
         \/ StartList(w) \/ Block(w) \/ HookJoined(w) \/ HookLeft(w) \/ HookTrack(w)
         \/ HookFinished(w) \/ Undo(w) \/ ClearSlots(w)
  PROVE  Quietly
PROOF
<1>1. MediaOK /\ DeskOK /\ lease \in Leases /\ task[w] \in Task
  BY TypeParts DEF Taskable
<1>2. /\ Below(lease) /\ Below([k \in Kinds |-> Cleared])
      /\ \A ks, p : Below(Released(ks, p)) /\ \A k : Below([lease EXCEPT ![k] = Cleared])
  BY <1>1, ScriptsBelow
<1>3. UNCHANGED media => MediaOK' /\ inRoom' = inRoom
  BY <1>1 DEF media, MediaOK
<1>4. UNCHANGED desk => DeskOK'
  BY <1>1, DeskStays
<1>5. Idle \in Taskable
  BY IdleIsTask
<1>6. settings \in [Switches -> BOOLEAN] /\ cached \in [Switches -> BOOLEAN]
  BY <1>1 DEF DeskOK
<1>7. \A p : task[w].p = p => p \in Identities \cup {Nobody}
  BY <1>1 DEF Task
<1>t. task[w] \in Taskable
  BY TypeParts
<1>u. task[w].at = "effect" /\ task[w].op \in Named => task[w].p \in Identities
  BY <1>t, WhoIsNamed
<1> DEFINE t == task[w]
<1>8. t.at = "effect" /\ t.op \in Named => {t.p} \in SUBSET Identities /\ t.p \in Identities
  BY <1>u
<1>a. CASE Join(w)
  <2>1. MediaOK' /\ inRoom' = inRoom
    BY <1>1, <1>a DEF Join, MediaOK
  <2>2. DeskOK'
    BY <1>1, <1>a DEF Join, DeskOK
  <2>3. QED
    BY <1>2, <1>5, <1>a, <2>1, <2>2, GoesQuietly DEF Join
<1>b. CASE Release(w)
  <2>1. Synced(t, {t.p}) \in Taskable /\ [Synced(t, {t.p}) EXCEPT !.locks = TRUE] \in Taskable
    BY <1>b, <1>1, <1>8, SyncedTask DEF Release, Named
  <2>2. \E u \in Taskable : \E leases : Below(leases) /\ Goes(w, leases, u)
    BY <1>2, <1>5, <1>b, <2>1 DEF Release
  <2>3. QED
    BY <1>3, <1>4, <1>b, <2>2, GoesQuietly DEF Release
<1>c. CASE Mute(w)
  <2>1. Synced(t, {t.p}) \in Taskable
    BY <1>c, <1>1, <1>8, SyncedTask DEF Mute, Named
  <2>2. \E u \in Taskable : \E leases : Below(leases) /\ Goes(w, leases, u)
    BY <1>2, <1>c, <2>1 DEF Mute
  <2>3. DeskOK'
    BY <1>1, <1>c DEF Mute, DeskOK
  <2>4. QED
    BY <1>3, <1>c, <2>2, <2>3, GoesQuietly DEF Mute
<1>d. CASE Kick(w)
  <2>1. t.p \in Identities /\ [t EXCEPT !.at = "remove", !.todo = {t.p}] \in Taskable
    BY <1>d, <1>1, <1>8, TaskGoesOn DEF Kick, Named
  <2>2. DeskOK'
    BY <1>1, <1>d, <2>1 DEF Kick, DeskOK
  <2>3. QED
    BY <1>2, <1>3, <1>d, <2>1, <2>2, GoesQuietly DEF Kick
<1>e. CASE ClearAll(w)
  <2>1. [t EXCEPT !.at = "list", !.todo = {p \in Identities : Held(t.k, p)}] \in Taskable
    BY <1>1, TaskGoesOn
  <2>2. QED
    BY <1>2, <1>3, <1>4, <1>e, <2>1, GoesQuietly DEF ClearAll
<1>f. CASE StartList(w)
  BY <1>1, <1>2, <1>3, <1>4, <1>f, TaskGoesOn, GoesQuietly DEF StartList
<1>g. CASE Block(w)
  <2>1. \A st \in {settings, cached} : [Synced(t, {t.p}) EXCEPT !.st = st] \in Taskable
    BY <1>g, <1>1, <1>6, <1>8, SyncedTask DEF Block, Named
  <2>2. \E u \in Taskable : \E leases : Below(leases) /\ Goes(w, leases, u)
    BY <1>2, <1>5, <1>g, <2>1 DEF Block
  <2>3. QED
    BY <1>3, <1>4, <1>g, <2>2, GoesQuietly DEF Block
<1>h. CASE HookJoined(w)
  <2>1. [t EXCEPT !.at = "remove", !.todo = {t.p}] \in Taskable
    BY <1>h, <1>1, <1>8, TaskGoesOn DEF HookJoined, Named
  <2>2. \E u \in Taskable : \E leases : Below(leases) /\ Goes(w, leases, u)
    BY <1>2, <1>5, <1>h, <2>1 DEF HookJoined
  <2>3. QED
    BY <1>3, <1>4, <1>h, <2>2, GoesQuietly DEF HookJoined
<1>i. CASE HookTrack(w)
  <2>1. \A st \in {settings, cached} : [Synced(t, {t.p}) EXCEPT !.st = st] \in Taskable
    BY <1>i, <1>1, <1>6, <1>8, SyncedTask DEF HookTrack, Named
  <2>2. \E u \in Taskable : \E leases : Below(leases) /\ Goes(w, leases, u)
    BY <1>2, <1>5, <1>i, <2>1 DEF HookTrack
  <2>3. QED
    BY <1>3, <1>4, <1>i, <2>2, GoesQuietly DEF HookTrack
<1>j. CASE HookLeft(w) \/ HookFinished(w) \/ Undo(w) \/ ClearSlots(w)
  <2>1. \E leases : Below(leases) /\ Goes(w, leases, Idle)
    BY <1>2, <1>j DEF HookLeft, HookFinished, Undo, ClearSlots
  <2>2. UNCHANGED <<media, desk>>
    BY <1>j DEF HookLeft, HookFinished, Undo, ClearSlots
  <2>3. QED
    BY <1>3, <1>4, <1>5, <2>1, <2>2, GoesQuietly
<1>q. QED
  BY <1>a, <1>b, <1>c, <1>d, <1>e, <1>f, <1>g, <1>h, <1>i, <1>j

LEMMA ListRoomQuietly ==
  ASSUME HallTypes, NEW w \in Workers, ListRoom(w)
  PROVE  Quietly
PROOF
<1>1. MediaOK /\ DeskOK /\ lease \in Leases /\ task[w] \in Task /\ events \in 0..MaxEvents
  BY TypeParts DEF Taskable
<1>2. PICK failed \in BOOLEAN :
        /\ Called(UNCHANGED media, failed)
        /\ LET t == task[w]
               found == IF failed THEN {} ELSE {p \in inRoom : Concerns(t, p)}
               next == IF t.op = "removeAll" THEN "remove" ELSE "sync"
           IN task' = [task EXCEPT ![w] =
                  Past([t EXCEPT !.todo = @ \cup found, !.at = next], Nobody)]
  BY DEF ListRoom
<1>3. MediaOK' /\ inRoom' = inRoom /\ events' \in 0..MaxEvents
  <2>1. {} \in SUBSET Kinds
    OBVIOUS
  <2>2. QED
    BY <1>1, <1>2, <2>1, CallsKeepTypes
<1>4. \A found \in SUBSET Identities, next \in {"remove", "sync"} :
         /\ [task[w] EXCEPT !.todo = @ \cup found, !.at = next] \in Task
         /\ [task[w] EXCEPT !.todo = @ \cup found, !.at = next].at # "effect"
  BY <1>1 DEF Task
<1>5. \A found \in SUBSET Identities, next \in {"remove", "sync"} :
         Past([task[w] EXCEPT !.todo = @ \cup found, !.at = next], Nobody) \in Taskable
  BY <1>4, PastTask
<1>6. \E u \in Taskable : task' = [task EXCEPT ![w] = u]
  <2> DEFINE found == IF failed THEN {} ELSE {p \in inRoom : Concerns(task[w], p)}
             next == IF task[w].op = "removeAll" THEN "remove" ELSE "sync"
  <2>1. found \in SUBSET Identities /\ next \in {"remove", "sync"}
    BY <1>1 DEF MediaOK
  <2>2. task' = [task EXCEPT ![w] =
                   Past([task[w] EXCEPT !.todo = @ \cup found, !.at = next], Nobody)]
    BY <1>2
  <2> HIDE DEF found, next
  <2>3. QED
    BY <1>5, <2>1, <2>2
<1>7. task' \in [Workers -> Taskable]
  BY <1>6, TasksReplaced, TypeParts
<1>8. UNCHANGED <<desk, lease, round>>
  BY DEF ListRoom
<1>9. QED
  BY <1>1, <1>3, <1>7, <1>8, ScriptsBelow, DeskStays, TypeParts DEF Quietly

LEMMA CallsQuietly ==
  ASSUME HallTypes, NEW w \in Workers, ReadDesired(w) \/ CallUpdate(w) \/ CallRemove(w)
  PROVE  Quietly
PROOF
<1>1. /\ MediaOK /\ DeskOK /\ lease \in Leases /\ task[w] \in Task
      /\ task \in [Workers -> Taskable] /\ round \in Round /\ events \in 0..MaxEvents
  BY TypeParts DEF Taskable
<1>2. Below(lease)
  BY <1>1, ScriptsBelow
<1>3. UNCHANGED desk => DeskOK'
  BY <1>1, DeskStays
<1> DEFINE t == task[w]
<1>a. CASE ReadDesired(w)
  <2>1. \E p \in t.todo :
           task' = [task EXCEPT ![w] =
              [t EXCEPT !.at = "call", !.p = p, !.want = DesiredSources(lease, p, t.st)]]
    BY <1>a DEF ReadDesired
  <2>2. t.todo \subseteq Identities
    BY <1>1 DEF Task
  <2>3. \E u \in Taskable : task' = [task EXCEPT ![w] = u]
    BY <1>1, <2>1, <2>2, TaskGoesOn, DesiredAreKinds
  <2>4. task' \in [Workers -> Taskable]
    BY <1>1, <2>3, TasksReplaced
  <2>5. MediaOK' /\ UNCHANGED <<desk, lease, round, events>>
    BY <1>1, <1>a DEF ReadDesired, MediaOK, media
  <2>6. QED
    BY <1>1, <1>2, <1>3, <2>4, <2>5 DEF Quietly
<1>b. CASE CallUpdate(w)
  <2>1. t.at = "call" /\ UNCHANGED <<desk, lease, round>>
    BY <1>b DEF CallUpdate
  <2>2. PICK failed \in BOOLEAN :
           /\ Called(Update(t.p, t.want), failed)
           /\ task' = [task EXCEPT ![w] =
                  IF t.new /\ (failed \/ t.p \notin inRoom)
                  THEN [t EXCEPT !.at = "undo", !.todo = {}, !.want = {}]
                  ELSE Past(t, t.p)]
    BY <1>b DEF CallUpdate
  <2>3. [t EXCEPT !.at = "undo", !.todo = {}, !.want = {}] \in Taskable
    BY <1>1, TaskGoesOn
  <2>4. Past(t, t.p) \in Taskable
    BY <1>1, <2>1, PastTask
  <2>5. \E u \in Taskable : task' = [task EXCEPT ![w] = u]
    BY <2>2, <2>3, <2>4
  <2>6. task' \in [Workers -> Taskable]
    BY <1>1, <2>5, TasksReplaced
  <2>7. t.want \in SUBSET Kinds
    BY <1>1 DEF Task
  <2>8. MediaOK' /\ inRoom' = inRoom /\ events' \in 0..MaxEvents
    BY <1>1, <2>2, <2>7, CallsKeepTypes
  <2>9. QED
    BY <1>1, <1>2, <1>3, <2>1, <2>6, <2>8 DEF Quietly
<1>c. CASE CallRemove(w)
  <2>1. t.at = "remove" /\ UNCHANGED <<desk, lease, round>>
    BY <1>c DEF CallRemove
  <2>2. PICK p \in t.todo, failed \in BOOLEAN :
           /\ Called(Remove(p), failed)
           /\ LET rest == [task EXCEPT ![w] = Past(t, p)]
              IN task' \in IF inRoom' = inRoom THEN {rest}
                           ELSE Hooked(rest, Plain("left", p))
    BY <1>c DEF CallRemove
  <2>3. Past(t, p) \in Taskable
    BY <1>1, <2>1, PastTask
  <2>4. p \in Identities
    BY <1>1 DEF Task
  <2>5. Plain("left", p) \in Taskable
    BY <2>4, IdleIsTask DEF TaskOps
  <2>6. [task EXCEPT ![w] = Past(t, p)] \in [Workers -> Taskable]
    BY <1>1, <2>3, TasksReplaced
  <2>7. task' \in [Workers -> Taskable]
    BY <2>2, <2>5, <2>6, TasksReplaced
  <2>8. MediaOK' /\ events' \in 0..MaxEvents
    <3>1. {} \in SUBSET Kinds
      OBVIOUS
    <3>2. QED
      BY <1>1, <2>2, <3>1, CallsKeepTypes
  <2>9. QED
    BY <1>1, <1>2, <1>3, <2>1, <2>7, <2>8 DEF Quietly
<1>q. QED
  BY <1>a, <1>b, <1>c

-----------------------------------------------------------------------------
(* The reconciliation's record. *)
LEMMA RoundFields ==
  ASSUME round \in Round
  PROVE  /\ Quiet \in Round
         /\ \A p : Forget(p) \in Round
         /\ \A p : MayCall => [Forget(p) EXCEPT !.calls = @ + 1] \in Round
         /\ [round EXCEPT !.at = "each"] \in Round
         /\ \A p \in Identities, keep \in SUBSET Kinds :
              [round EXCEPT !.at = "keep", !.cur = p, !.pub[p] = {}, !.keep = keep] \in Round
         /\ \A want \in SUBSET Kinds : MayCall =>
              [round EXCEPT !.at = "call", !.keep = {}, !.want = want, !.calls = @ + 1]
                 \in Round
PROOF
<1>1. Quiet \in Round
  BY HallMediaAssumption DEF Quiet, Round, AllOff
<1>2. MayCall => round.calls + 1 \in 0..MaxCalls
  BY HallMediaAssumption DEF MayCall, Round
<1>3. ASSUME NEW p
      PROVE  Forget(p) \in Round /\ Forget(p).calls = round.calls
  <2> DEFINE at == IF round.at = "remove" THEN "remove" ELSE "each"
             perms == [round.perm EXCEPT ![p] = {}]
             pubs == [round.pub EXCEPT ![p] = {}]
  <2>a. Forget(p) = [round EXCEPT !.at = at, !.todo = @ \ {p}, !.cur = Nobody,
                       !.keep = {}, !.want = {}, !.perm = perms, !.pub = pubs,
                       !.banned = @ \ {p}, !.blocked = @ \ {p}]
    BY DEF Forget, Round
  <2> HIDE DEF at, perms, pubs
  <2>1. Forget(p) = [at |-> at, st |-> round.st, perm |-> perms,
                     pub |-> pubs, banned |-> round.banned \ {p},
                     blocked |-> round.blocked \ {p}, todo |-> round.todo \ {p},
                     cur |-> Nobody, keep |-> {}, want |-> {}, calls |-> round.calls]
    BY <2>a, ZenonT(30) DEF Round
  <2>2. at \in {"remove", "each"}
    BY DEF at
  <2>3. perms \in [Identities -> SUBSET Kinds] /\ pubs \in [Identities -> SUBSET Kinds]
    BY DEF Round, perms, pubs
  <2>4. QED
    BY <2>1, <2>2, <2>3 DEF Round
<1>4. \A x \in Round, n \in 0..MaxCalls : [x EXCEPT !.calls = n] \in Round
  BY DEF Round
<1>5. \A p : MayCall => [Forget(p) EXCEPT !.calls = @ + 1] \in Round
  BY <1>2, <1>3, <1>4
<1>6. [round EXCEPT !.at = "each"] \in Round
  BY DEF Round
<1>7. \A p \in Identities, keep \in SUBSET Kinds :
         [round EXCEPT !.at = "keep", !.cur = p, !.pub[p] = {}, !.keep = keep] \in Round
  BY DEF Round
<1>8. \A want \in SUBSET Kinds : MayCall =>
         [round EXCEPT !.at = "call", !.keep = {}, !.want = want, !.calls = @ + 1] \in Round
  BY <1>2 DEF Round
<1>9. QED
  BY <1>1, <1>3, <1>5, <1>6, <1>7, <1>8

LEMMA ReconcileQuietly ==
  ASSUME HallTypes, Reconcile
  PROVE  Quietly
PROOF
<1>1. /\ MediaOK /\ DeskOK /\ lease \in Leases
      /\ task \in [Workers -> Taskable] /\ round \in Round /\ events \in 0..MaxEvents
  BY TypeParts
<1>2. /\ Below(lease) /\ Below([k \in Kinds |-> Cleared])
      /\ \A ks, p : Below(Released(ks, p)) /\ Below(Renewed(ks, p))
  BY <1>1, ScriptsBelow
<1>3. UNCHANGED media => MediaOK' /\ inRoom' = inRoom
  BY <1>1 DEF media, MediaOK
<1>4. UNCHANGED desk => DeskOK'
  BY <1>1, DeskStays
<1>5. round.todo \subseteq Identities
  BY <1>1 DEF Round
<1>a. CASE Look
  <2>1. settings \in [Switches -> BOOLEAN] /\ inRoom \in SUBSET Identities
        /\ perm \in [Identities -> SUBSET Kinds] /\ pub \in [Identities -> SUBSET Kinds]
        /\ banned \cap inRoom \in SUBSET Identities /\ blocked \cap inRoom \in SUBSET Visitors
    BY <1>1 DEF MediaOK, DeskOK
  <2>2. Quiet \in Round
    BY <1>1, RoundFields
  <2>3. [Quiet EXCEPT !.at = "remove", !.todo = inRoom] \in Round
    BY <2>1, <2>2 DEF Round
  <2>4. [Quiet EXCEPT !.at = "return", !.st = settings, !.todo = inRoom,
                      !.perm = perm, !.pub = pub, !.banned = banned \cap inRoom,
                      !.blocked = blocked \cap inRoom] \in Round
    BY <2>1, <2>2 DEF Round
  <2>5. round' \in Round
    BY <1>a, <2>3, <2>4 DEF Look
  <2>6. QED
    BY <1>1, <1>2, <1>3, <1>4, <1>a, <2>5 DEF Look, Quietly
<1>b. CASE ReturnSlots
  <2>1. Below(lease')
    <3>1. \A k \in Kinds : /\ Purged(lease[k]) \in [Identities -> Lease]
                           /\ \A p \in Identities : Purged(lease[k])[p] > 0 => lease[k][p] > 0
      BY <1>1, LeaseValues DEF Purged, Leases
    <3>2. Cleared \in [Identities -> Lease] /\ \A p \in Identities : ~(Cleared[p] > 0)
      BY LeaseValues DEF Cleared
    <3>3. ~(0 > 0)
      OBVIOUS
    <3>4. \A k \in Kinds :
             /\ lease'[k] \in [Identities -> Lease]
             /\ \A p \in Identities : lease'[k][p] > 0 => lease[k][p] > 0
      BY <1>b, <3>1, <3>2, <3>3, LeaseValues DEF ReturnSlots
    <3>5. lease' = [k \in Kinds |-> lease'[k]]
      BY <1>b DEF ReturnSlots
    <3>6. QED
      BY <3>4, <3>5 DEF Below, Leases
  <2>2. round' \in Round
    BY <1>1, <1>b, RoundFields DEF ReturnSlots
  <2>3. QED
    BY <1>1, <1>3, <1>4, <1>b, <2>1, <2>2 DEF ReturnSlots, Quietly
<1>c. CASE KeepSlots
  <2>1. round' \in Round
    BY <1>1, <1>c, RoundFields, DesiredAreKinds DEF KeepSlots
  <2>2. QED
    BY <1>1, <1>2, <1>3, <1>4, <1>c, <2>1 DEF KeepSlots, Quietly
<1>d. CASE RoundUpdates
  <2>1. PICK failed \in BOOLEAN : Called(Update(round.cur, round.want), failed)
    BY <1>d DEF RoundUpdates
  <2>2. round.want \in SUBSET Kinds
    BY <1>1 DEF Round
  <2>3. MediaOK' /\ inRoom' = inRoom /\ events' \in 0..MaxEvents
    BY <1>1, <2>1, <2>2, CallsKeepTypes
  <2>4. round' \in Round /\ UNCHANGED <<desk, lease, task>>
    BY <1>1, <1>d, RoundFields DEF RoundUpdates
  <2>5. QED
    BY <1>1, <1>2, <1>4, <2>3, <2>4 DEF Quietly
<1>e. CASE RoundEnds
  <2>1. round' \in Round /\ Below(lease')
    BY <1>1, <1>2, <1>e, RoundFields DEF RoundEnds
  <2>2. QED
    BY <1>1, <1>3, <1>4, <1>e, <2>1 DEF RoundEnds, Quietly
<1>f. ASSUME NEW p \in round.todo, RoundRemoves(p)
      PROVE  Quietly
  <2>1. PICK failed \in BOOLEAN : Called(Remove(p), failed)
    BY <1>f DEF RoundRemoves
  <2>2. {} \in SUBSET Kinds
    OBVIOUS
  <2>3. MediaOK' /\ events' \in 0..MaxEvents
    BY <1>1, <2>1, <2>2, CallsKeepTypes
  <2>4. Plain("left", p) \in Taskable
    BY <1>5, IdleIsTask DEF TaskOps
  <2>5. task' \in [Workers -> Taskable]
    BY <1>1, <1>f, <2>4, TasksReplaced DEF RoundRemoves
  <2>6. round' \in Round /\ UNCHANGED <<desk, lease>>
    BY <1>1, <1>f, RoundFields DEF RoundRemoves
  <2>7. QED
    BY <1>1, <1>2, <1>4, <2>3, <2>5, <2>6 DEF Quietly
<1>g. ASSUME NEW p \in round.todo, RoundPutsOff(p)
      PROVE  Quietly
  <2>1. round' \in Round
    BY <1>1, <1>g, RoundFields DEF RoundPutsOff
  <2>2. QED
    BY <1>1, <1>2, <1>3, <1>4, <1>g, <2>1 DEF RoundPutsOff, Quietly
<1>h. ASSUME NEW p \in round.todo, Examine(p)
      PROVE  Quietly
  <2>1. \E keep \in SUBSET Kinds :
           round' = [round EXCEPT !.at = "keep", !.cur = p, !.pub[p] = {}, !.keep = keep]
    <3> DEFINE keep == {k \in round.pub[p] : /\ p \notin round.blocked
                                             /\ k = "mic" => p \in Visitors
                                             /\ k = "cam" => round.st["cam"]
                                             /\ Held(k, p)}
    <3>1. round.pub[p] \in SUBSET Kinds
      BY <1>1, <1>5 DEF Round
    <3>2. keep \in SUBSET Kinds
      BY <3>1
    <3>3. round' = [round EXCEPT !.at = "keep", !.cur = p, !.pub[p] = {}, !.keep = keep]
      BY <1>h DEF Examine
    <3>4. QED
      BY <3>2, <3>3
  <2>2. p \in Identities
    BY <1>5
  <2>3. PICK keep \in SUBSET Kinds :
           round' = [round EXCEPT !.at = "keep", !.cur = p, !.pub[p] = {}, !.keep = keep]
    BY <2>1
  <2>4. [round EXCEPT !.at = "keep", !.cur = p, !.pub[p] = {}, !.keep = keep] \in Round
    BY <1>1, <2>2, RoundFields
  <2>5. round' \in Round
    BY <2>3, <2>4
  <2>6. QED
    BY <1>1, <1>2, <1>3, <1>4, <1>h, <2>5 DEF Examine, Quietly
<1>q. QED
  BY <1>a, <1>b, <1>c, <1>d, <1>e, <1>f, <1>g, <1>h DEF Reconcile

LEMMA OutsideQuietly ==
  ASSUME HallTypes,
         \/ \E p \in Identities :
              \/ Leave(p) \/ BanExpires(p)
              \/ \E sources \in tokens[p] : Connect(p, sources)
              \/ \E k \in Kinds : Publish(p, k) \/ Unpublish(p, k)
         \/ \E s \in Switches : Switch(s)
         \/ \E v \in Visitors : SetBlocked(v)
         \/ RoomFinishes \/ CacheExpires \/ Tick
  PROVE  Quietly
PROOF
<1>1. /\ MediaOK /\ DeskOK /\ lease \in Leases
      /\ task \in [Workers -> Taskable] /\ round \in Round /\ events \in 0..MaxEvents
  BY TypeParts
<1>2. Below(lease)
  BY <1>1, ScriptsBelow
<1>3. UNCHANGED media => MediaOK'
  BY <1>1 DEF media, MediaOK
<1>4. UNCHANGED desk => DeskOK'
  BY <1>1, DeskStays
<1>5. Outside => round' \in Round /\ events' \in 0..MaxEvents
  BY <1>1, HallMediaAssumption DEF Outside, Happens
<1>6. \A t \in Taskable : Reports(t) \/ Spawns(t) => task' \in [Workers -> Taskable]
  BY <1>1, TasksReplaced DEF Reports, Spawns
<1>7. \A p \in Identities : /\ Plain("left", p) \in Taskable
                            /\ Plain("joined", p) \in Taskable
                            /\ Plain("blocked", p) \in Taskable
                            /\ \A k \in AllKinds : NewTask("track", p, k, AllOff) \in Taskable
  BY IdleIsTask DEF TaskOps, AllOff
<1>8. /\ Plain("finished", Nobody) \in Taskable
      /\ Plain("removeAll", Nobody) \in Taskable
      /\ \A op \in {"revoke", "regrant"}, k \in AllKinds, st \in [Switches -> BOOLEAN] :
            NewTask(op, Nobody, k, st) \in Taskable
  BY IdleIsTask DEF TaskOps, Named
<1>9. Kinds \subseteq AllKinds /\ Switches \ {"open"} \subseteq AllKinds
      /\ Visitors \subseteq Identities
  BY HallMediaAssumption, WorkersAndKinds
<1>a. ASSUME NEW p \in Identities, Leave(p)
      PROVE  Quietly
  <2>1. MediaOK'
    BY <1>1, <1>a DEF Leave, MediaOK
  <2>2. QED
    BY <1>1, <1>2, <1>4, <1>5, <1>6, <1>7, <1>a, <2>1 DEF Leave, Quietly
<1>b. ASSUME NEW p \in Identities, BanExpires(p)
      PROVE  Quietly
  <2>1. DeskOK'
    BY <1>1, <1>b DEF BanExpires, DeskOK
  <2>2. QED
    BY <1>1, <1>2, <1>3, <1>b, <2>1 DEF BanExpires, Quietly
<1>c. ASSUME NEW p \in Identities, NEW sources \in tokens[p], Connect(p, sources)
      PROVE  Quietly
  <2>1. MediaOK'
    BY <1>1, <1>c DEF Connect, MediaOK
  <2>2. QED
    BY <1>1, <1>2, <1>4, <1>5, <1>6, <1>7, <1>c, <2>1 DEF Connect, Quietly
<1>d. ASSUME NEW p \in Identities, NEW k \in Kinds, Publish(p, k)
      PROVE  Quietly
  <2>1. MediaOK'
    BY <1>1, <1>d DEF Publish, MediaOK
  <2>2. QED
    BY <1>1, <1>2, <1>4, <1>5, <1>6, <1>7, <1>9, <1>d, <2>1 DEF Publish, Quietly
<1>e. ASSUME NEW p \in Identities, NEW k \in Kinds, Unpublish(p, k)
      PROVE  Quietly
  <2>1. MediaOK'
    BY <1>1, <1>e DEF Unpublish, MediaOK
  <2>2. QED
    BY <1>1, <1>2, <1>4, <1>5, <1>e, <2>1 DEF Unpublish, Quietly
<1>f. ASSUME NEW s \in Switches, Switch(s)
      PROVE  Quietly
  <2>1. DeskOK' /\ settings' \in [Switches -> BOOLEAN]
    BY <1>1, <1>f DEF Switch, DeskOK
  <2>2. /\ s # "open" => s \in AllKinds
        /\ "mic" \in AllKinds
    BY <1>9 DEF AllKinds
  <2>3. \/ UNCHANGED task
        \/ Spawns(Plain("removeAll", Nobody))
        \/ s # "open" /\ Spawns(NewTask("revoke", Nobody, s, settings'))
        \/ s # "open" /\ Spawns(NewTask("regrant", Nobody, s, settings'))
    <3>1. LET off == settings[s]
          IN CASE s = "open" /\ off -> Spawns(Plain("removeAll", Nobody))
               [] s # "open" /\ off -> Spawns(NewTask("revoke", Nobody, s, settings'))
               [] s = "mic" /\ ~off -> Spawns(NewTask("regrant", Nobody, s, settings'))
               [] OTHER -> UNCHANGED task
      BY <1>f DEF Switch
    <3>2. QED
      BY <3>1
  <2>4. task' \in [Workers -> Taskable]
    BY <1>1, <1>6, <1>8, <2>1, <2>2, <2>3
  <2>5. QED
    BY <1>1, <1>2, <1>3, <1>5, <1>f, <2>1, <2>4 DEF Switch, Quietly
<1>g. ASSUME NEW v \in Visitors, SetBlocked(v)
      PROVE  Quietly
  <2>1. DeskOK'
    BY <1>1, <1>g DEF SetBlocked, DeskOK
  <2>2. task' \in [Workers -> Taskable]
    BY <1>1, <1>6, <1>7, <1>9, <1>g DEF SetBlocked
  <2>3. QED
    BY <1>1, <1>2, <1>3, <1>5, <1>g, <2>1, <2>2 DEF SetBlocked, Quietly
<1>h. CASE RoomFinishes
  BY <1>1, <1>2, <1>3, <1>4, <1>5, <1>6, <1>8, <1>h DEF RoomFinishes, Quietly
<1>i. CASE CacheExpires
  <2>1. DeskOK'
    BY <1>1, <1>i DEF CacheExpires, DeskOK
  <2>2. QED
    BY <1>1, <1>2, <1>3, <1>i, <2>1 DEF CacheExpires, Quietly
<1>j. CASE Tick
  <2>1. \A k \in Kinds, p \in Identities :
           /\ lease'[k][p] = IF Held(k, p) THEN lease[k][p] - 1 ELSE lease[k][p]
           /\ lease[k][p] \in Lease
    BY <1>1, <1>j DEF Tick, Leases
  <2>2. \A k \in Kinds, p \in Identities :
           lease'[k][p] \in Lease /\ (lease'[k][p] > 0 => lease[k][p] > 0)
    BY <2>1, LeaseValues DEF Held
  <2>3. lease' = [k \in Kinds |-> [p \in Identities |-> lease'[k][p]]]
    BY <1>j DEF Tick
  <2>4. Below(lease')
    BY <2>2, <2>3 DEF Below, Leases
  <2>5. MediaOK' /\ inRoom' = inRoom
    BY <1>1, <1>j DEF Tick, media, MediaOK
  <2>6. QED
    BY <1>1, <1>4, <1>j, <2>4, <2>5 DEF Tick, Quietly
<1>q. QED
  BY <1>a, <1>b, <1>c, <1>d, <1>e, <1>f, <1>g, <1>h, <1>i, <1>j

(***************************************************************************)
(* Acquire keeps the types; its leases are those of an earlier slot that   *)
(* is renewed, or of a free slot that is taken.                            *)
(***************************************************************************)
LEMMA AcquireSteps ==
  ASSUME HallTypes, NEW w \in Workers, Acquire(w)
  PROVE  \/ Quietly
         \/ /\ HallTypes' /\ inRoom' = inRoom
            /\ \E k \in Kinds : \E p \in Eligible(k) :
                 LET kept == Purged(lease[k])
                 IN /\ \/ kept[p] > 0
                       \/ Cardinality({q \in Identities : kept[q] > 0}) < Slots[k]
                    /\ lease' = [lease EXCEPT ![k] = [kept EXCEPT ![p] = Fresh]]
PROOF
<1>1. /\ MediaOK /\ DeskOK /\ lease \in Leases /\ task[w] \in Taskable
      /\ task \in [Workers -> Taskable] /\ round \in Round /\ events \in 0..MaxEvents
  BY TypeParts
<1> DEFINE t == task[w]
           kept == Purged(lease[t.k])
           free == Cardinality({p \in Identities : kept[p] > 0}) < Slots[t.k]
           taken == [[lease EXCEPT ![t.k] = kept] EXCEPT ![t.k][t.p] = Fresh]
<1>2. /\ t.op = "on" /\ t.at = "effect"
      /\ MediaOK' /\ DeskOK' /\ inRoom' = inRoom
    BY <1>1, DeskStays DEF Acquire, media, MediaOK
<1>3. t.p \in Eligible(t.k) /\ t.k \in AllKinds /\ t \in Task
  BY <1>1, <1>2 DEF Taskable, Task
<1>4. t.p \in Identities
  BY <1>3, WorkersAndKinds DEF Eligible
<1>5. /\ Below(lease) /\ Below([lease EXCEPT ![t.k] = kept])
      /\ Idle \in Taskable
  BY <1>1, ScriptsBelow, IdleIsTask
<1> DEFINE renewed == [Synced(t, {t.p}) EXCEPT !.new = kept[t.p] = 0, !.locks = TRUE]
<1>6. CASE \E leases : Below(leases) /\ Goes(w, leases, Idle)
  BY <1>2, <1>5, <1>6, GoesQuietly
<1>7. CASE (kept[t.p] > 0 \/ free) /\ Goes(w, taken, renewed)
  <2>1. Goes(w, taken, renewed)
    BY <1>7
  <2>2. renewed \in Taskable
    <3>1. {t.p} \in SUBSET Identities /\ (kept[t.p] = 0) \in BOOLEAN
      BY <1>4
    <3>2. QED
      BY <1>3, <3>1, SyncedTask
  <2>3. task' \in [Workers -> Taskable] /\ lease' = taken /\ UNCHANGED <<round, events>>
    BY <1>1, <2>1, <2>2, TasksReplaced DEF Goes
  <2>4. CASE t.k \in Kinds
    <3>1. /\ kept \in [Identities -> Lease] /\ lease \in [Kinds -> [Identities -> Lease]]
          /\ kept[t.p] \in Lease
      BY <1>1, <1>4, <2>4, LeaseValues DEF Purged, Leases
    <3>2. taken = [lease EXCEPT ![t.k] = [kept EXCEPT ![t.p] = Fresh]]
      BY <3>1, <2>4
    <3>3. taken \in Leases
      BY <3>1, <3>2, LeaseValues DEF Leases
    <3>4. kept[t.p] > 0 \/ free
      BY <1>7
    <3>5. HallTypes'
      BY <1>1, <1>2, <2>3, <3>3, TypePartsPrime
    <3>6. QED
      BY <1>2, <1>3, <2>3, <2>4, <3>2, <3>4, <3>5
  <2>5. CASE t.k \notin Kinds
    <3>1. taken = lease
      BY <1>1, <2>5 DEF Leases
    <3>2. QED
      BY <1>1, <1>2, <1>5, <2>3, <3>1 DEF Quietly
  <2>6. QED
    BY <2>4, <2>5
<1>8. \/ Goes(w, lease, Idle) \/ Goes(w, [lease EXCEPT ![t.k] = kept], Idle)
      \/ (kept[t.p] > 0 \/ free) /\ Goes(w, taken, renewed)
  BY DEF Acquire
<1>9. QED
  BY <1>5, <1>6, <1>7, <1>8

-----------------------------------------------------------------------------
(***************************************************************************)
(* The pools.  Quiet steps free slots or move participants; Acquire takes  *)
(* one, once the lapsed leases are counted out.                            *)
(***************************************************************************)
\* a step of the pool of one kind
PoolStep(k) ==
    \/ Listed(k)' \subseteq Listed(k) /\ inRoom' = inRoom
    \/ Listed(k)' = Listed(k)
    \/ \E p \in Eligible(k), lapsed \in SUBSET Listed(k) :
          /\ p \notin Listed(k) \ lapsed
          /\ Cardinality(Listed(k) \ lapsed) < Slots[k]
          /\ Listed(k)' = (Listed(k) \ lapsed) \cup {p}
          /\ inRoom' = inRoom

LEMMA StepIsPoolStep ==
  ASSUME HallInv, [Next]_vars
  PROVE  HallTypes' /\ \A k \in AllKinds : PoolStep(k)
PROOF
<1>1. HallTypes
  BY DEF HallInv
<1>2. ASSUME Quietly
      PROVE  HallTypes' /\ \A k \in AllKinds : PoolStep(k)
  <2>1. HallTypes'
    BY <1>2, TypePartsPrime DEF Quietly, Below
  <2>2. \A k \in AllKinds : PoolStep(k)
    BY <1>2 DEF Quietly, Below, PoolStep, Listed
  <2>3. QED
    BY <2>1, <2>2
<1>3. ASSUME NEW w \in Workers, Acquire(w)
      PROVE  HallTypes' /\ \A k \in AllKinds : PoolStep(k)
  <2>1. CASE Quietly
    BY <1>2, <2>1
  <2>2. CASE ~Quietly
    <3>1. /\ HallTypes' /\ inRoom' = inRoom
          /\ \E k \in Kinds : \E p \in Eligible(k) :
               LET kept == Purged(lease[k])
               IN /\ \/ kept[p] > 0
                     \/ Cardinality({q \in Identities : kept[q] > 0}) < Slots[k]
                  /\ lease' = [lease EXCEPT ![k] = [kept EXCEPT ![p] = Fresh]]
      BY <1>1, <1>3, <2>2, AcquireSteps
    <3>2. PICK k \in Kinds : \E p \in Eligible(k) :
             /\ \/ Purged(lease[k])[p] > 0
                \/ Cardinality({q \in Identities : Purged(lease[k])[q] > 0}) < Slots[k]
             /\ lease' = [lease EXCEPT ![k] = [Purged(lease[k]) EXCEPT ![p] = Fresh]]
      BY <3>1
    <3>3. PICK p \in Eligible(k) :
             /\ \/ Purged(lease[k])[p] > 0
                \/ Cardinality({q \in Identities : Purged(lease[k])[q] > 0}) < Slots[k]
             /\ lease' = [lease EXCEPT ![k] = [Purged(lease[k]) EXCEPT ![p] = Fresh]]
      BY <3>2
    <3> DEFINE kept == Purged(lease[k])
               still == {q \in Identities : kept[q] > 0}
    <3>4. /\ lease \in Leases /\ p \in Identities
          /\ kept \in [Identities -> Lease]
          /\ \A q \in Identities : kept[q] > 0 => lease[k][q] > 0
      <4>1. lease[k] \in [Identities -> Lease] /\ lease \in Leases
        BY <1>1, TypeParts DEF Leases
      <4>2. p \in Identities
        BY WorkersAndKinds DEF Eligible
      <4>3. QED
        BY <4>1, <4>2, LeaseValues DEF Purged
    <3>5. \A l \in AllKinds : l # k => Listed(l)' = Listed(l)
      BY <3>3, <3>4 DEF Listed, Leases
    <3>6. still \subseteq Listed(k)
      BY <3>4 DEF Listed
    <3>7. Listed(k)' = still \cup {p}
      <4>1. lease'[k] = [kept EXCEPT ![p] = Fresh]
        BY <3>3, <3>4 DEF Leases
      <4>2. \A q \in Identities : lease'[k][q] = IF q = p THEN Fresh ELSE kept[q]
        BY <3>4, <4>1
      <4>3. \A q \in Identities : lease'[k][q] > 0 <=> q = p \/ kept[q] > 0
        BY <4>2, LeaseValues
      <4>4. QED
        BY <3>4, <4>3 DEF Listed
    <3>8. PoolStep(k)
      <4>1. CASE p \in still
        BY <3>1, <3>6, <3>7, <4>1 DEF PoolStep
      <4>2. CASE p \notin still
        <5>1. Cardinality(still) < Slots[k]
          BY <3>3, <3>4, <4>2
        <5>2. Listed(k) \ (Listed(k) \ still) = still
          BY <3>6
        <5> DEFINE lapsed == Listed(k) \ still
        <5>3. /\ lapsed \in SUBSET Listed(k)
              /\ p \notin Listed(k) \ lapsed
              /\ Cardinality(Listed(k) \ lapsed) < Slots[k]
              /\ Listed(k)' = (Listed(k) \ lapsed) \cup {p}
              /\ inRoom' = inRoom
          BY <3>1, <3>7, <4>2, <5>1, <5>2
        <5> HIDE DEF lapsed
        <5>4. QED
          BY <5>3 DEF PoolStep
      <4>3. QED
        BY <4>1, <4>2
    <3>9. \A l \in AllKinds : PoolStep(l)
      BY <3>5, <3>8 DEF PoolStep
    <3>10. QED
      BY <3>1, <3>9
  <2>3. QED
    BY <2>1, <2>2
<1>4. ASSUME UNCHANGED vars
      PROVE  Quietly
  <2>1. /\ MediaOK /\ DeskOK /\ lease \in Leases
        /\ task \in [Workers -> Taskable] /\ round \in Round /\ events \in 0..MaxEvents
    BY <1>1, TypeParts
  <2>2. Below(lease)
    BY <2>1, ScriptsBelow
  <2>3. UNCHANGED <<media, desk, lease, task, round, events>>
    BY <1>4 DEF vars
  <2>4. QED
    BY <2>1, <2>2, <2>3, DeskStays DEF Quietly, media, MediaOK
<1>5. ASSUME NEW w \in Requests,
             \/ \E p \in Identities : AskJoin(w, p)
             \/ \E p \in Identities, k \in Kinds :
                  \/ \E on \in BOOLEAN : AskMedia(w, p, k, on)
                  \/ Moderate(w, "mute", p, k)
             \/ \E p \in Identities : Moderate(w, "kick", p, "mic")
             \/ "mic" \in Kinds /\ Moderate(w, "muteAll", Nobody, "mic")
             \/ LockLapses(w)
      PROVE  Quietly
  <2>1. Kinds \subseteq AllKinds /\ "mic" \in AllKinds
    BY HallMediaAssumption DEF AllKinds
  <2>2. QED
    BY <1>1, <1>5, <2>1, AskedQuietly
<1>6. ASSUME NEW w \in Workers, Step(w), ~Acquire(w)
      PROVE  Quietly
  <2>1. CASE ListRoom(w)
    BY <1>1, <2>1, ListRoomQuietly
  <2>2. CASE ReadDesired(w) \/ CallUpdate(w) \/ CallRemove(w)
    BY <1>1, <2>2, CallsQuietly
  <2>3. CASE \/ Join(w) \/ Release(w) \/ Mute(w) \/ Kick(w) \/ ClearAll(w)
             \/ StartList(w) \/ Block(w) \/ HookJoined(w) \/ HookLeft(w) \/ HookTrack(w)
             \/ HookFinished(w) \/ Undo(w) \/ ClearSlots(w)
    BY <1>1, <2>3, FirstCallQuietly
  <2>4. QED
    BY <1>6, <2>1, <2>2, <2>3 DEF Step
<1>7. QED
  BY <1>1, <1>2, <1>3, <1>4, <1>5, <1>6, ReconcileQuietly, OutsideQuietly DEF Next

LEMMA SlotsAreCounted ==
  ASSUME NEW k \in AllKinds
  PROVE  /\ IsFiniteSet(Eligible(k)) /\ Slots[k] \in Nat
         /\ IsFiniteSet(Identities) /\ Eligible(k) \subseteq Identities
PROOF
<1>1. IsFiniteSet(Identities) /\ Eligible(k) \in SUBSET Identities /\ Slots[k] \in Nat
  BY HallMediaAssumption, WorkersAndKinds DEF Eligible
<1>2. IsFiniteSet(Eligible(k))
  BY <1>1, FS_Subset
<1>3. QED
  BY <1>1, <1>2

(* The pools count as this module does. *)
LEMMA PoolsCount ==
  \A S : MicPool!Cardinality(S) = Cardinality(S) /\ CamPool!Cardinality(S) = Cardinality(S)
PROOF
  BY DEF MicPool!Cardinality, CamPool!Cardinality, Cardinality

LEMMA InitHall == Init => HallInv
PROOF
<1> SUFFICES ASSUME Init PROVE HallInv
  OBVIOUS
<1>1. MediaOK /\ DeskOK /\ events \in 0..MaxEvents
  BY HallMediaAssumption, WorkersAndKinds DEF Init, MediaOK, DeskOK
<1>2. task \in [Workers -> Taskable]
  BY IdleIsTask DEF Init
<1>3. round \in Round
  BY HallMediaAssumption DEF Init, Quiet, Round, AllOff
<1>4. lease \in Leases
  BY LeaseValues DEF Init, Leases
<1>5. HallTypes
  BY <1>1, <1>2, <1>3, <1>4, TypeParts
<1>6. ASSUME NEW k \in AllKinds
      PROVE  Listed(k) \subseteq Eligible(k) /\ Cardinality(Listed(k)) <= Slots[k]
  <2>1. CASE k \in Kinds
    <3>1. /\ Holders[k] \in SUBSET Eligible(k)
          /\ Cardinality(Holders[k]) <= Slots[k]
      BY <2>1, HallMediaAssumption
    <3>2. ~(0 > 0)
      OBVIOUS
    <3>3. \A p \in Identities : lease[k][p] > 0 <=> p \in Holders[k]
      BY <2>1, <3>2, LeaseValues DEF Init
    <3>4. Listed(k) = Holders[k]
      BY <2>1, <3>1, <3>3, SlotsAreCounted DEF Listed
    <3>5. QED
      BY <3>1, <3>4
  <2>2. CASE k \notin Kinds
    <3>1. Listed(k) = {}
      BY <2>2 DEF Listed
    <3>2. QED
      BY <3>1, FS_EmptySet, SlotsAreCounted
  <2>3. QED
    BY <2>1, <2>2
<1>7. QED
  BY <1>5, <1>6 DEF HallInv, SlotsFit

LEMMA NextHall == HallInv /\ [Next]_vars => HallInv'
PROOF
<1> SUFFICES ASSUME HallInv, [Next]_vars PROVE HallInv'
  OBVIOUS
<1>1. HallTypes' /\ \A k \in AllKinds : PoolStep(k)
  BY StepIsPoolStep
<1>2. ASSUME NEW k \in AllKinds
      PROVE  Listed(k)' \subseteq Eligible(k) /\ Cardinality(Listed(k)') <= Slots[k]
  <2>1. /\ Listed(k) \in SUBSET Eligible(k) /\ Cardinality(Listed(k)) <= Slots[k]
        /\ IsFiniteSet(Eligible(k)) /\ Slots[k] \in Nat /\ PoolStep(k)
    BY <1>1, SlotsAreCounted DEF HallInv, SlotsFit
  <2>2. IsFiniteSet(Listed(k)) /\ Cardinality(Listed(k)) \in Nat
    BY <2>1, FS_Subset, FS_CardinalityType
  <2>3. CASE Listed(k)' \subseteq Listed(k)
    <3>1. Listed(k)' \in SUBSET Listed(k)
      BY <2>3
    <3>2. /\ IsFiniteSet(Listed(k)')
          /\ Cardinality(Listed(k)') <= Cardinality(Listed(k))
      BY <2>2, <3>1, FS_Subset
    <3>3. Cardinality(Listed(k)') \in Nat
      BY <3>2, FS_CardinalityType
    <3>4. QED
      BY <2>1, <2>2, <2>3, <3>2, <3>3
  <2>4. ASSUME NEW p \in Eligible(k), NEW lapsed \in SUBSET Listed(k),
               p \notin Listed(k) \ lapsed,
               Cardinality(Listed(k) \ lapsed) < Slots[k],
               Listed(k)' = (Listed(k) \ lapsed) \cup {p}
        PROVE  Listed(k)' \subseteq Eligible(k) /\ Cardinality(Listed(k)') <= Slots[k]
    <3> DEFINE still == Listed(k) \ lapsed
    <3>1. still \in SUBSET Listed(k)
      OBVIOUS
    <3>2. IsFiniteSet(still) /\ Cardinality(still) \in Nat
      BY <2>2, <3>1, FS_Subset, FS_CardinalityType
    <3>3. Cardinality(still \cup {p}) = Cardinality(still) + 1
      BY <2>4, <3>2, FS_AddElement
    <3>4. Cardinality(still) < Slots[k] /\ Listed(k)' = still \cup {p}
      BY <2>4
    <3> HIDE DEF still
    <3>5. QED
      BY <2>1, <3>1, <3>2, <3>3, <3>4
  <2>5. QED
    BY <2>1, <2>3, <2>4 DEF PoolStep
<1>3. SlotsFit'
  BY <1>2 DEF SlotsFit, Eligible
<1>4. QED
  BY <1>1, <1>3 DEF HallInv

(***************************************************************************)
(* HallInv holds in every state.                                           *)
(***************************************************************************)
LEMMA HallInvariant == Spec => []HallInv
PROOF
  BY InitHall, NextHall, PTL DEF Spec

(***************************************************************************)
(* The hall's state keeps its types, for any number of participants, slots *)
(* and tasks: a task never names somebody who does not exist, a round      *)
(* never makes more calls than maxReconcileCalls.                          *)
(***************************************************************************)
THEOREM HallTypeCorrect == Spec => []TypeOK
PROOF
<1>1. HallInv => TypeOK
  BY DEF HallInv, HallTypes
<1>2. QED
  BY <1>1, HallInvariant, PTL

(***************************************************************************)
(* However requests, webhooks, tasks and lapsing leases interleave, nobody *)
(* holds a slot who may not have one, and there are never more holders of  *)
(* a kind, the expired ones counted, than slots (the script of Acquire).   *)
(***************************************************************************)
THEOREM HallNeverOverfull == Spec => []SlotsFit
PROOF
<1>1. HallInv => SlotsFit
  BY DEF HallInv
<1>2. QED
  BY <1>1, HallInvariant, PTL

(***************************************************************************)
(* Every step of requests, webhooks, background tasks and reconciliation   *)
(* is a step of the pool of speakers and of the pool of cameras, or leaves *)
(* them alone: there are never more holders than places, and a place is    *)
(* only given while one is free.                                           *)
(***************************************************************************)
THEOREM HallImplementsPools == Spec => MicPool!PoolSafe /\ CamPool!PoolSafe
PROOF
<1>1. HallInv => MicPool!PoolInit /\ CamPool!PoolInit
  <2>1. "mic" \in AllKinds /\ "cam" \in AllKinds
    BY DEF AllKinds
  <2>2. QED
    BY <2>1, PoolsCount DEF HallInv, SlotsFit, MicPool!PoolInit, CamPool!PoolInit
<1>2. ASSUME HallInv, [Next]_vars
      PROVE  /\ [MicPool!PoolNext]_(MicPool!poolVars)
             /\ [CamPool!PoolNext]_(CamPool!poolVars)
  <2>1. "mic" \in AllKinds /\ "cam" \in AllKinds
    BY DEF AllKinds
  <2>2. /\ Listed("mic") \subseteq Eligible("mic") /\ PoolStep("mic")
        /\ Listed("cam") \subseteq Eligible("cam") /\ PoolStep("cam")
    BY <1>2, <2>1, StepIsPoolStep DEF HallInv, SlotsFit
  <2>3. MicPool!PoolNext
    <3>1. CASE Listed("mic")' \subseteq Listed("mic") /\ inRoom' = inRoom
      <4>1. MicPool!Free(Listed("mic") \ Listed("mic")')
        BY <3>1 DEF MicPool!Free, Eligible
      <4>2. QED
        BY <2>2, <4>1 DEF MicPool!PoolNext
    <3>2. CASE Listed("mic")' = Listed("mic")
      <4>1. MicPool!Move
        BY <3>2 DEF MicPool!Move, Eligible
      <4>2. QED
        BY <4>1 DEF MicPool!PoolNext
    <3>3. ASSUME NEW p \in Eligible("mic"), NEW lapsed \in SUBSET Listed("mic"),
                 p \notin Listed("mic") \ lapsed,
                 Cardinality(Listed("mic") \ lapsed) < Slots["mic"],
                 Listed("mic")' = (Listed("mic") \ lapsed) \cup {p}, inRoom' = inRoom
          PROVE  MicPool!PoolNext
      <4>1. MicPool!Take(p, lapsed)
        BY <3>3, PoolsCount DEF MicPool!Take, Eligible
      <4>2. lapsed \in SUBSET Eligible("mic")
        BY <2>2
      <4>3. QED
        BY <4>1, <4>2 DEF MicPool!PoolNext
    <3>4. QED
      BY <2>2, <3>1, <3>2, <3>3 DEF PoolStep
  <2>4. CamPool!PoolNext
    <3>1. CASE Listed("cam")' \subseteq Listed("cam") /\ inRoom' = inRoom
      <4>1. CamPool!Free(Listed("cam") \ Listed("cam")')
        BY <3>1 DEF CamPool!Free, Eligible
      <4>2. QED
        BY <2>2, <4>1 DEF CamPool!PoolNext
    <3>2. CASE Listed("cam")' = Listed("cam")
      <4>1. CamPool!Move
        BY <3>2 DEF CamPool!Move, Eligible
      <4>2. QED
        BY <4>1 DEF CamPool!PoolNext
    <3>3. ASSUME NEW p \in Eligible("cam"), NEW lapsed \in SUBSET Listed("cam"),
                 p \notin Listed("cam") \ lapsed,
                 Cardinality(Listed("cam") \ lapsed) < Slots["cam"],
                 Listed("cam")' = (Listed("cam") \ lapsed) \cup {p}, inRoom' = inRoom
          PROVE  CamPool!PoolNext
      <4>1. CamPool!Take(p, lapsed)
        BY <3>3, PoolsCount DEF CamPool!Take, Eligible
      <4>2. lapsed \in SUBSET Eligible("cam")
        BY <2>2
      <4>3. QED
        BY <4>1, <4>2 DEF CamPool!PoolNext
    <3>4. QED
      BY <2>2, <3>1, <3>2, <3>3 DEF PoolStep
  <2>5. QED
    BY <2>3, <2>4
<1>3. Init => HallInv
  BY InitHall
<1>4. QED
  BY <1>1, <1>2, <1>3, HallInvariant, PTL DEF Spec, MicPool!PoolSafe, CamPool!PoolSafe

=============================================================================
