------------------------- MODULE ConversationsProofs -------------------------
(***************************************************************************)
(* Proofs about Conversations for every set of visitors, agents and        *)
(* requests, every initial table and every bound.  What makes the claims   *)
(* safe is that a handler's stale reads are remembered by the history:     *)
(* ClaimIsFounded says, for each point of AssignSelf, what must have been  *)
(* seen since the request came in.                                         *)
(***************************************************************************)
EXTENDS Conversations, TLAPS

ClaimIsFounded(a) ==
    /\ claim[a].pc # "idle" => claim[a].conv \in Convs
    /\ claim[a].pc = "assign" => claim[a].conv \in entitled[a]
    /\ claim[a].pc \in {"decide", "take", "detach"} => claim[a].from \in Agents
    /\ claim[a].pc = "decide" /\ ~claim[a].active => claim[a].from \in away[a]
    /\ claim[a].pc = "take" => a \in Admins \/ claim[a].from \in away[a]

ClaimsAreFounded == \A a \in Agents : ClaimIsFounded(a)

VisitsAreFounded ==
    \A r \in Requests : visit[r].pc # "idle" => visit[r].visitor \in Visitors

ConvInv == ConvTypeOK /\ ClaimsAreFounded /\ VisitsAreFounded

ConvStep == ConvNext \/ \E v \in Visitors : VisitorWrites(v)

-----------------------------------------------------------------------------
USE ConversationsAssumption DEF rowVars, agentVars, seatVars, deskVars, seenVars, convVars

(* The types of the parts of the state, for use in the steps. *)
LEMMA Observed ==
  ASSUME ConvTypeOK, Observe, disabled' \subseteq Agents
  PROVE  /\ away' \in [Agents -> SUBSET Agents]
         /\ entitled' \in [Agents -> SUBSET Convs]
         /\ \A a \in Agents : claim'[a].pc # "idle" =>
               /\ away[a] \subseteq away'[a]
               /\ entitled[a] \subseteq entitled'[a]
               /\ Gone \subseteq away'[a]
               /\ {i \in Convs : Owns(a, i)} \subseteq entitled'[a]
<1>1. Gone \subseteq Agents /\ Gone' \subseteq Agents
  BY DEF Gone, ConvTypeOK
<1> QED
  BY <1>1 DEF Observe, ConvTypeOK

(* Closing a row, if it is one, yields rows. *)
LEMMA CloseKeepsRows ==
  ASSUME ConvTypeOK, NEW k, Close(k)
  PROVE  convs' \in [Convs -> Conversation]
<1>1. \A i \in Convs, s \in Statuses : [convs[i] EXCEPT !.status = s] \in Conversation
  BY SMTT(30) DEF ConvTypeOK, Conversation
<1>2. convs \in [Convs -> Conversation] /\ \A i \in Convs : convs[i].status \in Statuses
  BY DEF ConvTypeOK, Conversation
<1> QED
  BY <1>1, <1>2 DEF Close, Statuses

(* Creating and changing rows yields rows. *)
LEMMA RowsStayRows ==
  ASSUME ConvTypeOK, NEW i \in Convs
  PROVE  /\ \A v \in Visitors, a \in Agents \cup {NoOne} :
               Create(i, v, a) => convs' \in [Convs -> Conversation]
         /\ \A a \in Agents \cup {NoOne} :
               [convs EXCEPT ![i].owner = a] \in [Convs -> Conversation]
         /\ \A n \in Nat :
               [convs EXCEPT ![i].unread = n] \in [Convs -> Conversation]
         /\ \A s \in Statuses : [convs[i] EXCEPT !.status = s] \in Conversation
<1>1. convs \in [Convs -> Conversation]
  BY DEF ConvTypeOK
<1>2. \A n \in Nat : [convs EXCEPT ![i].unread = n] \in [Convs -> Conversation]
  BY <1>1 DEF Conversation
<1>3. \A a \in Agents \cup {NoOne} : [convs EXCEPT ![i].owner = a] \in [Convs -> Conversation]
  BY <1>1 DEF Conversation
<1>4. \A s \in Statuses : [convs[i] EXCEPT !.status = s] \in Conversation
  BY <1>1 DEF Conversation
<1>5. ASSUME NEW v \in Visitors, NEW a \in Agents \cup {NoOne}, Create(i, v, a)
      PROVE  convs' \in [Convs -> Conversation]
  <2>1. [visitor |-> v, owner |-> a, status |-> "open", unread |-> 0] \in Conversation
    BY DEF Conversation, Statuses
  <2> QED
    BY <1>1, <1>5, <2>1 DEF Create
<1> QED
  BY <1>2, <1>3, <1>4, <1>5

(* The records of the requests. *)
LEMMA RequestRecords ==
  ASSUME ConvTypeOK
  PROVE  /\ IdleClaim \in Claims /\ IdleVisit \in Visits
         /\ \A a \in Agents :
               /\ claim[a] \in Claims
               /\ \A p \in {"take", "detach", "attach"} :
                     /\ [claim[a] EXCEPT !.pc = p] \in Claims
                     /\ [claim[a] EXCEPT !.pc = p].pc = p
                     /\ [claim[a] EXCEPT !.pc = p].conv = claim[a].conv
                     /\ [claim[a] EXCEPT !.pc = p].from = claim[a].from
         /\ \A r \in Requests :
               /\ visit[r] \in Visits
               /\ [visit[r] EXCEPT !.pc = "create"] \in Visits
<1>1. IdleClaim \in Claims /\ IdleVisit \in Visits
  BY DEF IdleClaim, IdleVisit, Claims, Visits
<1>2. ASSUME NEW a \in Agents PROVE claim[a] \in Claims
  BY DEF ConvTypeOK
<1>3. ASSUME NEW a \in Agents, NEW p \in {"take", "detach", "attach"}
      PROVE  /\ [claim[a] EXCEPT !.pc = p] \in Claims
             /\ [claim[a] EXCEPT !.pc = p].pc = p
             /\ [claim[a] EXCEPT !.pc = p].conv = claim[a].conv
             /\ [claim[a] EXCEPT !.pc = p].from = claim[a].from
  <2>1. [claim[a] EXCEPT !.pc = p] =
           [pc |-> p, conv |-> claim[a].conv, from |-> claim[a].from,
            active |-> claim[a].active]
    BY <1>2 DEF Claims
  <2>2. /\ claim[a].conv \in Convs \cup {0}
        /\ claim[a].from \in Agents \cup {NoOne}
        /\ claim[a].active \in BOOLEAN
    BY <1>2 DEF Claims
  <2>3. [pc |-> p, conv |-> claim[a].conv, from |-> claim[a].from,
         active |-> claim[a].active] \in Claims
    BY <2>2 DEF Claims
  <2> QED
    BY <2>1, <2>3
<1>4. ASSUME NEW r \in Requests
      PROVE  /\ visit[r] \in Visits
             /\ [visit[r] EXCEPT !.pc = "create"] \in Visits
  <2>1. visit[r] \in Visits
    BY DEF ConvTypeOK
  <2> QED
    BY <2>1 DEF Visits
<1> QED
  BY <1>1, <1>2, <1>3, <1>4

(* A budget stays a budget. *)
LEMMA UsedStaysUsed ==
  ASSUME ConvTypeOK, NEW b \in {"visits", "claims", "desk", "drops"}, NEW m, Use(b, m)
  PROVE  used' \in [{"visits", "claims", "desk", "drops"} -> Nat]
BY DEF ConvTypeOK, Use

(* Every step of every handler keeps the types. *)
LEMMA TypeStep ==
  ASSUME ConvInv, ConvStep
  PROVE  ConvTypeOK'
<1> USE DEF ConvInv
<1>1. ASSUME NEW a \in Agents, NEW i \in Convs, ClaimChecks(a, i) PROVE ConvTypeOK'
  <2>1. [IdleClaim EXCEPT !.pc = IF Owns(a, i) THEN "assign" ELSE "lookup", !.conv = i]
           \in Claims
    BY DEF IdleClaim, Claims
  <2>2. claim' \in [Agents -> Claims]
    BY <1>1, <2>1, RequestRecords DEF ClaimChecks, ConvTypeOK
  <2>3. used' \in [{"visits", "claims", "desk", "drops"} -> Nat]
    BY <1>1, UsedStaysUsed DEF ClaimChecks
  <2> QED
    BY <1>1, <2>2, <2>3, Observed DEF ClaimChecks, ConvTypeOK
<1>2. ASSUME NEW a \in Agents, ClaimLooksUp(a) PROVE ConvTypeOK'
  <2>1. claim[a].conv \in Convs
    BY <1>2 DEF ClaimLooksUp, ClaimsAreFounded, ClaimIsFounded
  <2>2. convs[claim[a].conv].owner \in Agents \cup {NoOne}
    BY <2>1 DEF ConvTypeOK, Conversation
  <2>3. [pc |-> "decide", conv |-> claim[a].conv, from |-> convs[claim[a].conv].owner,
         active |-> convs[claim[a].conv].owner \notin disabled] \in Claims
    BY <2>1, <2>2 DEF Claims
  <2>4. claim' \in [Agents -> Claims]
    BY <1>2, <2>3, RequestRecords DEF ClaimLooksUp, ConvTypeOK
  <2> QED
    BY <1>2, <2>4, Observed DEF ClaimLooksUp, ConvTypeOK
<1>3. ASSUME NEW a \in Agents, ClaimDecides(a) PROVE ConvTypeOK'
  <2>1. claim' \in [Agents -> Claims]
    BY <1>3, RequestRecords DEF ClaimDecides, ConvTypeOK
  <2> QED
    BY <1>3, <2>1, Observed DEF ClaimDecides, ConvTypeOK
<1>4. ASSUME NEW a \in Agents, ClaimTakes(a) PROVE ConvTypeOK'
  <2>1. claim[a].conv \in Convs
    BY <1>4 DEF ClaimTakes, ClaimsAreFounded, ClaimIsFounded
  <2>2. claim' \in [Agents -> Claims]
    <3>1. \/ claim' = [claim EXCEPT ![a] = [claim[a] EXCEPT !.pc = "detach"]]
          \/ claim' = [claim EXCEPT ![a] = IdleClaim]
      BY <1>4 DEF ClaimTakes
    <3>2. [claim[a] EXCEPT !.pc = "detach"] \in Claims /\ IdleClaim \in Claims
      BY RequestRecords DEF ConvTypeOK
    <3>3. claim \in [Agents -> Claims]
      BY DEF ConvTypeOK
    <3> QED
      BY <3>1, <3>2, <3>3
  <2>3. convs' \in [Convs -> Conversation]
    BY <1>4, <2>1, RowsStayRows DEF ClaimTakes, ConvTypeOK
  <2> QED
    BY <1>4, <2>2, <2>3, Observed DEF ClaimTakes, ConvTypeOK
<1>5. ASSUME NEW a \in Agents, ClaimDetaches(a) PROVE ConvTypeOK'
  <2>1. claim' \in [Agents -> Claims]
    BY <1>5, RequestRecords DEF ClaimDetaches, ConvTypeOK
  <2>2. bound' \in [Agents -> Convs \cup {0}]
    BY <1>5, RequestRecords DEF ClaimDetaches, ConvTypeOK, Claims
  <2> QED
    BY <1>5, <2>1, <2>2, Observed DEF ClaimDetaches, ConvTypeOK
<1>6. ASSUME NEW a \in Agents, ClaimAssigns(a) PROVE ConvTypeOK'
  <2>1. claim[a].conv \in Convs
    BY <1>6 DEF ClaimAssigns, ClaimsAreFounded, ClaimIsFounded
  <2>2. claim' \in [Agents -> Claims]
    BY <1>6, RequestRecords DEF ClaimAssigns, ConvTypeOK
  <2>3. convs' \in [Convs -> Conversation]
    <3>1. /\ convs[claim[a].conv].owner \in Agents \cup {NoOne}
          /\ a \in Agents \cup {NoOne}
      BY <2>1 DEF ConvTypeOK, Conversation
    <3>2. \E o \in Agents \cup {NoOne} : convs' = [convs EXCEPT ![claim[a].conv].owner = o]
      BY <1>6, <3>1 DEF ClaimAssigns
    <3> QED
      BY <2>1, <3>2, RowsStayRows
  <2> QED
    BY <1>6, <2>2, <2>3, Observed DEF ClaimAssigns, ConvTypeOK
<1>7. ASSUME NEW a \in Agents, ClaimAttaches(a) PROVE ConvTypeOK'
  <2>1. claim' \in [Agents -> Claims]
    BY <1>7, RequestRecords DEF ClaimAttaches, ConvTypeOK
  <2>2. bound' \in [Agents -> Convs \cup {0}]
    BY <1>7, RequestRecords DEF ClaimAttaches, ConvTypeOK, Claims
  <2> QED
    BY <1>7, <2>1, <2>2, Observed DEF ClaimAttaches, ConvTypeOK
<1>8. ASSUME NEW a \in Agents, AgentConnects(a) PROVE ConvTypeOK'
  BY <1>8, Observed DEF AgentConnects, ConvTypeOK
<1>9. ASSUME NEW a \in Agents, AgentLeaves(a) PROVE ConvTypeOK'
  BY <1>9, Observed DEF AgentLeaves, ConvTypeOK, Use
<1>10. ASSUME NEW a \in Agents, AgentIsDisabled(a) PROVE ConvTypeOK'
  BY <1>10, Observed DEF AgentIsDisabled, ConvTypeOK, Use
<1>11. ASSUME NEW a \in Agents, NEW i \in Convs, CloseChecks(a, i) PROVE ConvTypeOK'
  BY <1>11, Observed DEF CloseChecks, ConvTypeOK, Use
<1>12. ASSUME NEW a \in Agents, CloseApplies(a) PROVE ConvTypeOK'
  BY <1>12, Observed, CloseKeepsRows DEF CloseApplies, ConvTypeOK
<1>13. ASSUME NEW a \in Agents, AgentReads(a) PROVE ConvTypeOK'
  BY <1>13, Observed, RowsStayRows DEF AgentReads, ConvTypeOK
<1>26. ASSUME NEW a \in Agents, NEW i \in Convs, ReadChecks(a, i) PROVE ConvTypeOK'
  BY <1>26, Observed DEF ReadChecks, ConvTypeOK, Use
<1>14. ASSUME NEW v \in Visitors, DeleteVisitor(v) PROVE ConvTypeOK'
  <2>1. convs' \in [Convs -> Conversation]
    BY <1>14, RowsStayRows DEF DeleteVisitor, ConvTypeOK, Statuses
  <2>2. used' \in [{"visits", "claims", "desk", "drops"} -> Nat]
    BY <1>14, UsedStaysUsed DEF DeleteVisitor
  <2> QED
    BY <1>14, <2>1, <2>2, Observed DEF DeleteVisitor, ConvTypeOK
<1>15. ASSUME NEW v \in Visitors, RestoreVisitor(v) PROVE ConvTypeOK'
  <2>1. convs' \in [Convs -> Conversation]
    BY <1>15, RowsStayRows DEF RestoreVisitor, ConvTypeOK, Statuses
  <2>2. used' \in [{"visits", "claims", "desk", "drops"} -> Nat]
    BY <1>15, UsedStaysUsed DEF RestoreVisitor
  <2> QED
    BY <1>15, <2>1, <2>2, Observed DEF RestoreVisitor, ConvTypeOK
<1>16. ASSUME PurgeLists PROVE ConvTypeOK'
  BY <1>16, Observed DEF PurgeLists, ConvTypeOK, Use
<1>17. ASSUME PurgeApplies PROVE ConvTypeOK'
  BY <1>17, Observed, RowsStayRows DEF PurgeApplies, ConvTypeOK, Statuses
<1>18. ASSUME NEW r \in Requests, NEW v \in Visitors, SessionFinds(r, v) PROVE ConvTypeOK'
  <2>1. \A i \in Convs : convs[i].owner \in Agents \cup {NoOne}
    BY DEF ConvTypeOK, Conversation
  <2>2. \A p \in {"close", "create", "open", "join"}, i \in Convs \cup {0},
           o \in Agents \cup {NoOne} :
           [pc |-> p, visitor |-> v, conv |-> i, owner |-> o] \in Visits
    BY DEF Visits
  <2>3. \E w \in Visits : visit' = [visit EXCEPT ![r] = w]
    BY <1>18, <2>1, <2>2 DEF SessionFinds
  <2>5. visit' \in [Requests -> Visits]
    BY <2>3 DEF ConvTypeOK
  <2>4. used' \in [{"visits", "claims", "desk", "drops"} -> Nat]
    BY <1>18, UsedStaysUsed DEF SessionFinds
  <2> QED
    BY <1>18, <2>5, <2>4, Observed DEF SessionFinds, ConvTypeOK
<1>19. ASSUME NEW r \in Requests, SessionCloses(r) PROVE ConvTypeOK'
  <2>1. visit' \in [Requests -> Visits]
    BY <1>19, RequestRecords DEF SessionCloses, ConvTypeOK
  <2>2. convs' \in [Convs -> Conversation]
    BY <1>19, CloseKeepsRows DEF SessionCloses
  <2> QED
    BY <1>19, <2>1, <2>2, Observed DEF SessionCloses, ConvTypeOK
<1>20. ASSUME NEW r \in Requests, SessionCreates(r) PROVE ConvTypeOK'
  <2>1. visit[r].visitor \in Visitors /\ visit[r].owner \in Agents \cup {NoOne}
    BY <1>20 DEF SessionCreates, VisitsAreFounded, ConvTypeOK, Visits
  <2>2. convs' \in [Convs -> Conversation]
    BY <1>20, <2>1, RowsStayRows DEF SessionCreates
  <2> QED
    BY <1>20, <2>2, Observed, RequestRecords DEF SessionCreates, ConvTypeOK
<1>21. ASSUME NEW r \in Requests, NEW v \in Visitors, ConnectFinds(r, v) PROVE ConvTypeOK'
  <2>1. \A i \in Convs : convs[i].owner \in Agents \cup {NoOne}
    BY DEF ConvTypeOK, Conversation
  <2>2. \A p \in {"close", "create", "open", "join"}, i \in Convs \cup {0},
           o \in Agents \cup {NoOne} :
           [pc |-> p, visitor |-> v, conv |-> i, owner |-> o] \in Visits
    BY DEF Visits
  <2>3. \E w \in Visits : visit' = [visit EXCEPT ![r] = w]
    BY <1>21, <2>1, <2>2 DEF ConnectFinds
  <2>5. visit' \in [Requests -> Visits]
    BY <2>3 DEF ConvTypeOK
  <2>4. used' \in [{"visits", "claims", "desk", "drops"} -> Nat]
    BY <1>21, UsedStaysUsed DEF ConnectFinds
  <2> QED
    BY <1>21, <2>5, <2>4, Observed DEF ConnectFinds, ConvTypeOK
<1>22. ASSUME NEW r \in Requests, ConnectOpens(r) PROVE ConvTypeOK'
  <2>1. visit[r].visitor \in Visitors
    BY <1>22 DEF ConnectOpens, VisitsAreFounded
  <2>2. convs' \in [Convs -> Conversation]
    BY <1>22, <2>1, RowsStayRows DEF ConnectOpens
  <2>3. visit' \in [Requests -> Visits]
    <3>1. \A i \in Convs : [pc |-> "join", visitor |-> visit[r].visitor, conv |-> i,
                            owner |-> NoOne] \in Visits
      BY <2>1 DEF Visits
    <3> QED
      BY <1>22, <3>1 DEF ConnectOpens, ConvTypeOK
  <2> QED
    BY <1>22, <2>2, <2>3, Observed DEF ConnectOpens, ConvTypeOK
<1>23. ASSUME NEW r \in Requests, ConnectJoins(r) PROVE ConvTypeOK'
  <2>1. seat' \in [Visitors -> Convs \cup {0}]
    BY <1>23 DEF ConnectJoins, ConvTypeOK, Visits
  <2> QED
    BY <1>23, <2>1, Observed, RequestRecords, SMTT(30) DEF ConnectJoins, ConvTypeOK
<1>24. ASSUME NEW v \in Visitors, VisitorLeaves(v) PROVE ConvTypeOK'
  BY <1>24, Observed DEF VisitorLeaves, ConvTypeOK
<1>25. ASSUME NEW v \in Visitors, VisitorWrites(v) PROVE ConvTypeOK'
  <2>1. seat[v] \in Convs /\ convs[seat[v]].unread + 1 \in Nat
    BY <1>25 DEF VisitorWrites, ConvTypeOK, Conversation
  <2>2. convs' \in [Convs -> Conversation]
    BY <1>25, <2>1, RowsStayRows DEF VisitorWrites
  <2> QED
    BY <1>25, <2>2, Observed DEF VisitorWrites, ConvTypeOK
<1> QED
  BY <1>1, <1>2, <1>3, <1>4, <1>5, <1>6, <1>7, <1>8, <1>9, <1>10, <1>11, <1>12, <1>13,
     <1>14, <1>15, <1>16, <1>17, <1>18, <1>19, <1>20, <1>21, <1>22, <1>23, <1>24, <1>25, <1>26
     DEF ConvStep, ConvNext, QuietNext, SharedNext, ClaimNext, DeskNext, PresenceNext, VisitNext

(* A step keeps its foundation if each claim either ends, or goes on with   *)
(* what it had, or is founded anew.                                         *)
LEMMA ClaimsStep ==
  ASSUME ConvInv, ConvStep, ConvTypeOK'
  PROVE  ClaimsAreFounded'
<1> USE DEF ConvInv
<1>1. ASSUME Observe
      PROVE  \A a \in Agents : claim'[a].pc # "idle" =>
               /\ away[a] \subseteq away'[a]
               /\ entitled[a] \subseteq entitled'[a]
               /\ Gone \subseteq away'[a]
               /\ {i \in Convs : Owns(a, i)} \subseteq entitled'[a]
  BY <1>1, Observed DEF ConvTypeOK
<1>2. ASSUME Observe, UNCHANGED claim PROVE ClaimsAreFounded'
  BY <1>1, <1>2 DEF ClaimsAreFounded, ClaimIsFounded
<1>3. ASSUME NEW b \in Agents, Observe, ClaimIsFounded(b)',
             \A a \in Agents \ {b} : claim'[a] = claim[a]
      PROVE  ClaimsAreFounded'
  BY <1>1, <1>3 DEF ClaimsAreFounded, ClaimIsFounded
<1>4. ASSUME NEW a \in Agents, NEW i \in Convs, ClaimChecks(a, i) PROVE ClaimsAreFounded'
  <2>1. /\ claim'[a].pc = IF Owns(a, i) THEN "assign" ELSE "lookup"
        /\ claim'[a].conv = i
    BY <1>4 DEF ClaimChecks, ConvTypeOK, IdleClaim
  <2>2. ClaimIsFounded(a)'
    BY <1>1, <1>4, <2>1 DEF ClaimChecks, ClaimIsFounded
  <2> QED
    BY <1>3, <1>4, <2>2 DEF ClaimChecks, ConvTypeOK
<1>5. ASSUME NEW a \in Agents, ClaimLooksUp(a) PROVE ClaimsAreFounded'
  <2> DEFINE i == claim[a].conv
  <2>1. /\ i \in Convs /\ convs[i].owner \in Agents \cup {NoOne}
        /\ claim[a].pc = "lookup"
    BY <1>5 DEF ClaimLooksUp, ClaimsAreFounded, ClaimIsFounded, ConvTypeOK, Conversation
  <2>4. ClaimIsFounded(a)'
    <3>1. CASE Live(i) /\ convs[i].owner # NoOne
      <4>1. claim'[a] = [pc |-> "decide", conv |-> i, from |-> convs[i].owner,
                         active |-> convs[i].owner \notin disabled]
        BY <1>5, <3>1 DEF ClaimLooksUp, ConvTypeOK
      <4>2. /\ claim'[a].pc = "decide" /\ claim'[a].conv = i
            /\ claim'[a].from = convs[i].owner
            /\ claim'[a].active = (convs[i].owner \notin disabled)
        BY <4>1
      <4>3. Gone \subseteq away'[a]
        BY <1>1, <1>5, <4>2 DEF ClaimLooksUp
      <4>4. convs[i].owner \in Agents /\ (~claim'[a].active => convs[i].owner \in Gone)
        BY <2>1, <3>1, <4>2 DEF Gone
      <4> QED
        BY <2>1, <4>2, <4>3, <4>4 DEF ClaimIsFounded
    <3>2. CASE ~(Live(i) /\ convs[i].owner # NoOne)
      BY <1>5, <3>2 DEF ClaimLooksUp, ConvTypeOK, ClaimIsFounded, IdleClaim
    <3> QED
      BY <3>1, <3>2
  <2> QED
    BY <1>3, <1>5, <2>4 DEF ClaimLooksUp, ConvTypeOK
<1>6. ASSUME NEW a \in Agents, ClaimDecides(a) PROVE ClaimsAreFounded'
  <2>1. claim[a].conv \in Convs /\ claim[a].from \in Agents
    BY <1>6 DEF ClaimDecides, ClaimsAreFounded, ClaimIsFounded
  <2>2. ClaimIsFounded(a)'
    <3>1. CASE a \in Admins \/ ~claim[a].active \/ claim[a].from \notin online
      <4>1. /\ claim'[a].pc = "take" /\ claim'[a].conv = claim[a].conv
            /\ claim'[a].from = claim[a].from
        BY <1>6, <3>1, RequestRecords DEF ClaimDecides, ConvTypeOK
      <4>2. a \in Admins \/ claim[a].from \in away[a] \/ claim[a].from \in Gone
        BY <1>6, <2>1, <3>1 DEF ClaimDecides, ClaimsAreFounded, ClaimIsFounded, Gone
      <4> QED
        BY <1>1, <1>6, <2>1, <4>1, <4>2 DEF ClaimDecides, ClaimIsFounded
    <3>2. CASE ~(a \in Admins \/ ~claim[a].active \/ claim[a].from \notin online)
      BY <1>6, <3>2 DEF ClaimDecides, ConvTypeOK, ClaimIsFounded, IdleClaim
    <3> QED
      BY <3>1, <3>2
  <2> QED
    BY <1>3, <1>6, <2>2 DEF ClaimDecides, ConvTypeOK
<1>7. ASSUME NEW a \in Agents, ClaimTakes(a) PROVE ClaimsAreFounded'
  <2>1. claim[a].conv \in Convs /\ claim[a].from \in Agents
    BY <1>7 DEF ClaimTakes, ClaimsAreFounded, ClaimIsFounded
  <2>2. ClaimIsFounded(a)'
    <3>1. CASE Live(claim[a].conv) /\ convs[claim[a].conv].owner = claim[a].from
      <4>1. /\ claim'[a].pc = "detach" /\ claim'[a].conv = claim[a].conv
            /\ claim'[a].from = claim[a].from
        BY <1>7, <3>1, RequestRecords, ZenonT(30) DEF ClaimTakes, ConvTypeOK
      <4> QED
        BY <2>1, <4>1 DEF ClaimIsFounded
    <3>2. CASE ~(Live(claim[a].conv) /\ convs[claim[a].conv].owner = claim[a].from)
      BY <1>7, <3>2 DEF ClaimTakes, ConvTypeOK, ClaimIsFounded, IdleClaim
    <3> QED
      BY <3>1, <3>2
  <2> QED
    BY <1>3, <1>7, <2>2 DEF ClaimTakes, ConvTypeOK
<1>8. ASSUME NEW a \in Agents, ClaimDetaches(a) PROVE ClaimsAreFounded'
  <2>1. claim[a].conv \in Convs
    BY <1>8 DEF ClaimDetaches, ClaimsAreFounded, ClaimIsFounded
  <2>2. ClaimIsFounded(a)'
    BY <1>8, <2>1, RequestRecords DEF ClaimDetaches, ConvTypeOK, ClaimIsFounded
  <2> QED
    BY <1>3, <1>8, <2>2 DEF ClaimDetaches, ConvTypeOK
<1>9. ASSUME NEW a \in Agents, ClaimAssigns(a) PROVE ClaimsAreFounded'
  <2>1. claim[a].conv \in Convs
    BY <1>9 DEF ClaimAssigns, ClaimsAreFounded, ClaimIsFounded
  <2>2. ClaimIsFounded(a)'
    BY <1>9, <2>1, RequestRecords DEF ClaimAssigns, ConvTypeOK, ClaimIsFounded
  <2> QED
    BY <1>3, <1>9, <2>2 DEF ClaimAssigns, ConvTypeOK
<1>10. ASSUME NEW a \in Agents, ClaimAttaches(a) PROVE ClaimsAreFounded'
  <2>1. ClaimIsFounded(a)'
    BY <1>10 DEF ClaimAttaches, ConvTypeOK, ClaimIsFounded, IdleClaim
  <2> QED
    BY <1>3, <1>10, <2>1 DEF ClaimAttaches, ConvTypeOK
<1>11. ASSUME DeskNext \/ PresenceNext \/ VisitNext \/ SharedNext
             \/ \E v \in Visitors : VisitorWrites(v)
       PROVE  Observe /\ UNCHANGED claim
  BY <1>11 DEF DeskNext, PresenceNext, VisitNext, SharedNext, CloseChecks, CloseApplies,
     ReadChecks, AgentReads, DeleteVisitor, RestoreVisitor, PurgeLists, PurgeApplies,
     AgentConnects, AgentLeaves,
     AgentIsDisabled, SessionFinds, SessionCloses, SessionCreates, ConnectFinds,
     ConnectOpens, ConnectJoins, VisitorLeaves, VisitorWrites
<1> QED
  BY <1>2, <1>4, <1>5, <1>6, <1>7, <1>8, <1>9, <1>10, <1>11
     DEF ConvStep, ConvNext, QuietNext, ClaimNext

(* A request in progress knows its visitor. *)
LEMMA VisitsStep ==
  ASSUME ConvInv, ConvStep
  PROVE  VisitsAreFounded'
<1> USE DEF ConvInv
<1>1. ASSUME NEW r \in Requests, NEW v \in Visitors, SessionFinds(r, v) \/ ConnectFinds(r, v)
      PROVE  VisitsAreFounded'
  BY <1>1 DEF SessionFinds, ConnectFinds, VisitsAreFounded, ConvTypeOK
<1>2. ASSUME NEW r \in Requests, SessionCreates(r) \/ ConnectJoins(r)
      PROVE  VisitsAreFounded'
  BY <1>2 DEF SessionCreates, ConnectJoins, VisitsAreFounded, ConvTypeOK, IdleVisit
<1>3. ASSUME NEW r \in Requests, SessionCloses(r) PROVE VisitsAreFounded'
  <2>1. visit[r] \in Visits /\ visit[r].visitor \in Visitors
    BY <1>3 DEF SessionCloses, VisitsAreFounded, ConvTypeOK
  <2>2. visit'[r].visitor = visit[r].visitor
    BY <1>3, <2>1 DEF SessionCloses, ConvTypeOK, Visits
  <2> QED
    BY <1>3, <2>1, <2>2 DEF SessionCloses, VisitsAreFounded, ConvTypeOK
<1>4. ASSUME NEW r \in Requests, ConnectOpens(r) PROVE VisitsAreFounded'
  <2>1. visit[r].visitor \in Visitors
    BY <1>4 DEF ConnectOpens, VisitsAreFounded
  <2> QED
    BY <1>4, <2>1 DEF ConnectOpens, VisitsAreFounded, ConvTypeOK
<1>5. ASSUME \/ ClaimNext \/ DeskNext \/ PresenceNext \/ PurgeApplies
             \/ \E a \in Agents : AgentConnects(a)
             \/ \E v \in Visitors : VisitorWrites(v) \/ VisitorLeaves(v)
      PROVE  UNCHANGED visit
  BY <1>5 DEF ClaimNext, DeskNext, PresenceNext, CloseChecks, CloseApplies,
     ReadChecks, AgentReads, DeleteVisitor, RestoreVisitor, PurgeLists, PurgeApplies,
     AgentConnects, AgentLeaves,
     AgentIsDisabled, ClaimChecks, ClaimLooksUp, ClaimDecides, ClaimTakes, ClaimDetaches,
     ClaimAssigns, ClaimAttaches, VisitorLeaves, VisitorWrites
<1>6. ASSUME UNCHANGED visit PROVE VisitsAreFounded'
  BY <1>6 DEF VisitsAreFounded
<1> QED
  BY <1>1, <1>2, <1>3, <1>4, <1>5, <1>6 DEF ConvStep, ConvNext, QuietNext, VisitNext, SharedNext

(* It holds at the start. *)
LEMMA ConvInitially == ConvInit => ConvInv
BY DEF ConvInit, ConvInv, ConvTypeOK, ClaimsAreFounded, ClaimIsFounded, VisitsAreFounded,
   IdleClaim, IdleVisit, Claims, Visits

(* ConvInv is inductive. *)
LEMMA ConvInvariant == ConvSpec => []ConvInv
<1>1. ConvInit => ConvInv
  BY ConvInitially
<1>2. ConvInv /\ [ConvStep]_convVars => ConvInv'
  <2> SUFFICES ASSUME ConvInv, [ConvStep]_convVars PROVE ConvInv'
    OBVIOUS
  <2>1. CASE ConvStep
    BY <2>1, TypeStep, ClaimsStep, VisitsStep DEF ConvInv
  <2>2. CASE UNCHANGED convVars
    BY <2>2 DEF ConvInv, ConvTypeOK, ClaimsAreFounded, ClaimIsFounded, VisitsAreFounded
  <2> QED
    BY <2>1, <2>2
<1> QED
  BY <1>1, <1>2, PTL DEF ConvSpec, ConvStep

(***************************************************************************)
(* The state of the conversations, the connections and the requests is     *)
(* well formed, whatever the handlers interleave.                          *)
(***************************************************************************)
THEOREM ConvTypeCorrect == ConvSpec => []ConvTypeOK
BY ConvInvariant, PTL DEF ConvInv

(* Only the updates of AssignSelf change the agent of an existing row.     *)
LEMMA OnlyClaimsMoveRows ==
  ASSUME ConvTypeOK, DeskNext \/ PresenceNext \/ VisitNext \/ SharedNext
                     \/ \E v \in Visitors : VisitorWrites(v)
  PROVE  \A i \in Convs : convs[i].status # "none" => convs'[i].owner = convs[i].owner
<1>1. ASSUME NEW k \in Convs, NEW v, NEW o, IsNextConv(k), Create(k, v, o)
      PROVE  \A i \in Convs : convs[i].status # "none" => convs'[i].owner = convs[i].owner
  BY <1>1 DEF IsNextConv, Create, ConvTypeOK
<1>2. ASSUME NEW k, Close(k)
      PROVE  \A i \in Convs : convs'[i].owner = convs[i].owner
  BY <1>2 DEF Close, ConvTypeOK, Conversation
<1>3. ASSUME NEW a \in Agents, AgentReads(a)
      PROVE  \A j \in Convs : convs'[j].owner = convs[j].owner
  BY <1>3 DEF AgentReads, ConvTypeOK, Conversation
<1>4. ASSUME NEW v \in Visitors, DeleteVisitor(v) \/ RestoreVisitor(v)
      PROVE  \A i \in Convs : convs'[i].owner = convs[i].owner
  <2>1. \A i \in Convs : \E st : convs'[i] \in {convs[i], [convs[i] EXCEPT !.status = st]}
    BY <1>4 DEF DeleteVisitor, RestoreVisitor
  <2>2. \A i \in Convs : convs[i] \in Conversation
    BY DEF ConvTypeOK
  <2> QED
    BY <2>1, <2>2 DEF Conversation
<1>5. ASSUME PurgeApplies
      PROVE  \A i \in Convs : convs'[i].owner = convs[i].owner
  BY <1>5 DEF PurgeApplies, ConvTypeOK, Conversation
<1>6. ASSUME NEW v \in Visitors, VisitorWrites(v)
      PROVE  \A i \in Convs : convs'[i].owner = convs[i].owner
  BY <1>6 DEF VisitorWrites, ConvTypeOK, Conversation
<1>7. CASE DeskNext
  BY <1>2, <1>3, <1>4, <1>7 DEF DeskNext, CloseChecks, CloseApplies, ReadChecks,
     PurgeLists
<1>8. CASE PresenceNext
  BY <1>8 DEF PresenceNext, AgentLeaves, AgentIsDisabled, VisitorLeaves
<1>9. CASE VisitNext
  BY <1>1, <1>2, <1>9 DEF VisitNext, SessionFinds, SessionCloses, SessionCreates,
     ConnectFinds, ConnectOpens
<1>10. CASE SharedNext
  BY <1>5, <1>10 DEF SharedNext, AgentConnects, ConnectJoins
<1> QED
  BY <1>6, <1>7, <1>8, <1>9, <1>10

(***************************************************************************)
(* AssignSelf never seizes a conversation: its winner is an administrator, *)
(* or the loser was away, or the conversation was open to the winner, at   *)
(* some moment since the request came in.                                  *)
(***************************************************************************)
THEOREM ConvNotSeized == ConvSpec => OwnershipIsNotSeized
<1> DEFINE Fair == \A i \in Convs :
              LET loser == convs[i].owner
                  winner == convs'[i].owner
              IN  convs[i].status # "none" /\ winner # loser =>
                     \/ winner \in Admins
                     \/ loser \in away[winner]
                     \/ i \in entitled[winner]
<1>1. ASSUME ConvInv, ConvStep PROVE Fair
  <2>1. ASSUME NEW a \in Agents, ClaimTakes(a) PROVE Fair
    <3>1. /\ claim[a].conv \in Convs
          /\ a \in Admins \/ claim[a].from \in away[a]
      BY <1>1, <2>1 DEF ClaimTakes, ConvInv, ClaimsAreFounded, ClaimIsFounded
    <3>2. CASE Live(claim[a].conv) /\ convs[claim[a].conv].owner = claim[a].from
      <4>1. convs' = [convs EXCEPT ![claim[a].conv].owner = a]
        BY <2>1, <3>2 DEF ClaimTakes
      <4>2. /\ \A j \in Convs : j # claim[a].conv => convs'[j] = convs[j]
            /\ convs'[claim[a].conv].owner = a
        BY <1>1, <3>1, <4>1 DEF ConvInv, ConvTypeOK, Conversation
      <4> QED
        BY <3>1, <3>2, <4>2
    <3>3. CASE ~(Live(claim[a].conv) /\ convs[claim[a].conv].owner = claim[a].from)
      BY <2>1, <3>3 DEF ClaimTakes
    <3> QED
      BY <3>2, <3>3
  <2>2. ASSUME NEW a \in Agents, ClaimAssigns(a) PROVE Fair
    <3>1. claim[a].conv \in Convs /\ claim[a].conv \in entitled[a]
      BY <1>1, <2>2 DEF ClaimAssigns, ConvInv, ClaimsAreFounded, ClaimIsFounded
    <3>2. /\ \A j \in Convs : j # claim[a].conv => convs'[j] = convs[j]
          /\ convs'[claim[a].conv].owner \in {a, convs[claim[a].conv].owner}
      BY <1>1, <2>2, <3>1 DEF ClaimAssigns, ConvInv, ConvTypeOK, Conversation
    <3> QED
      BY <3>1, <3>2
  <2>3. ASSUME NEW a \in Agents,
               \/ \E i \in Convs : ClaimChecks(a, i)
               \/ ClaimLooksUp(a) \/ ClaimDecides(a) \/ ClaimDetaches(a) \/ ClaimAttaches(a)
        PROVE  Fair
    BY <2>3 DEF ClaimChecks, ClaimLooksUp, ClaimDecides, ClaimDetaches, ClaimAttaches
  <2>4. ASSUME DeskNext \/ PresenceNext \/ VisitNext \/ SharedNext
             \/ \E v \in Visitors : VisitorWrites(v)
        PROVE  Fair
    BY <1>1, <2>4, OnlyClaimsMoveRows DEF ConvInv
  <2> QED
    BY <1>1, <2>1, <2>2, <2>3, <2>4 DEF ConvStep, ConvNext, QuietNext, ClaimNext
<1>2. ConvInv /\ [ConvStep]_convVars => [Fair]_convVars
  BY <1>1
<1> QED
  BY <1>2, ConvInvariant, PTL DEF ConvSpec, ConvStep, OwnershipIsNotSeized

(***************************************************************************)
(* The purge destroys only rows that are in the recycle bin when it        *)
(* deletes them.                                                           *)
(***************************************************************************)
THEOREM ConvPurgeSparesRestored == ConvSpec => PurgeSparesRestored
<1> DEFINE Spared == \A i \in Convs : convs'[i].status = "purged" =>
                        convs[i].status \in {"deleted", "purged"}
<1>1. ASSUME ConvTypeOK, ConvStep PROVE Spared
  <2>1. ASSUME NEW k \in Convs, NEW v, NEW o, Create(k, v, o) PROVE Spared
    BY <1>1, <2>1 DEF Create, ConvTypeOK
  <2>2. ASSUME NEW k, Close(k) PROVE Spared
    BY <1>1, <2>2 DEF Close, ConvTypeOK, Conversation
  <2>3. ASSUME NEW a \in Agents, AgentReads(a) PROVE Spared
    BY <1>1, <2>3 DEF AgentReads, ConvTypeOK, Conversation
  <2>4. ASSUME NEW v \in Visitors, DeleteVisitor(v) \/ RestoreVisitor(v) PROVE Spared
    BY <1>1, <2>4 DEF DeleteVisitor, RestoreVisitor, ConvTypeOK, Conversation
  <2>5. ASSUME PurgeApplies PROVE Spared
    BY <1>1, <2>5 DEF PurgeApplies, ConvTypeOK, Conversation
  <2>6. ASSUME NEW v \in Visitors, VisitorWrites(v) PROVE Spared
    BY <1>1, <2>6 DEF VisitorWrites, ConvTypeOK, Conversation
  <2>7. ASSUME NEW a \in Agents, ClaimTakes(a) \/ ClaimAssigns(a) PROVE Spared
    <3>1. \E k, o : convs' = [convs EXCEPT ![k].owner = o] \/ convs' = convs
      BY <2>7 DEF ClaimTakes, ClaimAssigns
    <3>2. PICK k, o : convs' = [convs EXCEPT ![k].owner = o] \/ convs' = convs
      BY <3>1
    <3>3. \A i \in Convs : convs'[i].status = convs[i].status
      BY <1>1, <3>2, SMTT(30) DEF ConvTypeOK, Conversation
    <3> QED
      BY <3>3
  <2>8. ASSUME UNCHANGED convs PROVE Spared
    BY <2>8
  <2>9. CASE ClaimNext
    BY <2>7, <2>8, <2>9 DEF ClaimNext, ClaimChecks, ClaimLooksUp, ClaimDecides,
       ClaimDetaches, ClaimAttaches
  <2>10. CASE DeskNext
    BY <2>2, <2>3, <2>4, <2>8, <2>10 DEF DeskNext, CloseChecks, CloseApplies, ReadChecks,
     PurgeLists
  <2>11. CASE PresenceNext
    BY <2>8, <2>11 DEF PresenceNext, AgentLeaves, AgentIsDisabled, VisitorLeaves
  <2>12. CASE VisitNext
    BY <2>1, <2>2, <2>8, <2>12 DEF VisitNext, SessionFinds, SessionCloses, SessionCreates,
       ConnectFinds, ConnectOpens
  <2>13. CASE SharedNext
    BY <2>5, <2>8, <2>13 DEF SharedNext, AgentConnects, ConnectJoins
  <2> QED
    BY <1>1, <2>6, <2>9, <2>10, <2>11, <2>12, <2>13 DEF ConvStep, ConvNext, QuietNext
<1>2. ConvTypeOK /\ [ConvStep]_convVars => [Spared]_convVars
  BY <1>1
<1> QED
  BY <1>2, ConvTypeCorrect, PTL DEF ConvSpec, ConvStep, PurgeSparesRestored

=============================================================================
