------------------------- MODULE QueryFlightProofs -------------------------
(***************************************************************************)
(* Proofs about QueryFlight for every set of requests and keys.  The       *)
(* strengthening FlightInv says what the mutex protects: the map holds     *)
(* exactly the flights whose query is running or whose outcome is written  *)
(* but not yet released, each under its own key; a waiter points at a      *)
(* flight of its key; a closed channel means a finished leader.            *)
(***************************************************************************)
EXTENDS QueryFlight, TLAPS

Leading(r) == pc[r] \in {"run", "filled", "released"}

MapHoldsRunningFlights ==
    \A k \in Keys : calls[k] # NoFlight =>
        Running(calls[k]) /\ keyOf[calls[k]] = k

RunningFlightsAreInTheMap ==
    \A r \in Requests : Running(r) =>
        keyOf[r] \in Keys /\ calls[keyOf[r]] = r

LeadersLeadThemselves ==
    \A r \in Requests : Leading(r) \/ r \in done =>
        /\ flightOf[r] = r
        /\ keyOf[r] \in Keys
        /\ seen[r] <= version[keyOf[r]]

FilledIsFresh ==
    \A r \in Requests : pc[r] \in {"filled", "released"} \/ r \in done =>
        val[r] = Failed \/ (val[r] \in Versions /\ val[r] >= seen[r])

ClosedMeansFinished ==
    \A r \in done : pc[r] = "done" /\ result[r] = val[r]

WaitersFollowAFlight ==
    \A r \in Requests : pc[r] = "wait" =>
        /\ flightOf[r] \in Requests
        /\ keyOf[flightOf[r]] = keyOf[r]
        /\ Leading(flightOf[r]) \/ flightOf[r] \in done

AnswersComeFromClosedFlights ==
    \A r \in Requests : pc[r] = "done" /\ result[r] # Cancelled =>
        /\ flightOf[r] \in done
        /\ keyOf[flightOf[r]] = keyOf[r]
        /\ result[r] = val[flightOf[r]]

FlightInv ==
    /\ TypeOK
    /\ MapHoldsRunningFlights
    /\ RunningFlightsAreInTheMap
    /\ LeadersLeadThemselves
    /\ FilledIsFresh
    /\ ClosedMeansFinished
    /\ WaitersFollowAFlight
    /\ AnswersComeFromClosedFlights

-----------------------------------------------------------------------------
USE FlightAssumption DEF Versions, Outcome, Running, Leading

(* The initial state satisfies the strengthening. *)
LEMMA InitFlightInv == Init => FlightInv
<1> SUFFICES ASSUME Init PROVE FlightInv
  OBVIOUS
<1>1. TypeOK
  BY DEF Init, TypeOK
<1>2. MapHoldsRunningFlights /\ RunningFlightsAreInTheMap /\ LeadersLeadThemselves
  BY DEF Init, MapHoldsRunningFlights, RunningFlightsAreInTheMap, LeadersLeadThemselves
<1>3. FilledIsFresh /\ ClosedMeansFinished /\ WaitersFollowAFlight
      /\ AnswersComeFromClosedFlights
  BY DEF Init, FilledIsFresh, ClosedMeansFinished, WaitersFollowAFlight,
         AnswersComeFromClosedFlights
<1> QED
  BY <1>1, <1>2, <1>3 DEF FlightInv

(* A commit by another part of the backend only makes the rows newer. *)
LEMMA WriteFlightInv ==
  ASSUME FlightInv, NEW k \in Keys, Write(k)
  PROVE  FlightInv'
<1> USE DEF FlightInv, Write
<1>1. TypeOK'
  BY DEF TypeOK
<1>2. LeadersLeadThemselves'
  BY DEF TypeOK, LeadersLeadThemselves
<1> QED
  BY <1>1, <1>2 DEF MapHoldsRunningFlights, RunningFlightsAreInTheMap, FilledIsFresh,
       ClosedMeansFinished, WaitersFollowAFlight, AnswersComeFromClosedFlights

(* Joining adds a waiter of the flight the map names. *)
LEMMA JoinFlightInv ==
  ASSUME FlightInv, NEW r \in Requests, NEW k \in Keys, Join(r, k)
  PROVE  FlightInv'
<1> USE DEF FlightInv, Join
<1>1. TypeOK'
  BY DEF TypeOK
<1>2. calls[k] \in Requests /\ Running(calls[k]) /\ keyOf[calls[k]] = k /\ calls[k] # r
  BY DEF TypeOK, MapHoldsRunningFlights
<1>3. r \notin done
  BY DEF ClosedMeansFinished
<1>4. MapHoldsRunningFlights' /\ RunningFlightsAreInTheMap'
  BY <1>2 DEF TypeOK, MapHoldsRunningFlights, RunningFlightsAreInTheMap
<1>5. LeadersLeadThemselves' /\ FilledIsFresh' /\ ClosedMeansFinished'
  BY <1>3 DEF TypeOK, LeadersLeadThemselves, FilledIsFresh, ClosedMeansFinished
<1>6. WaitersFollowAFlight'
  BY <1>2, <1>3 DEF TypeOK, WaitersFollowAFlight
<1>7. AnswersComeFromClosedFlights'
  BY <1>3 DEF TypeOK, AnswersComeFromClosedFlights
<1> QED
  BY <1>1, <1>4, <1>5, <1>6, <1>7

(* The leader enters its flight in the map in the same critical section. *)
LEMMA LeadFlightInv ==
  ASSUME FlightInv, NEW r \in Requests, NEW k \in Keys, Lead(r, k)
  PROVE  FlightInv'
<1> USE DEF FlightInv, Lead
<1>1. TypeOK'
  BY DEF TypeOK
<1>2. r \notin done
  BY DEF ClosedMeansFinished
<1>3. MapHoldsRunningFlights' /\ RunningFlightsAreInTheMap'
  BY DEF TypeOK, MapHoldsRunningFlights, RunningFlightsAreInTheMap
<1>4. LeadersLeadThemselves' /\ FilledIsFresh' /\ ClosedMeansFinished'
  BY <1>2 DEF TypeOK, LeadersLeadThemselves, FilledIsFresh, ClosedMeansFinished
<1>5. WaitersFollowAFlight' /\ AnswersComeFromClosedFlights'
  BY <1>2 DEF TypeOK, WaitersFollowAFlight, AnswersComeFromClosedFlights
<1> QED
  BY <1>1, <1>3, <1>4, <1>5

(* The query reads rows no older than those the leader found. *)
LEMMA RunQueryFlightInv ==
  ASSUME FlightInv, NEW r \in Requests, RunQuery(r)
  PROVE  FlightInv'
<1> USE DEF FlightInv, RunQuery
<1>1. r \notin done /\ keyOf[r] \in Keys /\ version[keyOf[r]] \in Versions
      /\ seen[r] <= version[keyOf[r]]
  BY DEF TypeOK, ClosedMeansFinished, LeadersLeadThemselves
<1>2. TypeOK'
  BY <1>1 DEF TypeOK
<1>3. MapHoldsRunningFlights' /\ RunningFlightsAreInTheMap' /\ LeadersLeadThemselves'
  BY DEF TypeOK, MapHoldsRunningFlights, RunningFlightsAreInTheMap, LeadersLeadThemselves
<1>4. FilledIsFresh'
  BY <1>1 DEF TypeOK, FilledIsFresh
<1>5. ClosedMeansFinished' /\ WaitersFollowAFlight' /\ AnswersComeFromClosedFlights'
  BY <1>1 DEF TypeOK, ClosedMeansFinished, WaitersFollowAFlight,
              AnswersComeFromClosedFlights
<1> QED
  BY <1>2, <1>3, <1>4, <1>5

(* Releasing frees the key of exactly this flight. *)
LEMMA ReleaseFlightInv ==
  ASSUME FlightInv, NEW r \in Requests, Release(r)
  PROVE  FlightInv'
<1> USE DEF FlightInv, Release
<1>1. TypeOK'
  BY DEF TypeOK
<1>2. MapHoldsRunningFlights'
  BY DEF TypeOK, MapHoldsRunningFlights, RunningFlightsAreInTheMap
<1>3. RunningFlightsAreInTheMap'
  BY DEF TypeOK, MapHoldsRunningFlights, RunningFlightsAreInTheMap
<1>4. LeadersLeadThemselves' /\ FilledIsFresh' /\ ClosedMeansFinished'
  BY DEF TypeOK, LeadersLeadThemselves, FilledIsFresh, ClosedMeansFinished
<1>5. WaitersFollowAFlight' /\ AnswersComeFromClosedFlights'
  BY DEF TypeOK, WaitersFollowAFlight, AnswersComeFromClosedFlights
<1> QED
  BY <1>1, <1>2, <1>3, <1>4, <1>5

(* Closing the channel and returning go with an outcome already written. *)
LEMMA FinishFlightInv ==
  ASSUME FlightInv, NEW r \in Requests, Finish(r)
  PROVE  FlightInv'
<1> USE DEF FlightInv, Finish
<1>1. TypeOK'
  BY DEF TypeOK
<1>2. flightOf[r] = r
  BY DEF LeadersLeadThemselves
<1>3. MapHoldsRunningFlights' /\ RunningFlightsAreInTheMap' /\ LeadersLeadThemselves'
  BY DEF TypeOK, MapHoldsRunningFlights, RunningFlightsAreInTheMap, LeadersLeadThemselves
<1>4. FilledIsFresh' /\ ClosedMeansFinished'
  BY DEF TypeOK, FilledIsFresh, ClosedMeansFinished
<1>5. WaitersFollowAFlight' /\ AnswersComeFromClosedFlights'
  BY <1>2 DEF TypeOK, WaitersFollowAFlight, AnswersComeFromClosedFlights
<1> QED
  BY <1>1, <1>3, <1>4, <1>5

(* A waiter returns the outcome of a closed flight, or its own error. *)
LEMMA ShareFlightInv ==
  ASSUME FlightInv, NEW r \in Requests, Share(r) \/ GiveUp(r)
  PROVE  FlightInv'
<1> USE DEF FlightInv, Share, GiveUp
<1>1. flightOf[r] \in Requests /\ r \notin done /\ keyOf[flightOf[r]] = keyOf[r]
  BY DEF WaitersFollowAFlight, ClosedMeansFinished
<1>2. TypeOK'
  BY <1>1 DEF TypeOK
<1>3. MapHoldsRunningFlights' /\ RunningFlightsAreInTheMap' /\ LeadersLeadThemselves'
  BY <1>1 DEF TypeOK, MapHoldsRunningFlights, RunningFlightsAreInTheMap,
              LeadersLeadThemselves
<1>4. FilledIsFresh' /\ ClosedMeansFinished'
  BY <1>1 DEF TypeOK, FilledIsFresh, ClosedMeansFinished
<1>5. WaitersFollowAFlight' /\ AnswersComeFromClosedFlights'
  BY <1>1 DEF TypeOK, WaitersFollowAFlight, AnswersComeFromClosedFlights
<1> QED
  BY <1>2, <1>3, <1>4, <1>5

LEMMA NextFlightInv == FlightInv /\ [Next]_vars => FlightInv'
<1> SUFFICES ASSUME FlightInv, [Next]_vars PROVE FlightInv'
  OBVIOUS
<1>1. CASE UNCHANGED vars
  BY <1>1 DEF vars, FlightInv, TypeOK, MapHoldsRunningFlights,
       RunningFlightsAreInTheMap, LeadersLeadThemselves, FilledIsFresh,
       ClosedMeansFinished, WaitersFollowAFlight, AnswersComeFromClosedFlights
<1>2. CASE Next
  BY <1>2, WriteFlightInv, JoinFlightInv, LeadFlightInv, RunQueryFlightInv,
     ReleaseFlightInv, FinishFlightInv, ShareFlightInv DEF Next
<1> QED
  BY <1>1, <1>2

LEMMA FlightInvariant == Spec => []FlightInv
BY InitFlightInv, NextFlightInv, PTL DEF Spec

-----------------------------------------------------------------------------
(***************************************************************************)
(* The variables of queryFlight keep their types in every execution.       *)
(***************************************************************************)
THEOREM FlightTypeCorrect == Spec => []TypeOK
<1>1. FlightInv => TypeOK
  BY DEF FlightInv
<1> QED
  BY <1>1, FlightInvariant, PTL

(***************************************************************************)
(* However many requests of one key run concurrently, do executes at most  *)
(* one query for it at a time.                                             *)
(***************************************************************************)
THEOREM FlightOneQueryPerKey == Spec => []OneQueryPerKey
<1>1. FlightInv => OneQueryPerKey
  BY DEF FlightInv, RunningFlightsAreInTheMap, OneQueryPerKey
<1> QED
  BY <1>1, FlightInvariant, PTL

(***************************************************************************)
(* No waiter ever sees a flight's fields before its leader wrote them, and *)
(* what it returns is its own key's outcome.                               *)
(***************************************************************************)
THEOREM FlightSharesOutcome == Spec => []SharedOutcomeIsTheLeaders
<1>1. FlightInv => SharedOutcomeIsTheLeaders
  BY DEF FlightInv, AnswersComeFromClosedFlights, ClosedMeansFinished,
         SharedOutcomeIsTheLeaders
<1> QED
  BY <1>1, FlightInvariant, PTL

(***************************************************************************)
(* No request returns rows older than the flight it was served by.         *)
(***************************************************************************)
THEOREM FlightFreshness == Spec => []NoOlderThanTheFlight
<1>1. FlightInv => NoOlderThanTheFlight
  BY DEF FlightInv, AnswersComeFromClosedFlights, FilledIsFresh,
         NoOlderThanTheFlight, TypeOK
<1> QED
  BY <1>1, FlightInvariant, PTL

(***************************************************************************)
(* A finished flight is never joined: do keeps no cache.                   *)
(***************************************************************************)
THEOREM FlightNoCache == Spec => NoJoinAfterRelease
<1>1. FlightInv /\ [Next]_vars =>
        [\A r \in Requests : pc[r] = "idle" /\ pc'[r] = "wait"
                              => Running(flightOf'[r])]_vars
  <2> SUFFICES ASSUME FlightInv, Next, NEW r \in Requests,
                      pc[r] = "idle", pc'[r] = "wait"
               PROVE  Running(flightOf'[r])
    OBVIOUS
  <2>1. PICK k \in Keys : Join(r, k)
    BY DEF Next, Write, Join, Lead, RunQuery, Release, Finish, Share, GiveUp,
           FlightInv, TypeOK
  <2> QED
    BY <2>1 DEF FlightInv, TypeOK, Join, MapHoldsRunningFlights
<1> QED
  BY <1>1, FlightInvariant, PTL DEF Spec, NoJoinAfterRelease

=============================================================================
