---------------------------- MODULE QueryFlight ----------------------------
(***************************************************************************)
(* The single-flight merge of the conversation list and count queries,     *)
(* backend/internal/store/list_flight.go.  A request is one invocation of  *)
(* queryFlight.do: the first one to arrive for a key becomes the leader of *)
(* a flight and runs the query, the others that arrive before the flight   *)
(* is taken out of the map wait on its channel and share the outcome.      *)
(*                                                                         *)
(* A flight is named by the request that leads it.  The rows behind a key  *)
(* are abstracted to a version number that writers of the tables advance.  *)
(***************************************************************************)
EXTENDS Naturals

CONSTANTS Requests,    \* the invocations of do
          Keys,        \* the flight keys (mode, tag, page)
          MaxVersion,  \* bound on the writes to the rows behind one key
          NoFlight, NoKey,        \* null values
          Failed, Cancelled       \* outcomes that are not rows

Versions == 0..MaxVersion

ASSUME FlightAssumption ==
    /\ NoFlight \notin Requests
    /\ NoKey \notin Keys
    /\ MaxVersion \in Nat
    /\ Failed \notin Nat /\ Cancelled \notin Nat
    /\ Failed # Cancelled

VARIABLES
    version,   \* version[k]: the current rows behind key k
    calls,     \* queryFlight.calls: key -> flight, under the mutex
    pc,        \* where a request stands in do
    keyOf,     \* the key a request asked for
    flightOf,  \* the flight a request leads or waits on
    val,       \* flightCall.val / flightCall.err, written by the leader
    done,      \* the flights whose done channel is closed
    result,    \* what do returned
    seen       \* the version of the rows when the request entered do

vars == <<version, calls, pc, keyOf, flightOf, val, done, result, seen>>

Outcome == Versions \cup {Failed, Cancelled}

TypeOK ==
    /\ version \in [Keys -> Versions]
    /\ calls \in [Keys -> Requests \cup {NoFlight}]
    /\ pc \in [Requests -> {"idle", "run", "filled", "released", "wait", "done"}]
    /\ keyOf \in [Requests -> Keys \cup {NoKey}]
    /\ flightOf \in [Requests -> Requests \cup {NoFlight}]
    /\ val \in [Requests -> Outcome]
    /\ done \subseteq Requests
    /\ result \in [Requests -> Outcome]
    /\ seen \in [Requests -> Versions]

Init ==
    /\ version = [k \in Keys |-> 0]
    /\ calls = [k \in Keys |-> NoFlight]
    /\ pc = [r \in Requests |-> "idle"]
    /\ keyOf = [r \in Requests |-> NoKey]
    /\ flightOf = [r \in Requests |-> NoFlight]
    /\ val = [r \in Requests |-> Cancelled]
    /\ done = {}
    /\ result = [r \in Requests |-> Cancelled]
    /\ seen = [r \in Requests |-> 0]

-----------------------------------------------------------------------------
(***************************************************************************)
(* Faulty variants of the actions below: each is a slip in do that one of  *)
(* the properties at the end of the module must expose.  Spec uses none.   *)
(***************************************************************************)
\* the map is looked up outside the critical section that fills it.
LeadUnchecked(r, k) ==
    /\ pc[r] = "idle"
    /\ calls' = [calls EXCEPT ![k] = r]
    /\ pc' = [pc EXCEPT ![r] = "run"]
    /\ keyOf' = [keyOf EXCEPT ![r] = k]
    /\ flightOf' = [flightOf EXCEPT ![r] = r]
    /\ seen' = [seen EXCEPT ![r] = version[k]]
    /\ UNCHANGED <<version, val, done, result>>

\* the query is sent to a replica that lags one commit behind.
RunQueryOnReplica(r) ==
    /\ pc[r] = "run"
    /\ val' = [val EXCEPT ![r] = IF version[keyOf[r]] = 0 THEN 0
                                 ELSE version[keyOf[r]] - 1]
    /\ pc' = [pc EXCEPT ![r] = "filled"]
    /\ UNCHANGED <<version, calls, keyOf, flightOf, done, result, seen>>

\* the flight stays in the map, as a cache would keep it.
ReleaseAndKeep(r) ==
    /\ pc[r] = "filled"
    /\ pc' = [pc EXCEPT ![r] = "released"]
    /\ UNCHANGED <<version, calls, keyOf, flightOf, val, done, result, seen>>

\* an early return on an error leaves the channel open.
FinishOnSuccessOnly(r) ==
    /\ pc[r] = "released"
    /\ val[r] # Failed
    /\ done' = done \cup {r}
    /\ result' = [result EXCEPT ![r] = val[r]]
    /\ pc' = [pc EXCEPT ![r] = "done"]
    /\ UNCHANGED <<version, calls, keyOf, flightOf, val, seen>>

\* the shared fields are read without waiting for the channel.
ShareWithoutWaiting(r) ==
    /\ pc[r] = "wait"
    /\ pc[flightOf[r]] # "run"
    /\ result' = [result EXCEPT ![r] = val[flightOf[r]]]
    /\ pc' = [pc EXCEPT ![r] = "done"]
    /\ UNCHANGED <<version, calls, keyOf, flightOf, val, done, seen>>

-----------------------------------------------------------------------------
(***************************************************************************)
(* Some other part of the backend commits rows the query reads.            *)
(***************************************************************************)
Write(k) ==
    /\ version[k] < MaxVersion
    /\ version' = [version EXCEPT ![k] = @ + 1]
    /\ UNCHANGED <<calls, pc, keyOf, flightOf, val, done, result, seen>>

(***************************************************************************)
(* do, first critical section: join the flight in the map, or create one.  *)
(***************************************************************************)
Join(r, k) ==
    /\ pc[r] = "idle"
    /\ calls[k] # NoFlight
    /\ pc' = [pc EXCEPT ![r] = "wait"]
    /\ keyOf' = [keyOf EXCEPT ![r] = k]
    /\ flightOf' = [flightOf EXCEPT ![r] = calls[k]]
    /\ seen' = [seen EXCEPT ![r] = version[k]]
    /\ UNCHANGED <<version, calls, val, done, result>>

Lead(r, k) ==
    /\ pc[r] = "idle"
    /\ calls[k] = NoFlight
    /\ calls' = [calls EXCEPT ![k] = r]
    /\ pc' = [pc EXCEPT ![r] = "run"]
    /\ keyOf' = [keyOf EXCEPT ![r] = k]
    /\ flightOf' = [flightOf EXCEPT ![r] = r]
    /\ seen' = [seen EXCEPT ![r] = version[k]]
    /\ UNCHANGED <<version, val, done, result>>

(***************************************************************************)
(* The query, under a context detached from the leader's own: it yields    *)
(* the rows of one instant, or fails (SQL error, 20 s timeout, a recovered *)
(* panic).  The leader's own cancellation never shows.                     *)
(***************************************************************************)
RunQuery(r) ==
    /\ pc[r] = "run"
    /\ \E v \in {version[keyOf[r]], Failed} : val' = [val EXCEPT ![r] = v]
    /\ pc' = [pc EXCEPT ![r] = "filled"]
    /\ UNCHANGED <<version, calls, keyOf, flightOf, done, result, seen>>

(***************************************************************************)
(* Second critical section: take the flight out of the map.                *)
(***************************************************************************)
Release(r) ==
    /\ pc[r] = "filled"
    /\ calls' = [calls EXCEPT ![keyOf[r]] = NoFlight]
    /\ pc' = [pc EXCEPT ![r] = "released"]
    /\ UNCHANGED <<version, keyOf, flightOf, val, done, result, seen>>

(***************************************************************************)
(* close(call.done), and the leader returns.                               *)
(***************************************************************************)
Finish(r) ==
    /\ pc[r] = "released"
    /\ done' = done \cup {r}
    /\ result' = [result EXCEPT ![r] = val[r]]
    /\ pc' = [pc EXCEPT ![r] = "done"]
    /\ UNCHANGED <<version, calls, keyOf, flightOf, val, seen>>

(***************************************************************************)
(* A waiter's select: the shared outcome once the channel is closed, or    *)
(* its own context's error, whichever the select picks when both are ready.*)
(***************************************************************************)
Share(r) ==
    /\ pc[r] = "wait"
    /\ flightOf[r] \in done
    /\ result' = [result EXCEPT ![r] = val[flightOf[r]]]
    /\ pc' = [pc EXCEPT ![r] = "done"]
    /\ UNCHANGED <<version, calls, keyOf, flightOf, val, done, seen>>

GiveUp(r) ==
    /\ pc[r] = "wait"
    /\ result' = [result EXCEPT ![r] = Cancelled]
    /\ pc' = [pc EXCEPT ![r] = "done"]
    /\ UNCHANGED <<version, calls, keyOf, flightOf, val, done, seen>>

Next ==
    \/ \E k \in Keys : Write(k)
    \/ \E r \in Requests, k \in Keys : Join(r, k) \/ Lead(r, k)
    \/ \E r \in Requests : RunQuery(r) \/ Release(r) \/ Finish(r)
                             \/ Share(r) \/ GiveUp(r)

(***************************************************************************)
(* A goroutine that can run is scheduled, and the query ends within        *)
(* flightTimeout.  Nothing makes a client arrive, leave or write.          *)
(***************************************************************************)
Fairness ==
    \A r \in Requests : /\ WF_vars(RunQuery(r)) /\ WF_vars(Release(r))
                        /\ WF_vars(Finish(r)) /\ WF_vars(Share(r))

Spec == Init /\ [][Next]_vars /\ Fairness

-----------------------------------------------------------------------------
Running(r) == pc[r] \in {"run", "filled"}

(***************************************************************************)
(* The point of the merge: of all the requests for one key at most one has *)
(* a query in progress, however they arrive and whatever fails (the test   *)
(* "concurrent queries of one key run once").                              *)
(***************************************************************************)
OneQueryPerKey ==
    \A r, q \in Requests :
        Running(r) /\ Running(q) /\ keyOf[r] = keyOf[q] => r = q

(***************************************************************************)
(* A request that returned rows returned rows of its own key's query, and  *)
(* never the outcome of a flight whose query had not ended: the channel is *)
(* closed only after val is written.                                       *)
(***************************************************************************)
SharedOutcomeIsTheLeaders ==
    \A r \in Requests :
        pc[r] = "done" /\ result[r] # Cancelled =>
            LET f == flightOf[r] IN
            /\ keyOf[f] = keyOf[r]
            /\ result[r] = val[f]
            /\ pc[f] = "done"

(***************************************************************************)
(* Rows are at least as new as the flight: nothing older than the moment   *)
(* the leader entered do is ever returned.                                 *)
(***************************************************************************)
NoOlderThanTheFlight ==
    \A r \in Requests :
        pc[r] = "done" /\ result[r] \in Versions => result[r] >= seen[flightOf[r]]

(***************************************************************************)
(* "Released as soon as the query ends, no cache": a request never joins a *)
(* flight that has been taken out of the map.                              *)
(***************************************************************************)
NoJoinAfterRelease ==
    [][\A r \in Requests :
          pc[r] = "idle" /\ pc'[r] = "wait" => Running(flightOf'[r])]_vars

(***************************************************************************)
(* Every request returns, also when its leader's query fails or panics and *)
(* whatever happens to the leader's client.                                *)
(***************************************************************************)
EveryRequestReturns ==
    \A r \in Requests : (pc[r] # "idle") ~> (pc[r] = "done")

(***************************************************************************)
(* What the header of list_flight.go concludes from "no cache": no problem *)
(* of stale data, i.e. a request's rows are at least as new as the rows    *)
(* when the request came in.                                               *)
(***************************************************************************)
NoStaleRows ==
    \A r \in Requests :
        pc[r] = "done" /\ result[r] \in Versions => result[r] >= seen[r]

=============================================================================
