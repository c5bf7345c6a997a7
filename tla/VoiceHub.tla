------------------------------ MODULE VoiceHub ------------------------------
(***************************************************************************)
(* The hub's side of a voice call, backend/internal/ws/hub.go: the buffer  *)
(* of ringing calls, the accepts waiting for an answer with their 5 s      *)
(* watchdogs, and the marks of finished calls.  The maps are shared by the *)
(* hub loop, which handles one frame at a time, and by the goroutines of   *)
(* the timers, which run beside it.                                        *)
(*                                                                         *)
(* Here the clients may send any frame at any time, again and again, but   *)
(* an agent only knows a call the hub has seen; VoiceCall puts the widget  *)
(* and the app around this module.  A timer fires at any moment after it   *)
(* is armed.                                                               *)
(***************************************************************************)
EXTENDS Naturals

CONSTANTS Calls, Agents,
          MaxAccepts,        \* bound: accepts of one call the hub handles
          NoCall, NoEntry    \* null values

Serials == 1..MaxAccepts

ASSUME VoiceHubAssumption ==
    /\ MaxAccepts \in Nat
    /\ NoCall \notin Calls
    /\ NoEntry \notin [serial : Serials, agent : Agents, known : BOOLEAN]

VARIABLES
    used,      \* the call ids the hub has seen
    pending,   \* pendingCalls, the buffer
    late,      \* buffered calls that were marked finished when voice_call came
    accepts,   \* accepts handled for a call: names its watchdog timers
    entry,     \* pendingAccepts
    handle,    \* acceptTimers: the serial of the timer in the map, or 0
    wd,        \* the watchdog timers and their goroutines, by call and serial
    cancelled, \* accepts ended by an answer, an end or a reject
    finished,  \* finishedCalls
    ending,    \* the call whose end the loop is about to record
    notes      \* system messages about a call since it was marked, by author

callVars   == <<used, pending, late>>
acceptVars == <<accepts, entry, handle, wd, cancelled>>
endVars    == <<finished, ending, notes>>
hubVars    == <<callVars, acceptVars, endVars>>

Entries == [serial : Serials, agent : Agents, known : BOOLEAN]

WatchdogStates == {"armed", "stopped", "fired", "took", "passed", "marked", "dropped", "over"}

HubTypeOK ==
    /\ used \subseteq Calls /\ pending \subseteq Calls
    /\ late \subseteq Calls /\ finished \subseteq Calls
    /\ accepts \in [Calls -> 0..MaxAccepts]
    /\ entry \in [Calls -> Entries \cup {NoEntry}]
    /\ handle \in [Calls -> Serials \cup {0}]
    /\ wd \in [Calls -> [Serials -> [state : WatchdogStates,
                                     got : Entries \cup {NoEntry}]]]
    /\ cancelled \in [Calls -> SUBSET Serials]
    /\ ending \in Calls \cup {NoCall}
    /\ notes \in [Calls -> [loop : Nat, watchdog : Nat]]

HubInit ==
    /\ used = {} /\ pending = {} /\ late = {} /\ finished = {}
    /\ accepts = [c \in Calls |-> 0]
    /\ entry = [c \in Calls |-> NoEntry]
    /\ handle = [c \in Calls |-> 0]
    /\ wd = [c \in Calls |-> [n \in Serials |-> [state |-> "over", got |-> NoEntry]]]
    /\ cancelled = [c \in Calls |-> {}]
    /\ ending = NoCall
    /\ notes = [c \in Calls |-> [loop |-> 0, watchdog |-> 0]]

-----------------------------------------------------------------------------
(***************************************************************************)
(* Stop only prevents a timer that has not fired yet.                      *)
(***************************************************************************)
Stopped(timers, n) ==
    [m \in Serials |-> IF m = n /\ timers[m].state = "armed"
                       THEN [timers[m] EXCEPT !.state = "stopped"]
                       ELSE timers[m]]

LoopIsFree == ending = NoCall

(***************************************************************************)
(* Faulty variants of the actions below: each is a slip in the handlers    *)
(* that one of the properties must expose.  HubSpec uses none.             *)
(***************************************************************************)
\* a second accept finds a timer in the map and does not arm its own.
HubAcceptKeepsTimer(c, a) ==
    /\ LoopIsFree
    /\ c \in used
    /\ accepts[c] < MaxAccepts
    /\ LET n == accepts[c] + 1 IN
       /\ accepts' = [accepts EXCEPT ![c] = n]
       /\ entry' = [entry EXCEPT ![c] =
                       [serial |-> n, agent |-> a, known |-> c \in pending]]
       /\ IF handle[c] # 0 THEN UNCHANGED <<wd, handle>>
          ELSE /\ wd' = [wd EXCEPT ![c][n].state = "armed"]
               /\ handle' = [handle EXCEPT ![c] = n]
    /\ UNCHANGED <<callVars, cancelled, endVars>>

\* the old timer is looked for after the new one is in the map.
HubAcceptStopsLate(c, a) ==
    /\ LoopIsFree
    /\ c \in used
    /\ accepts[c] < MaxAccepts
    /\ LET n == accepts[c] + 1 IN
       /\ accepts' = [accepts EXCEPT ![c] = n]
       /\ entry' = [entry EXCEPT ![c] =
                       [serial |-> n, agent |-> a, known |-> c \in pending]]
       /\ wd' = [wd EXCEPT ![c] = Stopped([@ EXCEPT ![n].state = "armed"], n)]
       /\ handle' = [handle EXCEPT ![c] = 0]
    /\ UNCHANGED <<callVars, cancelled, endVars>>

\* voice_end does not look at finishedCalls.
HubEndUnchecked(c) ==
    /\ LoopIsFree
    /\ used' = used \cup {c}
    /\ entry' = [entry EXCEPT ![c] = NoEntry]
    /\ wd' = [wd EXCEPT ![c] = Stopped(@, handle[c])]
    /\ handle' = [handle EXCEPT ![c] = 0]
    /\ ending' = c
    /\ UNCHANGED <<pending, late, finished, notes, accepts, cancelled>>

\* the ended call is left to the 30 s timer.
HubFinishLeavesBuffer ==
    /\ ending # NoCall
    /\ finished' = finished \cup {ending}
    /\ notes' = [notes EXCEPT ![ending].loop = @ + 1]
    /\ ending' = NoCall
    /\ UNCHANGED <<callVars, acceptVars>>

\* the watchdog loads the entry and deletes it later.
WatchdogOnlyLoads(c, n) ==
    /\ wd[c][n].state = "fired"
    /\ wd' = [wd EXCEPT ![c][n] = [state |-> "took", got |-> entry[c]]]
    /\ UNCHANGED <<callVars, accepts, entry, handle, cancelled, endVars>>

-----------------------------------------------------------------------------
(***************************************************************************)
(* voice_call: buffer the call and arm a 30 s timer.  Nothing is looked    *)
(* at: a call that comes again is stored again, also when it is finished.  *)
(***************************************************************************)
HubCall(c) ==
    /\ LoopIsFree
    /\ used' = used \cup {c}
    /\ pending' = pending \cup {c}
    /\ late' = (late \ {c}) \cup ({c} \cap finished)
    /\ UNCHANGED <<acceptVars, endVars>>

(***************************************************************************)
(* A 30 s timer drops the call from the buffer, accepted or not.  A call   *)
(* in the buffer has at least the timer armed when it was stored last; a   *)
(* timer that finds nothing to delete changes nothing.                     *)
(***************************************************************************)
BufferExpires(c) ==
    /\ c \in pending
    /\ pending' = pending \ {c}
    /\ late' = late \ {c}
    /\ UNCHANGED <<used, acceptVars, endVars>>

(***************************************************************************)
(* voice_accept: the new entry replaces that of an earlier accept, the old *)
(* timer is stopped and a new watchdog armed.  The finished mark is not    *)
(* looked at.                                                              *)
(***************************************************************************)
HubAccept(c, a) ==
    /\ LoopIsFree
    /\ c \in used
    /\ accepts[c] < MaxAccepts
    /\ LET n == accepts[c] + 1 IN
       /\ accepts' = [accepts EXCEPT ![c] = n]
       /\ entry' = [entry EXCEPT ![c] =
                       [serial |-> n, agent |-> a, known |-> c \in pending]]
       /\ wd' = [wd EXCEPT ![c] = [Stopped(@, handle[c]) EXCEPT ![n].state = "armed"]]
       /\ handle' = [handle EXCEPT ![c] = n]
    /\ UNCHANGED <<callVars, cancelled, endVars>>

(***************************************************************************)
(* voice_answer, and the first part of voice_end and voice_reject: take    *)
(* the timer and the entry out of their maps.                              *)
(***************************************************************************)
CancelAccept(c) ==
    /\ wd' = [wd EXCEPT ![c] = Stopped(@, handle[c])]
    /\ handle' = [handle EXCEPT ![c] = 0]
    /\ entry' = [entry EXCEPT ![c] = NoEntry]
    /\ cancelled' = [cancelled EXCEPT ![c] =
                        IF entry[c] = NoEntry THEN @ ELSE @ \cup {entry[c].serial}]
    /\ UNCHANGED accepts

HubAnswer(c) ==
    /\ LoopIsFree
    /\ c \in used
    /\ CancelAccept(c)
    /\ UNCHANGED <<callVars, endVars>>

(***************************************************************************)
(* voice_end and voice_reject, up to the look at finishedCalls ...         *)
(***************************************************************************)
HubEnd(c) ==
    /\ LoopIsFree
    /\ used' = used \cup {c}
    /\ CancelAccept(c)
    /\ ending' = IF c \in finished THEN NoCall ELSE c
    /\ UNCHANGED <<pending, late, finished, notes>>

(***************************************************************************)
(* ... and from the mark on.  Each of these frames names its visitor, in   *)
(* From or in To, so the visitor is found with or without the buffer.      *)
(***************************************************************************)
HubFinish ==
    /\ ending # NoCall
    /\ finished' = finished \cup {ending}
    /\ pending' = pending \ {ending}
    /\ late' = late \ {ending}
    /\ notes' = [notes EXCEPT ![ending].loop = @ + 1]
    /\ ending' = NoCall
    /\ UNCHANGED <<used, acceptVars>>

-----------------------------------------------------------------------------
(***************************************************************************)
(* fireAcceptWatchdog, the goroutine of a timer that fired: it takes the   *)
(* entry, whichever accept that is of; deletes the handle; returns if      *)
(* there was no entry or the call is marked finished.  Otherwise it marks  *)
(* the call, then drops it from the buffer, then tells both sides and      *)
(* writes the message.  The loop runs between any two of these.            *)
(***************************************************************************)
WatchdogFires(c, n) ==
    /\ wd[c][n].state = "armed"
    /\ wd' = [wd EXCEPT ![c][n].state = "fired"]
    /\ UNCHANGED <<callVars, accepts, entry, handle, cancelled, endVars>>

WatchdogTakes(c, n) ==
    /\ wd[c][n].state = "fired"
    /\ wd' = [wd EXCEPT ![c][n] = [state |-> "took", got |-> entry[c]]]
    /\ entry' = [entry EXCEPT ![c] = NoEntry]
    /\ UNCHANGED <<callVars, accepts, handle, cancelled, endVars>>

WatchdogLooks(c, n) ==
    /\ wd[c][n].state = "took"
    /\ handle' = [handle EXCEPT ![c] = 0]
    /\ wd' = [wd EXCEPT ![c][n].state =
                 IF wd[c][n].got = NoEntry \/ c \in finished THEN "over" ELSE "passed"]
    /\ UNCHANGED <<callVars, accepts, entry, cancelled, endVars>>

WatchdogMarks(c, n) ==
    /\ wd[c][n].state = "passed"
    /\ wd' = [wd EXCEPT ![c][n].state = "marked"]
    /\ finished' = finished \cup {c}
    /\ UNCHANGED <<callVars, accepts, entry, handle, cancelled, ending, notes>>

WatchdogDrops(c, n) ==
    /\ wd[c][n].state = "marked"
    /\ wd' = [wd EXCEPT ![c][n].state = "dropped"]
    /\ pending' = pending \ {c}
    /\ late' = late \ {c}
    /\ UNCHANGED <<used, accepts, entry, handle, cancelled, endVars>>

WatchdogEnds(c, n) ==
    /\ wd[c][n].state = "dropped"
    /\ wd' = [wd EXCEPT ![c][n].state = "over"]
    /\ notes' = IF wd[c][n].got.known
                THEN [notes EXCEPT ![c].watchdog = @ + 1] ELSE notes
    /\ UNCHANGED <<callVars, accepts, entry, handle, cancelled, finished, ending>>

(***************************************************************************)
(* Five minutes after the end the mark is dropped.                         *)
(***************************************************************************)
FinishedExpires(c) ==
    /\ c \in finished
    /\ finished' = finished \ {c}
    /\ notes' = [notes EXCEPT ![c] = [loop |-> 0, watchdog |-> 0]]
    /\ UNCHANGED <<callVars, acceptVars, ending>>

WatchdogSteps(c, n) == \/ WatchdogFires(c, n) \/ WatchdogTakes(c, n)
                       \/ WatchdogLooks(c, n) \/ WatchdogMarks(c, n)
                       \/ WatchdogDrops(c, n) \/ WatchdogEnds(c, n)

HubNext ==
    \/ \E c \in Calls : \/ HubCall(c) \/ BufferExpires(c) \/ HubAnswer(c)
                        \/ HubEnd(c) \/ FinishedExpires(c)
    \/ \E c \in Calls, a \in Agents : HubAccept(c, a)
    \/ HubFinish
    \/ \E c \in Calls, n \in Serials : WatchdogSteps(c, n)

(***************************************************************************)
(* The runtime fires every timer and runs every goroutine; the loop ends   *)
(* the frame it is at.  No client has to send anything.                    *)
(***************************************************************************)
HubFairness ==
    /\ WF_hubVars(HubFinish)
    /\ \A c \in Calls : WF_hubVars(BufferExpires(c))
    /\ \A c \in Calls, n \in Serials : WF_hubVars(WatchdogSteps(c, n))

HubSafety == HubInit /\ [][HubNext]_hubVars

HubSpec == HubSafety /\ HubFairness

-----------------------------------------------------------------------------
Watching(c, n) == wd[c][n].state \in {"armed", "fired"}

(***************************************************************************)
(* An accept waiting for its answer is never forgotten: some watchdog that *)
(* will look at the entry is armed or about to run, whatever the order in  *)
(* which accepts, answers, ends and expired timers reach the maps.         *)
(***************************************************************************)
EntryIsWatched ==
    \A c \in Calls : entry[c] # NoEntry => \E n \in Serials : Watching(c, n)

(***************************************************************************)
(* An accept is settled once: LoadAndDelete gives it either to the frame   *)
(* that cancels it or to one watchdog (hub.go: "race-safe").               *)
(***************************************************************************)
AcceptSettledOnce ==
    \A c \in Calls, n \in Serials : wd[c][n].got # NoEntry =>
        LET s == wd[c][n].got.serial IN
        /\ s \notin cancelled[c]
        /\ entry[c] # NoEntry => entry[c].serial # s
        /\ \A m \in Serials : m # n /\ wd[c][m].got # NoEntry => wd[c][m].got.serial # s

(***************************************************************************)
(* Both sides hanging up leaves one message: between the mark of a call's  *)
(* end and its expiry the loop writes at most one.                         *)
(***************************************************************************)
LoopWritesOneNote ==
    \A c \in Calls : notes[c].loop <= 1

(***************************************************************************)
(* An agent who connects is rung for the calls in the buffer, and the      *)
(* marks are not looked at.  A call marked finished is there for one of    *)
(* two reasons only: the watchdog that marked it has not come to its next  *)
(* line, or its visitor has sent voice_call again since.  An end recorded  *)
(* by the loop leaves nothing to ring.                                     *)
(***************************************************************************)
BeingDropped(c) == \E n \in Serials : wd[c][n].state = "marked"

FinishedIsNotRung ==
    \A c \in finished \cap pending : c \in late \/ BeingDropped(c)

(***************************************************************************)
(* Every accept is settled: answered, ended, or taken by a watchdog.       *)
(***************************************************************************)
AcceptIsSettled ==
    \A c \in Calls : (entry[c] # NoEntry) ~> (entry[c] = NoEntry)

(***************************************************************************)
(* What the comment of fireAcceptWatchdog concludes from the marks: once   *)
(* the watchdog has ended a call, a late voice_end writes no second        *)
(* message.                                                                *)
(***************************************************************************)
OneNotePerCall ==
    \A c \in Calls : notes[c].loop + notes[c].watchdog <= 1

(***************************************************************************)
(* What the comment of the buffer says (hub.go: voice_end and voice_reject *)
(* remove the call, so that an agent who connects is not rung for it),     *)
(* without the two windows of FinishedIsNotRung.                           *)
(***************************************************************************)
NoGhostRing == finished \cap pending = {}

(***************************************************************************)
(* What the comment of the frame handler says of voice_accept: it prolongs *)
(* the buffer to 30 minutes.  So a call that was in the buffer when it was *)
(* accepted is in it while the accept waits for its answer.                *)
(***************************************************************************)
AcceptProlongsBuffer ==
    \A c \in Calls : entry[c] # NoEntry /\ entry[c].known => c \in pending

=============================================================================
