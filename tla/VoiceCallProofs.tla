--------------------------- MODULE VoiceCallProofs ---------------------------
(***************************************************************************)
(* Proofs about VoiceHub and VoiceCall for every set of visitors, agents   *)
(* and calls, any number of accepts and queues of any length.              *)
(*                                                                         *)
(* First the hub.  HubInv adds to the invariants what makes them           *)
(* inductive: the accepts of a call are numbered in order, so a new number *)
(* is in no map and with no watchdog yet; the hub has seen every call that *)
(* anything is recorded about; an end is only recorded by the loop if the  *)
(* loop has not written its message yet.                                   *)
(*                                                                         *)
(* Then the three programs: their steps are steps of VoiceHub, so the      *)
(* theorems about the hub carry over to every call end to end.  LineInv    *)
(* says who is on the line of a call.                                      *)
(***************************************************************************)
EXTENDS VoiceCall, TLAPS, FiniteSetTheorems

SerialsGiven(c) ==
    /\ entry[c] # NoEntry => /\ entry[c].serial <= accepts[c]
                             /\ entry[c].serial \notin cancelled[c]
    /\ \A n \in cancelled[c] : n <= accepts[c]
    /\ \A n \in Serials : /\ wd[c][n].got # NoEntry => wd[c][n].got.serial <= accepts[c]
                          /\ wd[c][n].state # "over" => n <= accepts[c]

SerialsAreGiven == \A c \in Calls : SerialsGiven(c)

SeenBeforeEnded ==
    /\ finished \subseteq used
    /\ ending # NoCall => ending \in used
    /\ \A c \in Calls : accepts[c] > 0 => c \in used
    /\ \A c \in Calls, n \in Serials : wd[c][n].state # "over" => c \in used

PassedHasEntry ==
    \A c \in Calls, n \in Serials :
        wd[c][n].state \in {"passed", "marked", "dropped"} => wd[c][n].got # NoEntry

UnmarkedHasNoLoopNote ==
    \A c \in Calls : c \notin finished \/ ending = c => notes[c].loop = 0

HubInv ==
    /\ HubTypeOK
    /\ EntryIsWatched
    /\ AcceptSettledOnce
    /\ LoopWritesOneNote
    /\ FinishedIsNotRung
    /\ SerialsAreGiven
    /\ SeenBeforeEnded
    /\ PassedHasEntry
    /\ UnmarkedHasNoLoopNote

-----------------------------------------------------------------------------
USE VoiceHubAssumption DEF Serials, Entries, Watching, LoopIsFree,
    callVars, acceptVars, endVars, hubVars

Timer == [state : WatchdogStates, got : Entries \cup {NoEntry}]
Note == [loop : Nat, watchdog : Nat]

(* Counting a message of one author leaves the other count alone. *)
LEMMA NoteAdded ==
  ASSUME NEW r \in Note
  PROVE  /\ [r EXCEPT !.loop = @ + 1] \in Note
         /\ [r EXCEPT !.watchdog = @ + 1] \in Note
         /\ [r EXCEPT !.loop = @ + 1].loop = r.loop + 1
         /\ [r EXCEPT !.watchdog = @ + 1].loop = r.loop
<1>1. r.loop \in Nat /\ r.watchdog \in Nat
  BY DEF Note
<1>2. [r EXCEPT !.loop = @ + 1] = [loop |-> r.loop + 1, watchdog |-> r.watchdog]
  BY DEF Note
<1>3. [r EXCEPT !.watchdog = @ + 1] = [loop |-> r.loop, watchdog |-> r.watchdog + 1]
  BY DEF Note
<1> QED
  BY <1>1, <1>2, <1>3 DEF Note

(* Stop leaves what a watchdog got, and only moves its own timer from armed to stopped. *)
LEMMA StoppedTimers ==
  ASSUME NEW timers \in [Serials -> Timer], NEW n
  PROVE  /\ Stopped(timers, n) \in [Serials -> Timer]
         /\ \A m \in Serials :
               /\ Stopped(timers, n)[m].got = timers[m].got
               /\ Stopped(timers, n)[m].state \in {timers[m].state, "stopped"}
               /\ \/ m # n /\ Stopped(timers, n)[m].state = timers[m].state
                  \/ m = n /\ Stopped(timers, n)[m].state =
                        IF timers[m].state = "armed" THEN "stopped" ELSE timers[m].state
<1>1. ASSUME NEW m \in Serials
      PROVE  /\ timers[m] \in Timer
             /\ [timers[m] EXCEPT !.state = "stopped"] =
                   [state |-> "stopped", got |-> timers[m].got]
  BY DEF Timer
<1>2. ASSUME NEW m \in Serials PROVE Stopped(timers, n)[m] \in Timer
  BY <1>1 DEF Stopped, Timer, WatchdogStates
<1>3. ASSUME NEW m \in Serials
      PROVE /\ Stopped(timers, n)[m].got = timers[m].got
            /\ Stopped(timers, n)[m].state \in {timers[m].state, "stopped"}
            /\ \/ m # n /\ Stopped(timers, n)[m].state = timers[m].state
               \/ m = n /\ Stopped(timers, n)[m].state =
                        IF timers[m].state = "armed" THEN "stopped" ELSE timers[m].state
  BY <1>1 DEF Stopped
<1> QED
  BY <1>2, <1>3 DEF Stopped

(* The initial state satisfies the strengthening. *)
LEMMA InitHubInv == HubInit => HubInv
  BY DEF HubInit, HubInv, HubTypeOK, EntryIsWatched, AcceptSettledOnce,
         LoopWritesOneNote, FinishedIsNotRung, SerialsAreGiven, SerialsGiven, SeenBeforeEnded,
         PassedHasEntry, UnmarkedHasNoLoopNote, WatchdogStates

(* A call that is rung after its end is known to be late. *)
LEMMA HubCallHubInv ==
  ASSUME HubInv, NEW c \in Calls, HubCall(c)
  PROVE  HubInv'
<1> USE DEF HubInv, HubTypeOK, HubCall
<1>1. HubTypeOK'
  BY DEF WatchdogStates
<1>2. EntryIsWatched'
  BY DEF EntryIsWatched
<1>3. AcceptSettledOnce'
  BY DEF AcceptSettledOnce
<1>4. LoopWritesOneNote'
  BY DEF LoopWritesOneNote
<1>5. FinishedIsNotRung'
  BY DEF FinishedIsNotRung, BeingDropped
<1>6. SerialsAreGiven'
  BY DEF SerialsAreGiven, SerialsGiven
<1>7. SeenBeforeEnded'
  BY DEF SeenBeforeEnded
<1>8. PassedHasEntry'
  BY DEF PassedHasEntry
<1>9. UnmarkedHasNoLoopNote'
  BY DEF UnmarkedHasNoLoopNote
<1> QED
  BY <1>1, <1>2, <1>3, <1>4, <1>5, <1>6, <1>7, <1>8, <1>9

(* The buffer only shrinks. *)
LEMMA BufferExpiresHubInv ==
  ASSUME HubInv, NEW c \in Calls, BufferExpires(c)
  PROVE  HubInv'
<1> USE DEF HubInv, HubTypeOK, BufferExpires
<1>1. HubTypeOK'
  BY DEF WatchdogStates
<1>2. EntryIsWatched'
  BY DEF EntryIsWatched
<1>3. AcceptSettledOnce'
  BY DEF AcceptSettledOnce
<1>4. LoopWritesOneNote'
  BY DEF LoopWritesOneNote
<1>5. FinishedIsNotRung'
  BY DEF FinishedIsNotRung, BeingDropped
<1>6. SerialsAreGiven'
  BY DEF SerialsAreGiven, SerialsGiven
<1>7. SeenBeforeEnded'
  BY DEF SeenBeforeEnded
<1>8. PassedHasEntry'
  BY DEF PassedHasEntry
<1>9. UnmarkedHasNoLoopNote'
  BY DEF UnmarkedHasNoLoopNote
<1> QED
  BY <1>1, <1>2, <1>3, <1>4, <1>5, <1>6, <1>7, <1>8, <1>9

(* A new accept takes a number no map and no watchdog holds, and arms its own timer. *)
LEMMA HubAcceptHubInv ==
  ASSUME HubInv, NEW c \in Calls, NEW a \in Agents, HubAccept(c, a)
  PROVE  HubInv'
<1> DEFINE k == accepts[c] + 1
<1> DEFINE stopped == Stopped(wd[c], handle[c])
<1> USE DEF HubInv
<1>1. /\ wd[c] \in [Serials -> Timer] /\ k \in Serials /\ accepts[c] \in Nat
  BY DEF HubAccept, HubTypeOK, Timer
<1>2. /\ stopped \in [Serials -> Timer]
      /\ \A m \in Serials : stopped[m].got = wd[c][m].got
      /\ \A m \in Serials : stopped[m].state \in {wd[c][m].state, "stopped"}
  BY <1>1, StoppedTimers
<1>3. /\ accepts' = [accepts EXCEPT ![c] = k]
      /\ entry' = [entry EXCEPT ![c] =
                       [serial |-> k, agent |-> a, known |-> c \in pending]]
      /\ handle' = [handle EXCEPT ![c] = k]
      /\ wd' = [wd EXCEPT ![c] = [stopped EXCEPT ![k].state = "armed"]]
      /\ c \in used /\ ending = NoCall
      /\ UNCHANGED <<callVars, cancelled, endVars>>
  BY DEF HubAccept
<1>4. [stopped EXCEPT ![k].state = "armed"] \in [Serials -> Timer]
  <2>1. [stopped[k] EXCEPT !.state = "armed"] \in Timer
    BY <1>1, <1>2 DEF Timer, WatchdogStates
  <2> QED
    BY <1>2, <2>1
<1>5. /\ \A m \in Serials : wd'[c][m].got = wd[c][m].got
      /\ wd'[c][k].state = "armed"
      /\ \A m \in Serials \ {k} : wd'[c][m].state \in {wd[c][m].state, "stopped"}
      /\ \A d \in Calls \ {c} : wd'[d] = wd[d]
      /\ wd' \in [Calls -> [Serials -> Timer]]
  <2>1. /\ wd'[c] = [stopped EXCEPT ![k].state = "armed"]
        /\ \A d \in Calls \ {c} : wd'[d] = wd[d]
        /\ wd' \in [Calls -> [Serials -> Timer]]
    BY <1>3, <1>4 DEF HubTypeOK, Timer
  <2> HIDE DEF stopped, k
  <2>2. stopped[k] \in Timer
    BY <1>1, <1>2
  <2>3. /\ [stopped EXCEPT ![k].state = "armed"][k].got = stopped[k].got
        /\ [stopped EXCEPT ![k].state = "armed"][k].state = "armed"
    BY <1>1, <1>2, <2>2 DEF Timer
  <2>4. \A m \in Serials \ {k} : [stopped EXCEPT ![k].state = "armed"][m] = stopped[m]
    BY <1>2
  <2> QED
    BY <1>2, <2>1, <2>3, <2>4, <1>1
<1> HIDE DEF stopped, k
<1>6. entry'[c] = [serial |-> k, agent |-> a, known |-> c \in pending]
      /\ entry'[c] \in Entries
  BY <1>1, <1>3 DEF HubTypeOK
<1>7. \A m \in Serials : m > accepts[c] \/ m <= accepts[c]
  BY <1>1
<1>8. k > accepts[c]
  BY <1>1 DEF k
<1>11. HubTypeOK'
  BY <1>1, <1>3, <1>5, <1>6 DEF HubTypeOK, Timer, k
<1>12. EntryIsWatched'
  BY <1>1, <1>3, <1>5 DEF HubTypeOK, EntryIsWatched
<1>13. AcceptSettledOnce'
  <2> SUFFICES ASSUME NEW d \in Calls, NEW n \in Serials, wd'[d][n].got # NoEntry
               PROVE  /\ wd'[d][n].got.serial \notin cancelled'[d]
                      /\ entry'[d] # NoEntry => entry'[d].serial # wd'[d][n].got.serial
                      /\ \A m \in Serials : m # n /\ wd'[d][m].got # NoEntry =>
                            wd'[d][m].got.serial # wd'[d][n].got.serial
    BY DEF AcceptSettledOnce
  <2>1. CASE d # c
    BY <2>1, <1>3, <1>5 DEF AcceptSettledOnce, HubTypeOK
  <2>2. CASE d = c
    <3>1. wd[c][n].got # NoEntry /\ wd'[c][n].got = wd[c][n].got
      BY <2>2, <1>5
    <3>2. wd[c][n].got.serial <= accepts[c] /\ wd[c][n].got \in Entries
      BY <3>1, <1>1 DEF SerialsAreGiven, SerialsGiven, Timer
    <3>3. entry'[c].serial # wd'[c][n].got.serial
      BY <3>1, <3>2, <1>6, <1>8, <1>1
    <3> QED
      BY <2>2, <3>1, <3>3, <1>3, <1>5 DEF AcceptSettledOnce
  <2> QED
    BY <2>1, <2>2
<1>14. LoopWritesOneNote' /\ UnmarkedHasNoLoopNote'
  BY <1>3 DEF LoopWritesOneNote, UnmarkedHasNoLoopNote
<1>18. FinishedIsNotRung'
  <2>1. ASSUME NEW d \in Calls, BeingDropped(d) PROVE BeingDropped(d)'
    <3>1. PICK n \in Serials : wd[d][n].state = "marked"
      BY <2>1 DEF BeingDropped
    <3>2. CASE d # c
      BY <3>1, <3>2, <1>5 DEF BeingDropped
    <3>3. CASE d = c
      <4>1. n # k
        BY <3>1, <3>3, <1>1, <1>8 DEF SerialsAreGiven, SerialsGiven
      <4>2. stopped[n].state = "marked"
        BY <3>1, <3>3, <1>1, StoppedTimers DEF stopped
      <4>3. wd'[c][n] = stopped[n]
        BY <4>1, <1>1, <1>2, <1>3 DEF HubTypeOK
      <4> QED
        BY <3>3, <4>2, <4>3 DEF BeingDropped
    <3> QED
      BY <3>2, <3>3
  <2> QED
    BY <2>1, <1>3 DEF FinishedIsNotRung, HubTypeOK
<1>15. SerialsAreGiven'
  <2>1. ASSUME NEW d \in Calls, d # c PROVE SerialsGiven(d)'
    BY <2>1, <1>3, <1>5 DEF SerialsAreGiven, SerialsGiven, HubTypeOK
  <2>2. SerialsGiven(c)'
    <3>1. accepts'[c] = k /\ cancelled'[c] = cancelled[c] /\ cancelled[c] \subseteq Serials
      BY <1>3 DEF HubTypeOK
    <3>2. \A n \in Serials : n <= accepts[c] => n <= k
      BY <1>1 DEF k
    <3>4. \A n \in Serials : wd'[c][n].state # "over" => n <= k
      <4>1. ASSUME NEW n \in Serials, n # k, wd'[c][n].state # "over" PROVE n <= k
        <5>1. stopped[n].state # "over" /\ wd'[c][n] = stopped[n]
          BY <4>1, <1>1, <1>2, <1>3 DEF HubTypeOK
        <5>2. wd[c][n].state # "over"
          BY <5>1, <1>1, StoppedTimers DEF stopped
        <5> QED
          BY <5>2, <3>2 DEF SerialsAreGiven, SerialsGiven
      <4> QED
        BY <4>1, <1>1
    <3>3. \A n \in Serials : wd'[c][n].got # NoEntry => wd'[c][n].got.serial <= k
      <4>1. \A n \in Serials : wd[c][n].got # NoEntry => wd[c][n].got.serial \in Serials
        BY <1>1 DEF Timer
      <4> QED
        BY <1>5, <3>2, <4>1 DEF SerialsAreGiven, SerialsGiven
    <3>5. k \notin cancelled[c] /\ (\A n \in cancelled[c] : n <= k) /\ k <= k
      BY <1>1, <1>8, <3>1, <3>2 DEF SerialsAreGiven, SerialsGiven
    <3> QED
      BY <3>1, <3>3, <3>4, <3>5, <1>5, <1>6 DEF SerialsAreGiven, SerialsGiven
  <2> QED
    BY <2>1, <2>2 DEF SerialsAreGiven, SerialsGiven
<1>16. SeenBeforeEnded'
  BY <1>3, <1>5, <1>1 DEF SeenBeforeEnded, HubTypeOK
<1>17. PassedHasEntry'
  <2> SUFFICES ASSUME NEW d \in Calls, NEW n \in Serials,
                      wd'[d][n].state \in {"passed", "marked", "dropped"}
               PROVE  wd'[d][n].got # NoEntry
    BY DEF PassedHasEntry
  <2>1. CASE d # c
    BY <2>1, <1>5 DEF PassedHasEntry
  <2>2. CASE d = c
    <3>1. n # k /\ wd[c][n].state \in {"passed", "marked", "dropped"}
      BY <2>2, <1>5
    <3> QED
      BY <2>2, <3>1, <1>5 DEF PassedHasEntry
  <2> QED
    BY <2>1, <2>2
<1> QED
  BY <1>11, <1>12, <1>13, <1>14, <1>15, <1>16, <1>17, <1>18

(* An answer removes the entry it cancels. *)
LEMMA HubAnswerHubInv ==
  ASSUME HubInv, NEW c \in Calls, HubAnswer(c)
  PROVE  HubInv'
<1> USE DEF HubInv, HubTypeOK, HubAnswer, CancelAccept, Stopped
<1>1. HubTypeOK'
  <2> HIDE DEF Stopped
  <2>1. wd' \in [Calls -> [Serials -> [state : WatchdogStates, got : Entries \cup {NoEntry}]]]
    <3>1. wd[c] \in [Serials -> Timer] /\ wd' = [wd EXCEPT ![c] = Stopped(wd[c], handle[c])]
      BY DEF Timer
    <3>2. Stopped(wd[c], handle[c]) \in [Serials -> Timer]
      BY <3>1, StoppedTimers
    <3> QED
      BY <3>1, <3>2 DEF Timer
  <2>2. cancelled' \in [Calls -> SUBSET Serials]
    BY DEF HubTypeOK
  <2> QED
    BY <2>1, <2>2
<1>2. EntryIsWatched'
  BY DEF EntryIsWatched
<1>3. AcceptSettledOnce'
  BY DEF AcceptSettledOnce
<1>4. LoopWritesOneNote'
  BY DEF LoopWritesOneNote
<1>5. FinishedIsNotRung'
  BY DEF FinishedIsNotRung, BeingDropped
<1>6. SerialsAreGiven'
  BY DEF SerialsAreGiven, SerialsGiven
<1>7. SeenBeforeEnded'
  BY DEF SeenBeforeEnded
<1>8. PassedHasEntry'
  BY DEF PassedHasEntry
<1>9. UnmarkedHasNoLoopNote'
  BY DEF UnmarkedHasNoLoopNote
<1> QED
  BY <1>1, <1>2, <1>3, <1>4, <1>5, <1>6, <1>7, <1>8, <1>9

(* An end removes the entry and only goes on for an unmarked call. *)
LEMMA HubEndHubInv ==
  ASSUME HubInv, NEW c \in Calls, HubEnd(c)
  PROVE  HubInv'
<1> USE DEF HubInv, HubTypeOK, HubEnd, CancelAccept, Stopped
<1>1. HubTypeOK'
  <2> HIDE DEF Stopped
  <2>1. wd' \in [Calls -> [Serials -> [state : WatchdogStates, got : Entries \cup {NoEntry}]]]
    <3>1. wd[c] \in [Serials -> Timer] /\ wd' = [wd EXCEPT ![c] = Stopped(wd[c], handle[c])]
      BY DEF Timer
    <3>2. Stopped(wd[c], handle[c]) \in [Serials -> Timer]
      BY <3>1, StoppedTimers
    <3> QED
      BY <3>1, <3>2 DEF Timer
  <2>2. cancelled' \in [Calls -> SUBSET Serials]
    BY DEF HubTypeOK
  <2>3. ending' \in Calls \cup {NoCall} /\ used' \subseteq Calls
    BY DEF HubTypeOK
  <2> QED
    BY <2>1, <2>2, <2>3
<1>2. EntryIsWatched'
  BY DEF EntryIsWatched
<1>3. AcceptSettledOnce'
  BY DEF AcceptSettledOnce
<1>4. LoopWritesOneNote'
  BY DEF LoopWritesOneNote
<1>5. FinishedIsNotRung'
  BY DEF FinishedIsNotRung, BeingDropped
<1>6. SerialsAreGiven'
  BY DEF SerialsAreGiven, SerialsGiven
<1>7. SeenBeforeEnded'
  BY DEF SeenBeforeEnded
<1>8. PassedHasEntry'
  BY DEF PassedHasEntry
<1>9. UnmarkedHasNoLoopNote'
  BY DEF UnmarkedHasNoLoopNote
<1> QED
  BY <1>1, <1>2, <1>3, <1>4, <1>5, <1>6, <1>7, <1>8, <1>9

(* The mark, the buffer and the message change together. *)
LEMMA HubFinishHubInv ==
  ASSUME HubInv, HubFinish
  PROVE  HubInv'
<1> USE DEF HubInv, HubTypeOK, HubFinish
<1>1. HubTypeOK'
  <2>1. ending \in Calls /\ notes[ending] \in Note
    BY DEF Note
  <2>2. [notes[ending] EXCEPT !.loop = @ + 1] \in Note
    BY <2>1, NoteAdded
  <2>3. notes' \in [Calls -> [loop : Nat, watchdog : Nat]]
    BY <2>1, <2>2 DEF Note
  <2> QED
    BY <2>1, <2>3
<1>2. EntryIsWatched'
  BY DEF EntryIsWatched
<1>3. AcceptSettledOnce'
  BY DEF AcceptSettledOnce
<1>4. LoopWritesOneNote'
  <2>1. ending \in Calls /\ notes[ending] \in Note /\ notes[ending].loop = 0
    BY DEF UnmarkedHasNoLoopNote, Note
  <2>2. notes'[ending].loop = 1
    BY <2>1, NoteAdded
  <2>3. \A c \in Calls \ {ending} : notes'[c] = notes[c]
    BY <2>1
  <2> QED
    BY <2>1, <2>2, <2>3 DEF LoopWritesOneNote
<1>5. FinishedIsNotRung'
  BY DEF FinishedIsNotRung, BeingDropped
<1>6. SerialsAreGiven'
  BY DEF SerialsAreGiven, SerialsGiven
<1>7. SeenBeforeEnded'
  BY DEF SeenBeforeEnded
<1>8. PassedHasEntry'
  BY DEF PassedHasEntry
<1>9. UnmarkedHasNoLoopNote'
  BY DEF UnmarkedHasNoLoopNote
<1> QED
  BY <1>1, <1>2, <1>3, <1>4, <1>5, <1>6, <1>7, <1>8, <1>9

(* A timer that fires still watches the entry. *)
LEMMA WatchdogFiresHubInv ==
  ASSUME HubInv, NEW c \in Calls, NEW n \in Serials, WatchdogFires(c, n)
  PROVE  HubInv'
<1> USE DEF HubInv, HubTypeOK, WatchdogFires
<1>1. HubTypeOK'
  <2>1. wd[c][n] \in [state : WatchdogStates, got : Entries \cup {NoEntry}]
    OBVIOUS
  <2>2. [wd[c][n] EXCEPT !.state = "fired"]
         \in [state : WatchdogStates, got : Entries \cup {NoEntry}]
    BY <2>1 DEF WatchdogStates
  <2>3. wd' \in [Calls -> [Serials -> [state : WatchdogStates, got : Entries \cup {NoEntry}]]]
    BY <2>2
  <2> QED
    BY <2>3
<1>2. EntryIsWatched'
  BY DEF EntryIsWatched
<1>3. AcceptSettledOnce'
  BY DEF AcceptSettledOnce
<1>4. LoopWritesOneNote'
  BY DEF LoopWritesOneNote
<1>5. FinishedIsNotRung'
  BY ZenonT(30) DEF FinishedIsNotRung, BeingDropped
<1>6. SerialsAreGiven'
  BY DEF SerialsAreGiven, SerialsGiven
<1>7. SeenBeforeEnded'
  BY DEF SeenBeforeEnded
<1>8. PassedHasEntry'
  BY DEF PassedHasEntry
<1>9. UnmarkedHasNoLoopNote'
  BY DEF UnmarkedHasNoLoopNote
<1> QED
  BY <1>1, <1>2, <1>3, <1>4, <1>5, <1>6, <1>7, <1>8, <1>9

(* The entry a watchdog takes is nobody else's. *)
LEMMA WatchdogTakesHubInv ==
  ASSUME HubInv, NEW c \in Calls, NEW n \in Serials, WatchdogTakes(c, n)
  PROVE  HubInv'
<1> USE DEF HubInv, HubTypeOK, WatchdogTakes
<1>1. HubTypeOK'
  BY DEF WatchdogStates
<1>2. EntryIsWatched'
  BY DEF EntryIsWatched
<1>3. AcceptSettledOnce'
  <2> SUFFICES ASSUME NEW d \in Calls, NEW m \in Serials, wd'[d][m].got # NoEntry
               PROVE  /\ wd'[d][m].got.serial \notin cancelled'[d]
                      /\ entry'[d] # NoEntry => entry'[d].serial # wd'[d][m].got.serial
                      /\ \A l \in Serials : l # m /\ wd'[d][l].got # NoEntry =>
                            wd'[d][l].got.serial # wd'[d][m].got.serial
    BY DEF AcceptSettledOnce
  <2>1. CASE d # c
    BY <2>1 DEF AcceptSettledOnce
  <2>2. /\ wd'[c][n].got = entry[c] /\ entry'[c] = NoEntry
        /\ \A l \in Serials \ {n} : wd'[c][l] = wd[c][l]
    OBVIOUS
  <2>3. CASE d = c /\ m = n
    BY <2>2, <2>3 DEF AcceptSettledOnce, SerialsAreGiven, SerialsGiven
  <2>4. CASE d = c /\ m # n
    BY <2>2, <2>4 DEF AcceptSettledOnce
  <2> QED
    BY <2>1, <2>3, <2>4
<1>4. LoopWritesOneNote'
  BY DEF LoopWritesOneNote
<1>5. FinishedIsNotRung'
  BY DEF FinishedIsNotRung, BeingDropped
<1>6. SerialsAreGiven'
  <2>1. ASSUME NEW d \in Calls, d # c PROVE SerialsGiven(d)'
    BY <2>1 DEF SerialsAreGiven, SerialsGiven
  <2>2. SerialsGiven(c)'
    <3>1. /\ wd'[c][n].got = entry[c] /\ entry'[c] = NoEntry
          /\ \A l \in Serials \ {n} : wd'[c][l] = wd[c][l]
      OBVIOUS
    <3> QED
      BY <3>1 DEF SerialsAreGiven, SerialsGiven
  <2> QED
    BY <2>1, <2>2 DEF SerialsAreGiven
<1>7. SeenBeforeEnded'
  BY DEF SeenBeforeEnded
<1>8. PassedHasEntry'
  BY DEF PassedHasEntry
<1>9. UnmarkedHasNoLoopNote'
  BY DEF UnmarkedHasNoLoopNote
<1> QED
  BY <1>1, <1>2, <1>3, <1>4, <1>5, <1>6, <1>7, <1>8, <1>9

(* A watchdog goes on only with an entry. *)
LEMMA WatchdogLooksHubInv ==
  ASSUME HubInv, NEW c \in Calls, NEW n \in Serials, WatchdogLooks(c, n)
  PROVE  HubInv'
<1> USE DEF HubInv, HubTypeOK, WatchdogLooks
<1>1. HubTypeOK'
  <2>1. wd[c][n] \in [state : WatchdogStates, got : Entries \cup {NoEntry}]
    OBVIOUS
  <2>2. \A s \in WatchdogStates : [wd[c][n] EXCEPT !.state = s]
         \in [state : WatchdogStates, got : Entries \cup {NoEntry}]
    BY <2>1
  <2>4. PICK s \in {"over", "passed"} : wd' = [wd EXCEPT ![c][n].state = s]
    OBVIOUS
  <2>5. [wd[c][n] EXCEPT !.state = s] \in [state : WatchdogStates, got : Entries \cup {NoEntry}]
    BY <2>2, <2>4 DEF WatchdogStates
  <2>6. wd \in [Calls -> [Serials -> [state : WatchdogStates, got : Entries \cup {NoEntry}]]]
    OBVIOUS
  <2> HIDE DEF WatchdogLooks, HubInv, HubTypeOK
  <2>3. wd' \in [Calls -> [Serials -> [state : WatchdogStates, got : Entries \cup {NoEntry}]]]
    BY <2>4, <2>5, <2>6
  <2> USE DEF WatchdogLooks, HubInv, HubTypeOK
  <2> QED
    BY <2>3
<1>2. EntryIsWatched'
  BY ZenonT(30) DEF EntryIsWatched
<1>3. AcceptSettledOnce'
  BY DEF AcceptSettledOnce
<1>4. LoopWritesOneNote'
  BY DEF LoopWritesOneNote
<1>5. FinishedIsNotRung'
  <2>1. ASSUME NEW d \in Calls, NEW m \in Serials, wd[d][m].state = "marked"
        PROVE  wd'[d][m].state = "marked"
    BY <2>1
  <2>2. UNCHANGED <<finished, pending, late>>
    OBVIOUS
  <2>3. FinishedIsNotRung
    OBVIOUS
  <2> HIDE DEF WatchdogLooks, HubInv, HubTypeOK
  <2>4. ASSUME NEW d \in Calls, BeingDropped(d) PROVE BeingDropped(d)'
    BY <2>1, <2>4 DEF BeingDropped
  <2>5. finished \subseteq Calls
    BY DEF HubInv, HubTypeOK
  <2> QED
    BY <2>2, <2>3, <2>4, <2>5 DEF FinishedIsNotRung
<1>6. SerialsAreGiven'
  BY DEF SerialsAreGiven, SerialsGiven
<1>7. SeenBeforeEnded'
  BY DEF SeenBeforeEnded
<1>8. PassedHasEntry'
  BY DEF PassedHasEntry
<1>9. UnmarkedHasNoLoopNote'
  BY DEF UnmarkedHasNoLoopNote
<1> QED
  BY <1>1, <1>2, <1>3, <1>4, <1>5, <1>6, <1>7, <1>8, <1>9

(* The mark of a watchdog excuses the call until the watchdog has dropped it. *)
LEMMA WatchdogMarksHubInv ==
  ASSUME HubInv, NEW c \in Calls, NEW n \in Serials, WatchdogMarks(c, n)
  PROVE  HubInv'
<1> USE DEF HubInv, HubTypeOK, WatchdogMarks
<1>1. HubTypeOK'
  <2>1. wd[c][n] \in [state : WatchdogStates, got : Entries \cup {NoEntry}]
    OBVIOUS
  <2>2. [wd[c][n] EXCEPT !.state = "marked"]
         \in [state : WatchdogStates, got : Entries \cup {NoEntry}]
    BY <2>1 DEF WatchdogStates
  <2>3. wd' \in [Calls -> [Serials -> [state : WatchdogStates, got : Entries \cup {NoEntry}]]]
    BY <2>2
  <2> QED
    BY <2>3
<1>2. EntryIsWatched'
  BY ZenonT(30) DEF EntryIsWatched
<1>3. AcceptSettledOnce'
  BY DEF AcceptSettledOnce
<1>4. LoopWritesOneNote'
  BY DEF LoopWritesOneNote
<1>5. FinishedIsNotRung'
  BY DEF FinishedIsNotRung, BeingDropped
<1>6. SerialsAreGiven'
  BY DEF SerialsAreGiven, SerialsGiven
<1>7. SeenBeforeEnded'
  BY DEF SeenBeforeEnded
<1>8. PassedHasEntry'
  BY DEF PassedHasEntry
<1>9. UnmarkedHasNoLoopNote'
  BY DEF UnmarkedHasNoLoopNote
<1> QED
  BY <1>1, <1>2, <1>3, <1>4, <1>5, <1>6, <1>7, <1>8, <1>9

(* What a watchdog drops is not rung any more. *)
LEMMA WatchdogDropsHubInv ==
  ASSUME HubInv, NEW c \in Calls, NEW n \in Serials, WatchdogDrops(c, n)
  PROVE  HubInv'
<1> USE DEF HubInv, HubTypeOK, WatchdogDrops
<1>1. HubTypeOK'
  <2>1. wd[c][n] \in [state : WatchdogStates, got : Entries \cup {NoEntry}]
    OBVIOUS
  <2>2. [wd[c][n] EXCEPT !.state = "dropped"]
         \in [state : WatchdogStates, got : Entries \cup {NoEntry}]
    BY <2>1 DEF WatchdogStates
  <2>3. wd' \in [Calls -> [Serials -> [state : WatchdogStates, got : Entries \cup {NoEntry}]]]
    BY <2>2
  <2> QED
    BY <2>3
<1>2. EntryIsWatched'
  BY ZenonT(30) DEF EntryIsWatched
<1>3. AcceptSettledOnce'
  BY DEF AcceptSettledOnce
<1>4. LoopWritesOneNote'
  BY DEF LoopWritesOneNote
<1>5. FinishedIsNotRung'
  BY DEF FinishedIsNotRung, BeingDropped
<1>6. SerialsAreGiven'
  BY DEF SerialsAreGiven, SerialsGiven
<1>7. SeenBeforeEnded'
  BY DEF SeenBeforeEnded
<1>8. PassedHasEntry'
  BY DEF PassedHasEntry
<1>9. UnmarkedHasNoLoopNote'
  BY DEF UnmarkedHasNoLoopNote
<1> QED
  BY <1>1, <1>2, <1>3, <1>4, <1>5, <1>6, <1>7, <1>8, <1>9

(* The watchdog's message is not one of the loop's. *)
LEMMA WatchdogEndsHubInv ==
  ASSUME HubInv, NEW c \in Calls, NEW n \in Serials, WatchdogEnds(c, n)
  PROVE  HubInv'
<1> USE DEF HubInv, HubTypeOK, WatchdogEnds
<1>1. HubTypeOK'
  <2>1. wd[c][n] \in [state : WatchdogStates, got : Entries \cup {NoEntry}]
    OBVIOUS
  <2>2. [wd[c][n] EXCEPT !.state = "over"]
         \in [state : WatchdogStates, got : Entries \cup {NoEntry}]
    BY <2>1 DEF WatchdogStates
  <2>3. wd' \in [Calls -> [Serials -> [state : WatchdogStates, got : Entries \cup {NoEntry}]]]
    BY <2>2
  <2>4. notes' \in [Calls -> [loop : Nat, watchdog : Nat]]
    <3>1. [notes[c] EXCEPT !.watchdog = @ + 1] \in Note
      BY NoteAdded DEF Note
    <3> QED
      BY <3>1 DEF Note
  <2> QED
    BY <2>3, <2>4
<1>2. EntryIsWatched'
  BY ZenonT(30) DEF EntryIsWatched
<1>3. AcceptSettledOnce'
  BY DEF AcceptSettledOnce
<1>4. LoopWritesOneNote'
  BY DEF LoopWritesOneNote
<1>5. FinishedIsNotRung'
  BY DEF FinishedIsNotRung, BeingDropped
<1>6. SerialsAreGiven'
  BY DEF SerialsAreGiven, SerialsGiven
<1>7. SeenBeforeEnded'
  BY DEF SeenBeforeEnded
<1>8. PassedHasEntry'
  BY DEF PassedHasEntry
<1>9. UnmarkedHasNoLoopNote'
  BY DEF UnmarkedHasNoLoopNote
<1> QED
  BY <1>1, <1>2, <1>3, <1>4, <1>5, <1>6, <1>7, <1>8, <1>9

(* The mark goes together with the messages it counts. *)
LEMMA FinishedExpiresHubInv ==
  ASSUME HubInv, NEW c \in Calls, FinishedExpires(c)
  PROVE  HubInv'
<1> USE DEF HubInv, HubTypeOK, FinishedExpires
<1>1. HubTypeOK'
  BY DEF WatchdogStates
<1>2. EntryIsWatched'
  BY DEF EntryIsWatched
<1>3. AcceptSettledOnce'
  BY DEF AcceptSettledOnce
<1>4. LoopWritesOneNote'
  BY DEF LoopWritesOneNote
<1>5. FinishedIsNotRung'
  BY DEF FinishedIsNotRung, BeingDropped
<1>6. SerialsAreGiven'
  BY DEF SerialsAreGiven, SerialsGiven
<1>7. SeenBeforeEnded'
  BY DEF SeenBeforeEnded
<1>8. PassedHasEntry'
  BY DEF PassedHasEntry
<1>9. UnmarkedHasNoLoopNote'
  BY DEF UnmarkedHasNoLoopNote
<1> QED
  BY <1>1, <1>2, <1>3, <1>4, <1>5, <1>6, <1>7, <1>8, <1>9

(* Every step of the hub, and every stutter, preserves it. *)
LEMMA NextHubInv == HubInv /\ [HubNext]_hubVars => HubInv'
<1> SUFFICES ASSUME HubInv, [HubNext]_hubVars PROVE HubInv'
  OBVIOUS
<1>1. CASE HubNext
  BY <1>1, HubCallHubInv, BufferExpiresHubInv, HubAcceptHubInv, HubAnswerHubInv, HubEndHubInv,
     HubFinishHubInv, WatchdogFiresHubInv, WatchdogTakesHubInv, WatchdogLooksHubInv,
     WatchdogMarksHubInv, WatchdogDropsHubInv, WatchdogEndsHubInv, FinishedExpiresHubInv DEF HubNext, WatchdogSteps
<1>2. CASE UNCHANGED hubVars
  BY <1>2 DEF HubInv, HubTypeOK, EntryIsWatched, AcceptSettledOnce, LoopWritesOneNote,
         FinishedIsNotRung, BeingDropped, SerialsAreGiven, SerialsGiven,
         SeenBeforeEnded, PassedHasEntry, UnmarkedHasNoLoopNote
<1> QED
  BY <1>1, <1>2

(* The strengthening holds in every reachable state. *)
LEMMA HubInvariance == HubSafety => []HubInv
  BY InitHubInv, NextHubInv, PTL DEF HubSafety

(* The hub's maps hold what their types say, whatever frames arrive. *)
THEOREM HubTypeCorrect == HubSafety => []HubTypeOK
<1>1. HubInv => HubTypeOK
  BY DEF HubInv
<1> QED
  BY <1>1, HubInvariance, PTL

(* No accept that waits for its answer is left without a watchdog. *)
THEOREM HubEntryIsWatched == HubSafety => []EntryIsWatched
<1>1. HubInv => EntryIsWatched
  BY DEF HubInv
<1> QED
  BY <1>1, HubInvariance, PTL

(* An accept is settled by one frame or by one watchdog, never by two. *)
THEOREM HubAcceptSettledOnce == HubSafety => []AcceptSettledOnce
<1>1. HubInv => AcceptSettledOnce
  BY DEF HubInv
<1> QED
  BY <1>1, HubInvariance, PTL

(* Both sides hanging up leaves one message of the loop. *)
THEOREM HubLoopWritesOneNote == HubSafety => []LoopWritesOneNote
<1>1. HubInv => LoopWritesOneNote
  BY DEF HubInv
<1> QED
  BY <1>1, HubInvariance, PTL

(***************************************************************************)
(* A call marked finished is in the buffer, and so rung by an agent who    *)
(* connects, only while the watchdog that marked it still has to drop it,  *)
(* or when its voice_call has come again after the mark.                   *)
(***************************************************************************)
THEOREM HubNoGhostRing == HubSafety => []FinishedIsNotRung
<1>1. HubInv => FinishedIsNotRung
  BY DEF HubInv
<1> QED
  BY <1>1, HubInvariance, PTL

HIDE VoiceHubAssumption DEF Serials, Entries, Watching, LoopIsFree,
    callVars, acceptVars, endVars, hubVars

-----------------------------------------------------------------------------
(* The widget, the app and the queues around the hub.                      *)
CallInv == HubInv /\ ClientTypeOK

HubStep == HubNext \/ UNCHANGED hubVars

Queues == [Clients -> Seq(Frames)]

VisitorRecords == [state : {"idle", "ringing", "accepting", "talking", "ended"},
                   call : Calls \cup {NoCall}, peer : Agents \cup {NoOne},
                   asking : Nat]

AgentRecords == [state : {"idle", "incoming", "accepting", "talking", "ended"},
                 call : Calls \cup {NoCall}, caller : Visitors \cup {NoOne},
                 asking : Nat, timer : BOOLEAN]

-----------------------------------------------------------------------------
USE VoiceCallAssumption, VoiceHubAssumption DEF Clients, Queues, FrameTypes

(* A frame on its way adds one frame to some of the queues. *)
LEMMA RoutedQueues ==
  ASSUME NEW queues \in Queues, NEW f \in Frames
  PROVE  Routed(queues, f) \in Queues
  BY DEF Routed

(* Handling a frame is a step of the hub. *)
LEMMA TransmitSteps ==
  ASSUME NEW queues \in Queues, NEW f \in Frames, Transmit(queues, f),
         f.type = "voice_accept" => f.from \in Agents
  PROVE  HubStep /\ down' \in Queues
<1>1. CASE f.from \in Visitors \cup online
  <2>1. HandleFrame(f) /\ down' = Routed(queues, f)
    BY <1>1 DEF Transmit, Deliver
  <2>2. f.call \in Calls \cup {NoCall}
    BY DEF Frames
  <2>3. HubStep
    BY <2>1, <2>2 DEF HandleFrame, HubStep, HubNext
  <2> QED
    BY <2>1, <2>3, RoutedQueues
<1>2. CASE f.from \notin Visitors \cup online
  BY <1>2 DEF Transmit, HubStep
<1> QED
  BY <1>1, <1>2

(* Taking a frame from a queue gives a frame and leaves a queue. *)
LEMMA TakenFrame ==
  ASSUME ClientTypeOK, NEW x \in Clients, NEW types, Got(x, types)
  PROVE  Head(down[x]) \in Frames /\ Rest(x) \in Queues /\ Head(down[x]).type \in types
<1>1. down[x] \in Seq(Frames) /\ down[x] # <<>>
  BY DEF ClientTypeOK, Got
<1>2. Head(down[x]) \in Frames /\ Tail(down[x]) \in Seq(Frames)
  BY <1>1
<1> QED
  BY <1>2 DEF Rest, Got, ClientTypeOK

(* voiceEnd leaves a well-formed widget behind. *)
LEMMA VoiceEndSteps ==
  ASSUME ClientTypeOK, NEW v \in Visitors, NEW queues \in Queues, VoiceEnd(v, queues)
  PROVE  HubStep /\ down' \in Queues /\ vis' \in [Visitors -> VisitorRecords]
<1>1. vis[v] \in VisitorRecords /\ vis \in [Visitors -> VisitorRecords]
  BY DEF ClientTypeOK, VisitorRecords
<1>2. Frame("voice_end", v, vis[v].peer, vis[v].call) \in Frames
  BY <1>1 DEF Frame, Frames, VisitorRecords
<1>3. HubStep /\ down' \in Queues
  BY <1>2, TransmitSteps DEF VoiceEnd, Frame
<1>4. vis' \in [Visitors -> VisitorRecords]
  BY <1>1 DEF VoiceEnd, VisitorRecords
<1> QED
  BY <1>3, <1>4

(* A step that tells the hub nothing. *)
LEMMA SilentSteps ==
  ASSUME NEW queues \in Queues, Silent(queues)
  PROVE  HubStep /\ down' \in Queues
  BY DEF Silent, HubStep

(* _end's notice, if any, is a step of the hub. *)
LEMMA NotifySteps ==
  ASSUME ClientTypeOK, NEW a \in Agents, NEW queues \in Queues, Notify(a, queues)
  PROVE  HubStep /\ down' \in Queues
<1>1. agt[a] \in AgentRecords
  BY DEF ClientTypeOK, AgentRecords
<1>2. CASE agt[a].call # NoCall /\ agt[a].caller # NoOne
  <2>1. ToCaller(a, "voice_end") \in Frames
    BY <1>1 DEF ToCaller, Frame, Frames, AgentRecords
  <2>2. Transmit(queues, ToCaller(a, "voice_end"))
    BY <1>2 DEF Notify
  <2> QED
    BY <2>1, <2>2, TransmitSteps DEF ToCaller, Frame
<1>3. CASE ~(agt[a].call # NoCall /\ agt[a].caller # NoOne)
  BY <1>3, SilentSteps DEF Notify
<1> QED
  BY <1>2, <1>3

-----------------------------------------------------------------------------
(* The widget's steps. *)
LEMMA WidgetSteps ==
  ASSUME ClientTypeOK, NEW v \in Visitors,
         \/ \E c \in Calls : VoiceStart(v, c)
         \/ VoiceStartMic(v) \/ VisitorHangUp(v) \/ VisitorRingTimeout(v)
         \/ VisitorIdle(v) \/ WidgetHandles(v)
  PROVE  HubStep /\ ClientTypeOK'
<1>1. /\ vis[v] \in VisitorRecords /\ vis \in [Visitors -> VisitorRecords]
      /\ down \in Queues /\ v \in Clients
  BY DEF ClientTypeOK, VisitorRecords
<1>2. UNCHANGED <<agt, online, drops>>
  BY DEF VoiceStart, VoiceStartMic, VisitorHangUp, VisitorRingTimeout, VisitorIdle,
         WidgetHandles, VoiceOnAccept, VoiceOnAnswer, VoiceOnReject, VoiceOnEnd,
         WidgetIgnores, WidgetOnly
<1> SUFFICES /\ HubStep /\ down' \in Queues /\ dialed' \subseteq Calls
             /\ vis' \in [Visitors -> VisitorRecords]
  BY <1>2 DEF ClientTypeOK, VisitorRecords
<1>3. ASSUME NEW c \in Calls, VoiceStart(v, c)
      PROVE  /\ HubStep /\ down' \in Queues /\ dialed' \subseteq Calls
             /\ vis' \in [Visitors -> VisitorRecords]
  <2>1. vis[v].asking + 1 \in Nat
    BY <1>1 DEF VisitorRecords
  <2>2. vis' \in [Visitors -> VisitorRecords]
    BY <1>1, <1>3, <2>1 DEF VoiceStart, VisitorRecords
  <2> QED
    BY <1>1, <1>3, <2>2, SilentSteps DEF VoiceStart, ClientTypeOK
<1>4. CASE ~ \E c \in Calls : VoiceStart(v, c)
  <2>1. dialed' \subseteq Calls
    BY <1>4 DEF VoiceStartMic, VisitorHangUp, VisitorRingTimeout, VisitorIdle,
           WidgetHandles, VoiceOnAccept, VoiceOnAnswer, VoiceOnReject, VoiceOnEnd,
           WidgetIgnores, WidgetOnly, ClientTypeOK
  <2>2. CASE VoiceStartMic(v)
    <3>1. Frame("voice_call", v, NoOne, vis[v].call) \in Frames
      BY <1>1 DEF Frame, Frames, VisitorRecords
    <3>2. HubStep /\ down' \in Queues
      BY <1>1, <2>2, <3>1, SilentSteps, TransmitSteps DEF VoiceStartMic, Frame
    <3>3. vis[v].asking - 1 \in Nat
      BY <1>1, <2>2 DEF VoiceStartMic, VisitorRecords
    <3>4. CASE vis' = [vis EXCEPT ![v].asking = @ - 1]
      BY <1>1, <2>1, <3>2, <3>3, <3>4 DEF VisitorRecords
    <3>5. CASE vis' = [vis EXCEPT ![v].asking = @ - 1, ![v].state = "idle"]
      BY <1>1, <2>1, <3>2, <3>3, <3>5 DEF VisitorRecords
    <3> QED
      BY <2>2, <3>4, <3>5 DEF VoiceStartMic
  <2>3. CASE VisitorHangUp(v) \/ VisitorRingTimeout(v)
    BY <1>1, <2>1, <2>3, VoiceEndSteps DEF VisitorHangUp, VisitorRingTimeout
  <2>4. CASE VisitorIdle(v)
    BY <1>1, <2>1, <2>4, SilentSteps DEF VisitorIdle, VisitorRecords
  <2>5. CASE VoiceOnAccept(v)
    <3> Got(v, {"voice_accept"})
      BY <2>5 DEF VoiceOnAccept
    <3>1. Head(down[v]) \in Frames /\ Rest(v) \in Queues
          /\ Head(down[v]).type \in {"voice_accept"}
      BY <1>1, TakenFrame
    <3>2. CASE vis[v].state = "ringing" /\ Head(down[v]).call = vis[v].call
                /\ Head(down[v]).from \in Agents
      <4>1. Frame("voice_offer", v, Head(down[v]).from, Head(down[v]).call) \in Frames
        BY <3>1 DEF Frame, Frames
      <4>2. HubStep /\ down' \in Queues
        BY <2>5, <3>1, <3>2, <4>1, TransmitSteps DEF VoiceOnAccept, Frame
      <4>3. vis' = [vis EXCEPT ![v].state = "accepting", ![v].peer = Head(down[v]).from]
        BY <2>5, <3>2 DEF VoiceOnAccept
      <4>4. vis' \in [Visitors -> VisitorRecords]
        BY <1>1, <3>2, <4>3 DEF VisitorRecords
      <4> QED
        BY <2>1, <4>2, <4>4
    <3>3. CASE ~(vis[v].state = "ringing" /\ Head(down[v]).call = vis[v].call)
      BY <1>1, <2>1, <2>5, <3>1, <3>3, SilentSteps DEF VoiceOnAccept
    <3>4. Head(down[v]).from \in Agents
      BY <3>1 DEF Frames
    <3> QED
      BY <3>2, <3>3, <3>4
  <2>6. CASE VoiceOnAnswer(v)
    <3>1. Rest(v) \in Queues
      BY <1>1, <2>6, TakenFrame DEF VoiceOnAnswer
    <3>2. CASE VoiceEnd(v, Rest(v))
      BY <2>1, <3>1, <3>2, VoiceEndSteps
    <3>3. CASE Silent(Rest(v)) /\ vis' = [vis EXCEPT ![v].state = "talking"]
      <4>1. vis' \in [Visitors -> VisitorRecords]
        BY <1>1, <3>3 DEF VisitorRecords
      <4> QED
        BY <2>1, <3>1, <3>3, <4>1, SilentSteps
    <3>4. CASE Silent(Rest(v)) /\ UNCHANGED vis
      BY <1>1, <2>1, <3>1, <3>4, SilentSteps
    <3> QED
      BY <2>6, <3>2, <3>3, <3>4 DEF VoiceOnAnswer
  <2>7. CASE VoiceOnReject(v) \/ VoiceOnEnd(v)
    <3>1. Rest(v) \in Queues
      BY <1>1, <2>7, TakenFrame DEF VoiceOnReject, VoiceOnEnd
    <3> QED
      BY <1>1, <2>1, <2>7, <3>1, VoiceEndSteps, SilentSteps DEF VoiceOnReject, VoiceOnEnd
  <2>8. CASE WidgetIgnores(v)
    <3>1. Rest(v) \in Queues
      BY <1>1, <2>8, TakenFrame DEF WidgetIgnores
    <3> QED
      BY <1>1, <2>1, <2>8, <3>1, SilentSteps DEF WidgetIgnores
  <2> QED
    BY <1>4, <2>2, <2>3, <2>4, <2>5, <2>6, <2>7, <2>8 DEF WidgetHandles
<1> QED
  BY <1>3, <1>4

-----------------------------------------------------------------------------
(* The app's steps. *)
LEMMA AppSteps ==
  ASSUME ClientTypeOK, NEW a \in Agents,
         \/ Accept(a) \/ AcceptMic(a) \/ AcceptMicFails(a) \/ AcceptPrepareFails(a)
         \/ AgentReject(a) \/ AgentHangUp(a) \/ AgentRingTimeout(a) \/ AgentIdle(a)
         \/ AppHandles(a)
  PROVE  HubStep /\ ClientTypeOK'
<1>1. /\ agt[a] \in AgentRecords /\ agt \in [Agents -> AgentRecords]
      /\ down \in Queues /\ a \in Clients
  BY DEF ClientTypeOK, AgentRecords
<1>2. UNCHANGED <<vis, dialed, online, drops>>
  BY DEF Accept, AcceptMic, AcceptMicFails, AcceptPrepareFails, AgentReject, AgentHangUp,
         AgentRingTimeout, AgentIdle, AppHandles, OnIncoming, OnTaken, OnOffer,
         OnRemoteEnd, OnRemoteFinished, AppIgnores, AppOnly
<1>3. \A s \in {"voice_accept", "voice_end", "voice_reject", "voice_answer"} :
         ToCaller(a, s) \in Frames /\ ToCaller(a, s).type = s /\ ToCaller(a, s).from = a
  BY <1>1 DEF ToCaller, Frame, Frames, AgentRecords
<1>4. Ended(a) \in [Agents -> AgentRecords]
  BY <1>1 DEF Ended, AgentRecords
<1>5. ASSUME NEW types, Got(a, types)
      PROVE  Head(down[a]) \in Frames /\ Rest(a) \in Queues /\ Head(down[a]).type \in types
  BY <1>1, <1>5, TakenFrame
<1>6. \A s \in {"idle", "accepting", "talking"}, k \in Nat :
        /\ [agt EXCEPT ![a].state = s] \in [Agents -> AgentRecords]
        /\ [agt EXCEPT ![a].state = s, ![a].timer = FALSE] \in [Agents -> AgentRecords]
        /\ [agt EXCEPT ![a].asking = k] \in [Agents -> AgentRecords]
        /\ [agt EXCEPT ![a].asking = k, ![a].timer = FALSE] \in [Agents -> AgentRecords]
        /\ [agt EXCEPT ![a].asking = k, ![a].state = s] \in [Agents -> AgentRecords]
        /\ [Ended(a) EXCEPT ![a].state = s] \in [Agents -> AgentRecords]
        /\ [Ended(a) EXCEPT ![a].asking = k] \in [Agents -> AgentRecords]
  <2>1. ASSUME NEW r \in AgentRecords, NEW s \in {"idle", "accepting", "talking"}, NEW k \in Nat
        PROVE  /\ [r EXCEPT !.state = s] \in AgentRecords
               /\ [r EXCEPT !.asking = k] \in AgentRecords
               /\ [r EXCEPT !.timer = FALSE] \in AgentRecords
    BY DEF AgentRecords
  <2> HIDE DEF AgentRecords
  <2> QED
    BY <1>1, <1>4, <2>1
<1>20. /\ agt[a].asking \in Nat /\ agt[a].asking + 1 \in Nat
       /\ agt[a].asking > 0 => agt[a].asking - 1 \in Nat
       /\ Ended(a)[a].asking = agt[a].asking
  BY <1>1 DEF AgentRecords, Ended
<1> DEFINE Good == HubStep /\ down' \in Queues /\ agt' \in [Agents -> AgentRecords]
<1> SUFFICES Good
  BY <1>2 DEF ClientTypeOK, AgentRecords
<1>7. CASE Accept(a)
  BY <1>1, <1>6, <1>7, <1>20, SilentSteps DEF Accept
<1>8. CASE AcceptMic(a)
  <2>1. agt' \in [Agents -> AgentRecords]
    BY <1>6, <1>8, <1>20 DEF AcceptMic
  <2>2. CASE a \in online
    <3>1. HandleFrame(ToCaller(a, "voice_accept"))
      BY <1>8, <2>2 DEF AcceptMic
    <3>2. HubStep
      <4>1. ToCaller(a, "voice_accept").call \in Calls \cup {NoCall}
        BY <1>3 DEF Frames
      <4> QED
        BY <1>3, <3>1, <4>1 DEF HandleFrame, HubStep, HubNext
    <3>3. Frame("voice_taken", a, NoOne, agt[a].call) \in Frames
      BY <1>1 DEF Frame, Frames, AgentRecords
    <3>4. down' = Routed(Routed(down, ToCaller(a, "voice_accept")),
                         Frame("voice_taken", a, NoOne, agt[a].call))
      BY <1>8, <2>2 DEF AcceptMic, Deliver
    <3>5. down' \in Queues
      BY <1>1, <1>3, <3>3, <3>4, RoutedQueues
    <3> QED
      BY <2>1, <3>2, <3>5
  <2>3. CASE a \notin online
    BY <1>1, <1>8, <2>1, <2>3, SilentSteps DEF AcceptMic
  <2> QED
    BY <2>2, <2>3
<1>9. CASE AcceptMicFails(a)
  BY <1>1, <1>6, <1>9, <1>20, SilentSteps DEF AcceptMicFails
<1>10. CASE AcceptPrepareFails(a)
  <2>1. agt' \in [Agents -> AgentRecords]
    <3>1. CASE agt[a].state = "idle"
      <4>1. agt' = [agt EXCEPT ![a].asking = agt[a].asking - 1] /\ agt[a].asking - 1 \in Nat
        BY <3>1, <1>10, <1>20 DEF AcceptPrepareFails
      <4> QED
        BY <4>1, <1>6
    <3>2. CASE agt[a].state # "idle"
      <4>1. agt' = [Ended(a) EXCEPT ![a].asking = Ended(a)[a].asking - 1]
        BY <3>2, <1>10 DEF AcceptPrepareFails
      <4> QED
        BY <4>1, <1>6, <1>10, <1>20 DEF AcceptPrepareFails
    <3> QED
      BY <3>1, <3>2
  <2> QED
    BY <1>1, <1>10, <2>1, SilentSteps, NotifySteps DEF AcceptPrepareFails
<1>11. CASE AgentReject(a)
  BY <1>1, <1>3, <1>4, <1>11, TransmitSteps DEF AgentReject
<1>12. CASE AgentHangUp(a)
  BY <1>1, <1>4, <1>12, NotifySteps DEF AgentHangUp
<1>13. CASE AgentRingTimeout(a) \/ AgentIdle(a)
  <2>1. agt' \in [Agents -> AgentRecords]
    <3>1. [agt EXCEPT ![a].state = "idle"] \in [Agents -> AgentRecords]
      BY <1>1 DEF AgentRecords
    <3> QED
      BY <1>4, <1>13, <3>1 DEF AgentRingTimeout, AgentIdle
  <2> QED
    BY <1>1, <1>13, <2>1, SilentSteps DEF AgentRingTimeout, AgentIdle
<1>14. CASE OnIncoming(a)
  <2> DEFINE f == Head(down[a])
  <2>1. f \in Frames /\ Rest(a) \in Queues /\ f.type \in {"voice_call"}
    BY <1>5, <1>14 DEF OnIncoming
  <2>2. f.from \in Visitors /\ f.call \in Calls \cup {NoCall}
    BY <2>1 DEF Frames
  <2>3. CASE agt[a].state \in {"idle", "ended"}
    <3>1. agt' = [agt EXCEPT ![a].state = "incoming", ![a].call = f.call,
                             ![a].caller = f.from, ![a].timer = TRUE]
      BY <1>14, <2>3 DEF OnIncoming
    <3>2. agt' \in [Agents -> AgentRecords]
      BY <1>1, <2>2, <3>1 DEF AgentRecords
    <3> QED
      BY <1>14, <2>1, <2>3, <3>2, SilentSteps DEF OnIncoming
  <2>4. CASE agt[a].state \notin {"idle", "ended"}
    <3>1. Frame("voice_reject", a, f.from, f.call) \in Frames
      BY <2>2 DEF Frame, Frames
    <3> QED
      BY <1>1, <1>14, <2>1, <2>4, <3>1, TransmitSteps DEF OnIncoming, Frame
  <2> QED
    BY <2>3, <2>4
<1>15. CASE OnTaken(a)
  BY <1>1, <1>5, <1>6, <1>15, SilentSteps DEF OnTaken
<1>16. CASE OnOffer(a)
  <2>1. Rest(a) \in Queues
    BY <1>5, <1>16 DEF OnOffer
  <2>2. CASE agt' = [agt EXCEPT ![a].state = "talking", ![a].timer = FALSE]
             /\ Transmit(Rest(a), ToCaller(a, "voice_answer"))
    BY <1>3, <1>6, <2>1, <2>2, TransmitSteps
  <2>3. CASE agt' = Ended(a) /\ Notify(a, Rest(a))
    BY <1>4, <2>1, <2>3, NotifySteps
  <2>4. CASE UNCHANGED agt /\ Silent(Rest(a))
    BY <1>1, <2>1, <2>4, SilentSteps
  <2> QED
    BY <1>16, <2>2, <2>3, <2>4 DEF OnOffer
<1>17. CASE OnRemoteEnd(a)
  BY <1>1, <1>4, <1>5, <1>17, SilentSteps DEF OnRemoteEnd
<1>18. CASE OnRemoteFinished(a)
  BY <1>1, <1>4, <1>5, <1>18, SilentSteps DEF OnRemoteFinished
<1>19. CASE AppIgnores(a)
  BY <1>1, <1>5, <1>19, SilentSteps DEF AppIgnores
<1> QED
  BY <1>7, <1>8, <1>9, <1>10, <1>11, <1>12, <1>13, <1>14, <1>15, <1>16, <1>17, <1>18,
     <1>19 DEF AppHandles

-----------------------------------------------------------------------------
(* Broken connections and reconnections do not touch the hub's call maps. *)
LEMMA ConnectionSteps ==
  ASSUME CallInv, NEW a \in Agents, AgentDrops(a) \/ AgentRegisters(a)
  PROVE  HubStep /\ ClientTypeOK'
<1>1. CASE AgentDrops(a)
  BY <1>1 DEF AgentDrops, Silent, HubStep, CallInv, ClientTypeOK
<1>2. CASE AgentRegisters(a)
  <2>1. PICK order \in SetToSeqs(pending) :
           Silent([down EXCEPT ![a] =
              [i \in DOMAIN order |-> Frame("voice_call", Caller[order[i]], NoOne, order[i])]])
    BY <1>2 DEF AgentRegisters
  <2>2. pending \subseteq Calls /\ Cardinality(pending) \in Nat
    BY FS_Subset, FS_CardinalityType DEF CallInv, HubInv, HubTypeOK
  <2>3. order \in [1..Cardinality(pending) -> pending]
    BY DEF SetToSeqs
  <2>4. \A i \in DOMAIN order :
           Frame("voice_call", Caller[order[i]], NoOne, order[i]) \in Frames
    BY <2>2, <2>3 DEF Frame, Frames
  <2>5. [i \in DOMAIN order |-> Frame("voice_call", Caller[order[i]], NoOne, order[i])]
           \in Seq(Frames)
    BY <2>2, <2>3, <2>4
  <2>6. down' \in Queues /\ HubStep
    BY <2>1, <2>5 DEF Silent, HubStep, CallInv, ClientTypeOK
  <2> QED
    BY <1>2, <2>6 DEF AgentRegisters, CallInv, ClientTypeOK
<1> QED
  BY <1>1, <1>2

(* The end of a watchdog is that of VoiceHub, and tells the agent it knows. *)
LEMMA WatchdogTellsSteps ==
  ASSUME CallInv, NEW c \in Calls, NEW n \in Serials, WatchdogTells(c, n)
  PROVE  HubStep /\ ClientTypeOK'
<1>1. WatchdogEnds(c, n)
  BY DEF WatchdogTells
<1>2. HubStep
  BY <1>1 DEF HubStep, HubNext, WatchdogSteps
<1>3. wd[c][n].got \in Entries
  BY <1>1 DEF WatchdogEnds, CallInv, HubInv, HubTypeOK, PassedHasEntry
<1>4. \A x \in {wd[c][n].got.agent, Caller[c]} :
         Frame("voice_finished", NoOne, x, c) \in Frames
  BY <1>3 DEF Frame, Frames, Entries
<1>5. down \in Queues
  BY DEF CallInv, ClientTypeOK
<1>6. down' \in Queues
  BY <1>4, <1>5, RoutedQueues DEF WatchdogTells, Deliver
<1> QED
  BY <1>2, <1>6 DEF WatchdogTells, CallInv, ClientTypeOK

(* The hub on its own leaves the clients alone. *)
LEMMA HubAloneSteps ==
  ASSUME CallInv, HubAlone
  PROVE  HubStep /\ ClientTypeOK'
  BY DEF HubAlone, HubStep, HubNext, WatchdogSteps, clientVars, CallInv, ClientTypeOK

(* Every step is one of the hub or leaves it alone, and keeps the types. *)
LEMMA NextSteps ==
  ASSUME CallInv, [Next]_vars
  PROVE  [HubNext]_hubVars /\ CallInv'
<1>1. HubStep /\ ClientTypeOK'
  <2>1. CASE Next
    BY <2>1, WidgetSteps, AppSteps, ConnectionSteps, WatchdogTellsSteps, HubAloneSteps
       DEF Next, CallInv
  <2>2. CASE UNCHANGED vars
    BY <2>2 DEF vars, clientVars, HubStep, CallInv, ClientTypeOK
  <2> QED
    BY <2>1, <2>2
<1>2. [HubNext]_hubVars
  BY <1>1 DEF HubStep
<1>3. HubInv'
  BY <1>2, NextHubInv DEF CallInv
<1> QED
  BY <1>1, <1>2, <1>3 DEF CallInv

(* At first nothing rings. *)
LEMMA InitCallInv == Init => HubInit /\ CallInv
<1>1. Init => HubInit
  BY DEF Init
<1>2. Init => ClientTypeOK
  BY DEF Init, ClientTypeOK
<1> QED
  BY <1>1, <1>2, InitHubInv DEF CallInv

(* The strengthening holds in every reachable state of a call. *)
LEMMA CallInvariance == Spec => []CallInv
  BY InitCallInv, NextSteps, PTL DEF Spec

-----------------------------------------------------------------------------
(***************************************************************************)
(* Who is on the line.  An agent gets on it by an offer, the widget offers *)
(* a call only while it rings, and a call rings until its first offer.  So *)
(* at most one agent is involved in a call: has its offer waiting, or      *)
(* talks in it.                                                            *)
(***************************************************************************)
Offered(queues, a, c) ==
    \E i \in DOMAIN queues[a] : queues[a][i].type = "voice_offer" /\ queues[a][i].call = c

Involved(a, c) == Offered(down, a, c) \/ (agt[a].state = "talking" /\ agt[a].call = c)

Rings(v, c) == vis[v].state = "ringing" /\ vis[v].call = c

LineInv ==
    /\ \A v \in Visitors : vis[v].state = "ringing" =>
          vis[v].call \in dialed /\ Caller[vis[v].call] = v
    /\ \A a \in Agents, c \in Calls \cup {NoCall} : Involved(a, c) =>
          /\ c \in dialed
          /\ \A v \in Visitors : ~Rings(v, c)
          /\ \A b \in Agents : Involved(b, c) => a = b

\* queues without an offer that was not waiting before
Quiet(queues) ==
    \A a \in Agents, c \in Calls \cup {NoCall} : Offered(queues, a, c) => Offered(down, a, c)

(* A step that offers nothing, rings for nothing and puts nobody on the line. *)
LEMMA CalmSteps ==
  ASSUME LineInv, dialed \subseteq dialed',
         \A v \in Visitors : vis'[v].state = "ringing" =>
            vis[v].state = "ringing" /\ vis'[v].call = vis[v].call,
         \A a \in Agents, c \in Calls \cup {NoCall} : Involved(a, c)' => Involved(a, c)
  PROVE  LineInv'
<1>1. \A v \in Visitors : vis'[v].state = "ringing" =>
         vis'[v].call \in dialed' /\ Caller[vis'[v].call] = v
  BY DEF LineInv
<1>2. \A v \in Visitors, c \in Calls \cup {NoCall} : Rings(v, c)' => Rings(v, c)
  BY DEF Rings
<1> QED
  BY <1>1, <1>2 DEF LineInv

LEMMA RoutedOffers ==
  ASSUME NEW queues \in Queues, NEW f \in Frames, NEW a \in Agents, NEW c,
         Offered(Routed(queues, f), a, c)
  PROVE  Offered(queues, a, c) \/ (f.type = "voice_offer" /\ f.call = c /\ a \in Targets(f))
<1>1. CASE a \in Targets(f)
  <2>1. Routed(queues, f)[a] = Append(queues[a], f) /\ queues[a] \in Seq(Frames)
    BY <1>1 DEF Routed
  <2>2. PICK i \in DOMAIN Append(queues[a], f) :
           LET g == Append(queues[a], f)[i] IN g.type = "voice_offer" /\ g.call = c
    BY <2>1 DEF Offered
  <2>3. CASE i \in DOMAIN queues[a]
    BY <2>1, <2>2, <2>3 DEF Offered
  <2>4. CASE i \notin DOMAIN queues[a]
    <3>1. Append(queues[a], f)[i] = f
      BY <2>1, <2>2, <2>4
    <3> QED
      BY <1>1, <2>2, <3>1
  <2> QED
    BY <2>3, <2>4
<1>2. CASE a \notin Targets(f)
  BY <1>2 DEF Routed, Offered
<1> QED
  BY <1>1, <1>2

LEMMA TakenQuietly ==
  ASSUME ClientTypeOK, NEW x \in Clients, NEW types, Got(x, types)
  PROVE  Quiet(Rest(x)) /\ Rest(x) \in Queues
<1>1. Rest(x) \in Queues /\ down[x] \in Seq(Frames) /\ down[x] # <<>> /\ down \in Queues
  BY TakenFrame DEF ClientTypeOK, Got
<1>2. ASSUME NEW a \in Agents, NEW c, Offered(Rest(x), a, c) PROVE Offered(down, a, c)
  <2>1. CASE a = x
    <3>1. Rest(x)[a] = Tail(down[a])
      BY <1>1, <2>1 DEF Rest
    <3>2. PICK i \in DOMAIN Tail(down[a]) :
             Tail(down[a])[i].type = "voice_offer" /\ Tail(down[a])[i].call = c
      BY <1>2, <3>1 DEF Offered
    <3>3. i + 1 \in DOMAIN down[a] /\ Tail(down[a])[i] = down[a][i + 1]
      BY <1>1, <2>1, <3>2
    <3> QED
      BY <3>2, <3>3 DEF Offered
  <2>2. CASE a # x
    BY <1>1, <1>2, <2>2 DEF Rest, Offered
  <2> QED
    BY <2>1, <2>2
<1> QED
  BY <1>1, <1>2 DEF Quiet

LEMMA RoutedQuietly ==
  ASSUME NEW queues \in Queues, Quiet(queues), NEW f \in Frames, f.type # "voice_offer"
  PROVE  Quiet(Routed(queues, f)) /\ Routed(queues, f) \in Queues
  BY RoutedOffers, RoutedQueues DEF Quiet

LEMMA TransmitQuietly ==
  ASSUME NEW queues \in Queues, Quiet(queues)
  PROVE  /\ \A f \in Frames : f.type # "voice_offer" /\ Transmit(queues, f) => Quiet(down')
         /\ Silent(queues) => Quiet(down')
  BY RoutedQuietly DEF Transmit, Deliver, Silent

LEMMA NotifyQuietly ==
  ASSUME ClientTypeOK, NEW a \in Agents, NEW queues \in Queues, Quiet(queues),
         Notify(a, queues)
  PROVE  Quiet(down')
<1>1. agt[a] \in AgentRecords
  BY DEF ClientTypeOK, AgentRecords
<1>2. agt[a].call # NoCall /\ agt[a].caller # NoOne =>
         ToCaller(a, "voice_end") \in Frames /\ ToCaller(a, "voice_end").type = "voice_end"
  BY <1>1 DEF ToCaller, Frame, Frames, AgentRecords
<1> QED
  BY <1>2, TransmitQuietly DEF Notify

LEMMA VoiceEndQuietly ==
  ASSUME ClientTypeOK, NEW v \in Visitors, NEW queues \in Queues, Quiet(queues),
         VoiceEnd(v, queues)
  PROVE  /\ Quiet(down')
         /\ \A w \in Visitors : vis'[w].state = "ringing" => vis'[w] = vis[w]
<1>1. vis[v] \in VisitorRecords /\ vis \in [Visitors -> VisitorRecords]
  BY DEF ClientTypeOK, VisitorRecords
<1>2. Frame("voice_end", v, vis[v].peer, vis[v].call) \in Frames
  BY <1>1 DEF Frame, Frames, VisitorRecords
<1>3. Quiet(down')
  BY <1>2, TransmitQuietly DEF VoiceEnd, Frame
<1>4. \A w \in Visitors : vis'[w].state = "ringing" => vis'[w] = vis[w]
  BY <1>1 DEF VoiceEnd, VisitorRecords
<1> QED
  BY <1>3, <1>4

(* When nobody's call or talk begins, quiet queues are enough. *)
LEMMA QuietSteps ==
  ASSUME LineInv, Quiet(down'), UNCHANGED dialed,
         \A v \in Visitors : vis'[v].state = "ringing" =>
            vis[v].state = "ringing" /\ vis'[v].call = vis[v].call,
         \A a \in Agents : agt'[a].state = "talking" =>
            Involved(a, agt'[a].call) /\ agt'[a].call \in Calls \cup {NoCall}
  PROVE  LineInv'
<1>1. ASSUME NEW a \in Agents, NEW c \in Calls \cup {NoCall}, Involved(a, c)'
      PROVE  Involved(a, c)
  BY <1>1 DEF Involved, Quiet
<1> QED
  BY <1>1, CalmSteps

(* The widget rings a call once and offers it once. *)
LEMMA WidgetLine ==
  ASSUME CallInv, LineInv, NEW v \in Visitors,
         \/ \E c \in Calls : VoiceStart(v, c)
         \/ VoiceStartMic(v) \/ VisitorHangUp(v) \/ VisitorRingTimeout(v)
         \/ VisitorIdle(v) \/ WidgetHandles(v)
  PROVE  LineInv'
<1>1. /\ ClientTypeOK /\ v \in Clients /\ down \in Queues /\ Quiet(down)
      /\ vis \in [Visitors -> VisitorRecords] /\ vis[v] \in VisitorRecords
  BY DEF CallInv, ClientTypeOK, VisitorRecords, Quiet
<1>2. UNCHANGED agt
  BY DEF VoiceStart, VoiceStartMic, VisitorHangUp, VisitorRingTimeout, VisitorIdle,
         WidgetHandles, VoiceOnAccept, VoiceOnAnswer, VoiceOnReject, VoiceOnEnd,
         WidgetIgnores, WidgetOnly
<1>3. \A a \in Agents : agt[a].state = "talking" =>
         Involved(a, agt[a].call) /\ agt[a].call \in Calls \cup {NoCall}
  BY <1>1 DEF Involved, ClientTypeOK
<1>4. ASSUME Quiet(down'), UNCHANGED dialed,
             \A w \in Visitors : vis'[w].state = "ringing" =>
                vis[w].state = "ringing" /\ vis'[w].call = vis[w].call
      PROVE  LineInv'
  BY <1>2, <1>3, <1>4, QuietSteps
<1>5. ASSUME NEW c \in Calls, VoiceStart(v, c) PROVE LineInv'
  <2>1. /\ c \notin dialed /\ Caller[c] = v /\ dialed' = dialed \cup {c} /\ down' = down
        /\ vis' = [vis EXCEPT ![v].state = "ringing", ![v].call = c, ![v].asking = @ + 1]
    BY <1>5 DEF VoiceStart, Silent
  <2>2. \A w \in Visitors : vis'[w].state = "ringing" =>
           \/ w = v /\ vis'[w].call = c
           \/ w # v /\ vis'[w] = vis[w]
    BY <1>1, <2>1 DEF VisitorRecords
  <2>3. \A a \in Agents, d \in Calls \cup {NoCall} : Involved(a, d)' <=> Involved(a, d)
    BY <1>2, <2>1 DEF Involved, Offered
  <2>4. \A w \in Visitors : vis'[w].state = "ringing" =>
           vis'[w].call \in dialed' /\ Caller[vis'[w].call] = w
    <3>1. ASSUME NEW w \in Visitors, vis'[w].state = "ringing", w # v
          PROVE  vis[w].call \in dialed /\ Caller[vis[w].call] = w /\ vis'[w] = vis[w]
      BY <2>2, <3>1 DEF LineInv
    <3>2. ASSUME NEW w \in Visitors, vis'[w].state = "ringing"
          PROVE  vis'[w].call \in dialed' /\ Caller[vis'[w].call] = w
      <4>1. CASE w = v
        <5>1. vis'[w].call = c
          BY <1>1, <2>1, <4>1 DEF VisitorRecords
        <5> QED
          BY <2>1, <4>1, <5>1
      <4>2. CASE w # v
        <5>1. vis'[w].call = vis[w].call
          BY <3>1, <3>2, <4>2
        <5>2. vis[w].call \in dialed /\ Caller[vis[w].call] = w
          BY <3>1, <3>2, <4>2
        <5>3. dialed \subseteq dialed'
          BY <2>1
        <5> QED
          BY <5>1, <5>2, <5>3
      <4> QED
        BY <4>1, <4>2
    <3> QED
      BY <3>2
  <2>5. \A a \in Agents, d \in Calls \cup {NoCall} : Involved(a, d)' =>
           d \in dialed' /\ \A w \in Visitors : ~Rings(w, d)'
    <3> SUFFICES ASSUME NEW a \in Agents, NEW d \in Calls \cup {NoCall}, Involved(a, d)'
                 PROVE  d \in dialed' /\ \A w \in Visitors : ~Rings(w, d)'
      OBVIOUS
    <3>1. d \in dialed /\ \A w \in Visitors : ~Rings(w, d)
      BY <2>3 DEF LineInv
    <3>2. ASSUME NEW w \in Visitors PROVE ~Rings(w, d)'
      BY <2>1, <2>2, <3>1, ZenonT(30) DEF Rings
    <3> QED
      BY <2>1, <3>1, <3>2
  <2> QED
    BY <2>3, <2>4, <2>5 DEF LineInv
<1>6. CASE VoiceStartMic(v)
  <2>1. Frame("voice_call", v, NoOne, vis[v].call) \in Frames
    BY <1>1 DEF Frame, Frames, VisitorRecords
  <2>2. Quiet(down')
    BY <1>1, <1>6, <2>1, TransmitQuietly DEF VoiceStartMic, Frame
  <2>3. \A w \in Visitors : vis'[w].state = "ringing" =>
           vis[w].state = "ringing" /\ vis'[w].call = vis[w].call
    <3>1. CASE vis' = [vis EXCEPT ![v].asking = @ - 1]
      BY <1>1, <3>1 DEF VisitorRecords
    <3>2. CASE vis' = [vis EXCEPT ![v].asking = @ - 1, ![v].state = "idle"]
      BY <1>1, <3>2 DEF VisitorRecords
    <3> QED
      BY <1>6, <3>1, <3>2 DEF VoiceStartMic
  <2> QED
    BY <1>4, <1>6, <2>2, <2>3 DEF VoiceStartMic, WidgetOnly
<1>7. ASSUME NEW queues \in Queues, Quiet(queues), VoiceEnd(v, queues), WidgetOnly PROVE LineInv'
  <2>1. Quiet(down') /\ \A w \in Visitors : vis'[w].state = "ringing" => vis'[w] = vis[w]
    BY <1>1, <1>7, VoiceEndQuietly
  <2> QED
    BY <1>4, <1>7, <2>1 DEF WidgetOnly
<1>8. ASSUME NEW queues \in Queues, Quiet(queues), Silent(queues), UNCHANGED dialed,
             \A w \in Visitors : vis'[w].state = "ringing" => vis'[w] = vis[w]
      PROVE  LineInv'
  BY <1>4, <1>8, TransmitQuietly
<1>9. CASE VisitorHangUp(v) \/ VisitorRingTimeout(v)
  BY <1>1, <1>7, <1>9 DEF VisitorHangUp, VisitorRingTimeout
<1>10. CASE VisitorIdle(v)
  <2>1. \A w \in Visitors : vis'[w].state = "ringing" => vis'[w] = vis[w]
    BY <1>1, <1>10 DEF VisitorIdle, VisitorRecords
  <2> QED
    BY <1>1, <1>8, <1>10, <2>1 DEF VisitorIdle, WidgetOnly
<1>11. CASE VoiceOnAccept(v)
  <2> DEFINE f == Head(down[v])
             offer == Frame("voice_offer", v, f.from, f.call)
  <2>1. f \in Frames /\ Rest(v) \in Queues /\ Quiet(Rest(v)) /\ f.type = "voice_accept"
    BY <1>1, <1>11, TakenFrame, TakenQuietly DEF VoiceOnAccept
  <2>2. CASE vis[v].state = "ringing" /\ f.call = vis[v].call
    <3>1. f.from \in Agents /\ f.call \in Calls \cup {NoCall} /\ offer \in Frames
      BY <2>1 DEF Frame, Frames
    <3>2. /\ vis' = [vis EXCEPT ![v].state = "accepting", ![v].peer = f.from]
          /\ down' = Routed(Rest(v), offer) \/ down' = Rest(v)
      BY <1>11, <2>2 DEF VoiceOnAccept, Transmit, Deliver
    <3>3. f.call \in dialed /\ Caller[f.call] = v
      BY <2>2 DEF LineInv
    <3>4. \A a \in Agents : ~Involved(a, f.call)
      BY <2>2, <3>1 DEF LineInv, Rings
    <3>5. ASSUME NEW a \in Agents, NEW c \in Calls \cup {NoCall}, Involved(a, c)'
          PROVE  Involved(a, c) \/ (a = f.from /\ c = f.call)
      <4>1. Offered(down', a, c) \/ (agt[a].state = "talking" /\ agt[a].call = c)
        BY <1>2, <3>5 DEF Involved
      <4>2. Targets(offer) \subseteq {f.from} /\ offer.call = f.call
        BY <3>1 DEF Targets, Frame
      <4>3. Offered(Routed(Rest(v), offer), a, c) =>
               Offered(Rest(v), a, c) \/ (a = f.from /\ c = f.call)
        <5> HIDE DEF f, offer
        <5> QED
          BY <2>1, <3>1, <4>2, RoutedOffers
      <4> QED
        BY <2>1, <3>2, <4>1, <4>3 DEF Involved, Quiet
    <3>6. \A w \in Visitors : vis'[w].state = "ringing" => w # v /\ vis'[w] = vis[w]
      BY <1>1, <3>2 DEF VisitorRecords
    <3>7. UNCHANGED dialed
      BY <1>11 DEF VoiceOnAccept, WidgetOnly
    <3>8. \A w \in Visitors : vis'[w].state = "ringing" =>
             vis'[w].call \in dialed' /\ Caller[vis'[w].call] = w
      BY <3>6, <3>7 DEF LineInv
    <3>9. ASSUME NEW a \in Agents, NEW c \in Calls \cup {NoCall}, Involved(a, c)'
          PROVE  c \in dialed' /\ \A w \in Visitors : ~Rings(w, c)'
      BY <3>3, <3>5, <3>6, <3>7, <3>9 DEF LineInv, Rings
    <3>10. ASSUME NEW a \in Agents, NEW b \in Agents, NEW c \in Calls \cup {NoCall},
                  Involved(a, c)', Involved(b, c)'
           PROVE  a = b
      BY <3>4, <3>5, <3>10 DEF LineInv
    <3> QED
      BY <3>8, <3>9, <3>10 DEF LineInv
  <2>3. CASE ~(vis[v].state = "ringing" /\ f.call = vis[v].call)
    BY <1>8, <1>11, <2>1, <2>3 DEF VoiceOnAccept, WidgetOnly
  <2> QED
    BY <2>2, <2>3
<1>12. CASE VoiceOnAnswer(v)
  <2>1. Rest(v) \in Queues /\ Quiet(Rest(v))
    BY <1>1, <1>12, TakenQuietly DEF VoiceOnAnswer
  <2>2. vis' = [vis EXCEPT ![v].state = "talking"] =>
           \A w \in Visitors : vis'[w].state = "ringing" => vis'[w] = vis[w]
    BY <1>1 DEF VisitorRecords
  <2> QED
    BY <1>7, <1>8, <1>12, <2>1, <2>2 DEF VoiceOnAnswer, WidgetOnly
<1>13. CASE VoiceOnReject(v) \/ VoiceOnEnd(v)
  <2>1. Rest(v) \in Queues /\ Quiet(Rest(v))
    BY <1>1, <1>13, TakenQuietly DEF VoiceOnReject, VoiceOnEnd
  <2> QED
    BY <1>7, <1>8, <1>13, <2>1 DEF VoiceOnReject, VoiceOnEnd, WidgetOnly
<1>14. CASE WidgetIgnores(v)
  <2>1. Rest(v) \in Queues /\ Quiet(Rest(v))
    BY <1>1, <1>14, TakenQuietly DEF WidgetIgnores
  <2> QED
    BY <1>8, <1>14, <2>1 DEF WidgetIgnores, WidgetOnly
<1> QED
  BY <1>5, <1>6, <1>9, <1>10, <1>11, <1>12, <1>13, <1>14 DEF WidgetHandles

(* An app gets on the line only by the offer it takes from its queue. *)
LEMMA AppLine ==
  ASSUME CallInv, LineInv, NEW a \in Agents,
         \/ Accept(a) \/ AcceptMic(a) \/ AcceptMicFails(a) \/ AcceptPrepareFails(a)
         \/ AgentReject(a) \/ AgentHangUp(a) \/ AgentRingTimeout(a) \/ AgentIdle(a)
         \/ AppHandles(a)
  PROVE  LineInv'
<1>1. /\ ClientTypeOK /\ a \in Clients /\ down \in Queues /\ Quiet(down)
      /\ agt \in [Agents -> AgentRecords] /\ agt[a] \in AgentRecords
  BY DEF CallInv, ClientTypeOK, AgentRecords, Quiet
<1>2. UNCHANGED <<vis, dialed>>
  BY DEF Accept, AcceptMic, AcceptMicFails, AcceptPrepareFails, AgentReject, AgentHangUp,
         AgentRingTimeout, AgentIdle, AppHandles, OnIncoming, OnTaken, OnOffer,
         OnRemoteEnd, OnRemoteFinished, AppIgnores, AppOnly
<1> DEFINE Before == \A b \in Agents : agt'[b].state = "talking" =>
                        agt[b].state = "talking" /\ agt'[b].call = agt[b].call
<1>3. ASSUME Quiet(down'), Before PROVE LineInv'
  <2>1. \A b \in Agents : agt'[b].state = "talking" =>
           Involved(b, agt'[b].call) /\ agt'[b].call \in Calls \cup {NoCall}
    BY <1>1, <1>3 DEF Involved, AgentRecords
  <2> QED
    BY <1>2, <1>3, <2>1, QuietSteps
<1>4. \A s \in {"voice_accept", "voice_end", "voice_reject", "voice_answer"} :
         ToCaller(a, s) \in Frames /\ ToCaller(a, s).type = s
  BY <1>1 DEF ToCaller, Frame, Frames, AgentRecords
<1>5. ASSUME NEW types, Got(a, types)
      PROVE  /\ Head(down[a]) \in Frames /\ Head(down[a]).type \in types
             /\ Rest(a) \in Queues /\ Quiet(Rest(a))
  BY <1>1, <1>5, TakenFrame, TakenQuietly
<1>6. ASSUME NEW q \in {agt, Ended(a)}, NEW s \in {"idle", "accepting"}, NEW k \in Nat,
             \/ agt' = q
             \/ agt' = [q EXCEPT ![a].state = s]
             \/ agt' = [q EXCEPT ![a].asking = k]
             \/ agt' = [q EXCEPT ![a].asking = k, ![a].timer = FALSE]
             \/ agt' = [q EXCEPT ![a].asking = k, ![a].state = s]
      PROVE  Before
  <2>1. /\ q \in [Agents -> AgentRecords]
        /\ \A b \in Agents : q[b].state = "talking" =>
              agt[b].state = "talking" /\ q[b].call = agt[b].call
    <3>1. CASE q = agt
      BY <1>1, <3>1
    <3>2. CASE q = Ended(a)
      BY <1>1, <3>2 DEF Ended, AgentRecords
    <3> QED
      BY <1>6, <3>1, <3>2
  <2>3. CASE agt' = q \/ agt' = [q EXCEPT ![a].state = s]
    BY <2>1, <2>3 DEF AgentRecords
  <2>4. CASE agt' = [q EXCEPT ![a].asking = k]
    BY <2>1, <2>4 DEF AgentRecords
  <2>5. CASE agt' = [q EXCEPT ![a].asking = k, ![a].timer = FALSE]
    BY <2>1, <2>5 DEF AgentRecords
  <2>6. CASE agt' = [q EXCEPT ![a].asking = k, ![a].state = s]
    BY <2>1, <2>6 DEF AgentRecords
  <2> QED
    BY <1>6, <2>3, <2>4, <2>5, <2>6
<1>20. /\ agt[a].asking \in Nat /\ agt[a].asking + 1 \in Nat
       /\ agt[a].asking > 0 => agt[a].asking - 1 \in Nat
       /\ Ended(a)[a].asking = agt[a].asking
  BY <1>1 DEF AgentRecords, Ended
<1> HIDE DEF Before
<1>7. CASE Accept(a)
  <2>1. Before
    BY <1>6, <1>7, <1>20 DEF Accept
  <2> QED
    BY <1>1, <1>3, <1>7, <2>1, TransmitQuietly DEF Accept
<1>8. CASE AcceptMic(a)
  <2>1. Before
    BY <1>6, <1>8, <1>20 DEF AcceptMic
  <2>2. CASE a \in online
    <3>1. /\ Frame("voice_taken", a, NoOne, agt[a].call) \in Frames
          /\ Frame("voice_taken", a, NoOne, agt[a].call).type = "voice_taken"
      BY <1>1 DEF Frame, Frames, AgentRecords
    <3>2. down' = Routed(Routed(down, ToCaller(a, "voice_accept")),
                         Frame("voice_taken", a, NoOne, agt[a].call))
      BY <1>8, <2>2 DEF AcceptMic, Deliver
    <3>3. Quiet(down')
      BY <1>1, <1>4, <3>1, <3>2, RoutedQuietly
    <3> QED
      BY <1>3, <2>1, <3>3
  <2>3. CASE a \notin online
    BY <1>1, <1>3, <1>8, <2>1, <2>3, TransmitQuietly DEF AcceptMic
  <2> QED
    BY <2>2, <2>3
<1>9. CASE AcceptMicFails(a)
  <2>1. Before
    BY <1>6, <1>9, <1>20 DEF AcceptMicFails
  <2> QED
    BY <1>1, <1>3, <1>9, <2>1, TransmitQuietly DEF AcceptMicFails
<1>10. CASE AcceptPrepareFails(a)
  <2>1. Before
    BY <1>6, <1>10, <1>20 DEF AcceptPrepareFails
  <2> QED
    BY <1>1, <1>3, <1>10, <2>1, TransmitQuietly, NotifyQuietly DEF AcceptPrepareFails
<1>11. CASE AgentReject(a)
  BY <1>1, <1>3, <1>4, <1>6, <1>11, TransmitQuietly DEF AgentReject
<1>12. CASE AgentHangUp(a)
  BY <1>1, <1>3, <1>6, <1>12, NotifyQuietly DEF AgentHangUp
<1>13. CASE AgentRingTimeout(a) \/ AgentIdle(a)
  BY <1>1, <1>3, <1>6, <1>13, TransmitQuietly DEF AgentRingTimeout, AgentIdle
<1>14. CASE OnIncoming(a)
  <2> DEFINE f == Head(down[a])
  <2>1. f \in Frames /\ Rest(a) \in Queues /\ Quiet(Rest(a))
    BY <1>5, <1>14 DEF OnIncoming
  <2>2. CASE agt[a].state \in {"idle", "ended"}
    <3>1. agt' = [agt EXCEPT ![a].state = "incoming", ![a].call = f.call,
                             ![a].caller = f.from, ![a].timer = TRUE] /\ Silent(Rest(a))
      BY <1>14, <2>2 DEF OnIncoming
    <3>2. Before
      BY <1>1, <3>1 DEF AgentRecords, Before
    <3> QED
      BY <1>3, <2>1, <3>1, <3>2, TransmitQuietly
  <2>3. CASE agt[a].state \notin {"idle", "ended"}
    <3>1. /\ Frame("voice_reject", a, f.from, f.call) \in Frames
          /\ Frame("voice_reject", a, f.from, f.call).type = "voice_reject"
      BY <2>1 DEF Frame, Frames
    <3> QED
      BY <1>3, <1>6, <1>14, <2>1, <2>3, <3>1, TransmitQuietly DEF OnIncoming
  <2> QED
    BY <2>2, <2>3
<1>15. CASE OnTaken(a)
  BY <1>3, <1>5, <1>6, <1>15, TransmitQuietly DEF OnTaken
<1>16. CASE OnOffer(a)
  <2> DEFINE f == Head(down[a])
  <2>1. f \in Frames /\ f.type = "voice_offer" /\ Rest(a) \in Queues /\ Quiet(Rest(a))
    <3>1. Got(a, {"voice_offer"})
      BY <1>16 DEF OnOffer
    <3>2. Head(down[a]).type \in {"voice_offer"}
      BY <3>1 DEF Got
    <3> QED
      BY <1>5, <3>1, <3>2
  <2>2. CASE /\ f.call = agt[a].call
             /\ agt' = [agt EXCEPT ![a].state = "talking", ![a].timer = FALSE]
             /\ Transmit(Rest(a), ToCaller(a, "voice_answer"))
    <3>1. Quiet(down')
      BY <1>4, <2>1, <2>2, TransmitQuietly
    <3>2. Offered(down, a, agt[a].call)
      <4>1. 1 \in DOMAIN down[a] /\ down[a][1] = f
        BY <1>1, <1>16 DEF OnOffer, Got
      <4> QED
        BY <2>1, <2>2, <4>1 DEF Offered
    <3>3. \A b \in Agents : agt'[b].state = "talking" =>
             Involved(b, agt'[b].call) /\ agt'[b].call \in Calls \cup {NoCall}
      BY <1>1, <2>2, <3>2 DEF Involved, AgentRecords
    <3> QED
      BY <1>2, <3>1, <3>3, QuietSteps
  <2>3. CASE agt' = Ended(a) /\ Notify(a, Rest(a))
    BY <1>1, <1>3, <1>6, <2>1, <2>3, NotifyQuietly
  <2>4. CASE UNCHANGED agt /\ Silent(Rest(a))
    BY <1>3, <1>6, <2>1, <2>4, TransmitQuietly
  <2> QED
    BY <1>16, <2>2, <2>3, <2>4 DEF OnOffer
<1>17. CASE OnRemoteEnd(a)
  BY <1>3, <1>5, <1>6, <1>17, TransmitQuietly DEF OnRemoteEnd
<1>18. CASE OnRemoteFinished(a)
  BY <1>3, <1>5, <1>6, <1>18, TransmitQuietly DEF OnRemoteFinished
<1>19. CASE AppIgnores(a)
  BY <1>3, <1>5, <1>6, <1>19, TransmitQuietly DEF AppIgnores
<1> QED
  BY <1>7, <1>8, <1>9, <1>10, <1>11, <1>12, <1>13, <1>14, <1>15, <1>16, <1>17, <1>18,
     <1>19 DEF AppHandles

(* A connection that breaks loses offers, one that comes back replays calls. *)
LEMMA ConnectionLine ==
  ASSUME CallInv, LineInv, NEW a \in Agents, AgentDrops(a) \/ AgentRegisters(a)
  PROVE  LineInv'
<1>1. /\ UNCHANGED <<vis, dialed, agt>> /\ ClientTypeOK /\ down \in Queues
  BY DEF AgentDrops, AgentRegisters, CallInv, ClientTypeOK
<1>2. PICK q : /\ down' = [down EXCEPT ![a] = q]
               /\ \A i \in DOMAIN q : q[i].type # "voice_offer"
  <2>1. CASE AgentDrops(a)
    <3>1. down' = [down EXCEPT ![a] = <<>>] /\ DOMAIN <<>> = {}
      BY <2>1 DEF AgentDrops, Silent
    <3> QED
      BY <3>1
  <2>2. CASE AgentRegisters(a)
    <3>1. PICK order : down' = [down EXCEPT ![a] =
              [i \in DOMAIN order |-> Frame("voice_call", Caller[order[i]], NoOne, order[i])]]
      BY <2>2 DEF AgentRegisters, Silent
    <3> DEFINE q == [i \in DOMAIN order |->
                       Frame("voice_call", Caller[order[i]], NoOne, order[i])]
    <3>2. \A i \in DOMAIN q : q[i].type # "voice_offer"
      BY DEF Frame
    <3> HIDE DEF q
    <3>3. down' = [down EXCEPT ![a] = q]
      BY <3>1 DEF q
    <3> QED
      BY <3>2, <3>3
  <2> QED
    BY <2>1, <2>2
<1>3. Quiet(down')
  BY <1>1, <1>2 DEF Quiet, Offered
<1>4. \A b \in Agents : agt[b].state = "talking" =>
         Involved(b, agt[b].call) /\ agt[b].call \in Calls \cup {NoCall}
  BY <1>1 DEF Involved, ClientTypeOK
<1> QED
  BY <1>1, <1>3, <1>4, QuietSteps

LEMMA HubLine ==
  ASSUME CallInv, LineInv,
         \/ HubAlone \/ UNCHANGED vars
         \/ \E c \in Calls, n \in Serials : WatchdogTells(c, n)
  PROVE  LineInv'
<1>1. UNCHANGED <<vis, dialed, agt>> /\ ClientTypeOK /\ down \in Queues
  BY DEF HubAlone, WatchdogTells, vars, clientVars, CallInv, ClientTypeOK
<1>2. Quiet(down) /\ (UNCHANGED down => Quiet(down'))
  BY DEF Quiet
<1>3. Quiet(down')
  <2>1. CASE HubAlone \/ UNCHANGED vars
    BY <1>2, <2>1 DEF HubAlone, vars, clientVars
  <2>2. ASSUME NEW c \in Calls, NEW n \in Serials, WatchdogTells(c, n) PROVE Quiet(down')
    <3>1. wd[c][n].got \in Entries
      BY <2>2 DEF WatchdogTells, WatchdogEnds, CallInv, HubInv, HubTypeOK, PassedHasEntry
    <3>2. \A x \in {wd[c][n].got.agent, Caller[c]} :
             /\ Frame("voice_finished", NoOne, x, c) \in Frames
             /\ Frame("voice_finished", NoOne, x, c).type = "voice_finished"
      BY <3>1 DEF Frame, Frames, Entries
    <3> QED
      BY <1>1, <1>2, <2>2, <3>2, RoutedQuietly DEF WatchdogTells, Deliver
  <2> QED
    BY <2>1, <2>2
<1>4. \A b \in Agents : agt[b].state = "talking" =>
         Involved(b, agt[b].call) /\ agt[b].call \in Calls \cup {NoCall}
  BY <1>1 DEF Involved, ClientTypeOK
<1> QED
  BY <1>1, <1>3, <1>4, QuietSteps

LEMMA LineInvariance == Spec => []LineInv
<1>1. Init => LineInv
  BY DEF Init, LineInv, Involved, Offered
<1>2. CallInv /\ LineInv /\ [Next]_vars => LineInv'
  BY WidgetLine, AppLine, ConnectionLine, HubLine DEF Next
<1> QED
  BY <1>1, <1>2, CallInvariance, PTL DEF Spec

(***************************************************************************)
(* Whatever widgets and apps do, the hub only takes steps of VoiceHub.     *)
(***************************************************************************)
THEOREM CallImplementsHub == Spec => HubIsVoiceHub
  BY InitCallInv, NextSteps, CallInvariance, PTL DEF Spec, HubIsVoiceHub, HubSafety

(***************************************************************************)
(* The widget, the app and the queues hold what their types say.           *)
(***************************************************************************)
THEOREM CallTypeCorrect == Spec => []TypeOK
<1>1. CallInv => TypeOK
  BY DEF CallInv, HubInv, TypeOK
<1> QED
  BY <1>1, CallInvariance, PTL

(***************************************************************************)
(* End to end, an accept that waits for its answer has its watchdog.       *)
(***************************************************************************)
THEOREM CallEntryIsWatched == Spec => []EntryIsWatched
  BY CallImplementsHub, HubEntryIsWatched, PTL DEF HubIsVoiceHub

(***************************************************************************)
(* End to end, with lost connections and frames on their way, an accept is *)
(* settled by one frame or one watchdog, the loop notes a call once, and a *)
(* finished call is in the buffer that is replayed to an app that connects *)
(* only while a watchdog is about to drop it, or when the widget has sent  *)
(* its voice_call once more after the end.                                 *)
(***************************************************************************)
THEOREM CallKeepsHubPromises ==
    Spec => [](AcceptSettledOnce /\ LoopWritesOneNote /\ FinishedIsNotRung)
  BY CallImplementsHub, HubAcceptSettledOnce, HubLoopWritesOneNote, HubNoGhostRing, PTL
     DEF HubIsVoiceHub

(***************************************************************************)
(* However many agents press accept, and whatever the order of the frames: *)
(* at most one of them gets the visitor on the line.                       *)
(***************************************************************************)
THEOREM CallOneAgentTalks == Spec => []OneAgentTalks
<1>1. CallInv /\ LineInv => OneAgentTalks
  BY DEF CallInv, ClientTypeOK, LineInv, Involved, OneAgentTalks
<1> QED
  BY <1>1, CallInvariance, LineInvariance, PTL

=============================================================================
