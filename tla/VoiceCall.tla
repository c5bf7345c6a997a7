----------------------------- MODULE VoiceCall -----------------------------
(***************************************************************************)
(* A voice call end to end: the visitor's widget (widget/public/chat.js)   *)
(* and the agent's app (mobile_app/lib/state/voice_controller.dart) around *)
(* the hub of VoiceHub.                                                    *)
(*                                                                         *)
(* Frames from the hub wait in a queue per client.  A frame to the hub is  *)
(* handled in the step that sends it: the loop takes frames one at a time  *)
(* and a client sees nothing of the hub but its queue, so a frame that     *)
(* waits on its way up is one sent later.  Frames sent by an app without a *)
(* connection are lost; the widget only calls when it has one and keeps    *)
(* it.  SDP, ICE and audio are left out, a WebRTC phase that throws is     *)
(* not.  The awaits inside an offer or an answer are one step, the await   *)
(* on the microphone is not: several of them may be open at once, each     *)
(* with a continuation that finds whatever call there is when it runs.     *)
(* Local timers fire at any moment.                                        *)
(***************************************************************************)
EXTENDS VoiceHub, Sequences, SequencesExt

CONSTANTS Visitors,
          Caller,     \* the visitor who makes a call, for every call id
          MaxDrops,   \* bound: connections the agents lose, all together
          MaxQueue,   \* bound: frames that wait for one client
          MaxEvents,  \* bound: calls, accepts and lost connections, all together
          NoOne       \* null client

Clients == Visitors \cup Agents

ASSUME VoiceCallAssumption ==
    /\ IsFiniteSet(Calls) /\ IsFiniteSet(Agents)
    /\ Caller \in [Calls -> Visitors]
    /\ Visitors \cap Agents = {}
    /\ NoOne \notin Clients
    /\ MaxDrops \in Nat /\ MaxQueue \in Nat
    /\ MaxEvents \in Nat

VARIABLES
    vis,     \* widget: voice.state, callId, remoteAgent, open microphone prompts
    dialed,  \* the calls that were started
    agt,     \* app: state, _callId, _callerFrom, open microphone prompts, _timer
    online,  \* the agents the hub has registered
    drops,   \* connections lost so far
    down     \* frames on their way to a client

clientVars == <<vis, dialed, agt, online, drops, down>>
vars == <<hubVars, clientVars>>

FrameTypes == {"voice_call", "voice_accept", "voice_taken", "voice_offer",
               "voice_answer", "voice_end", "voice_reject", "voice_finished"}

\* Only a visitor rings and only an agent accepts.
Frames ==
    {f \in [type : FrameTypes, from : Clients \cup {NoOne}, to : Clients \cup {NoOne},
            call : Calls \cup {NoCall}] :
        /\ f.type = "voice_call" => f.from \in Visitors
        /\ f.type = "voice_accept" => f.from \in Agents}

ClientTypeOK ==
    /\ vis \in [Visitors -> [state : {"idle", "ringing", "accepting", "talking", "ended"},
                             call : Calls \cup {NoCall},
                             peer : Agents \cup {NoOne}, asking : Nat]]
    /\ agt \in [Agents -> [state : {"idle", "incoming", "accepting", "talking", "ended"},
                           call : Calls \cup {NoCall},
                           caller : Visitors \cup {NoOne},
                           asking : Nat, timer : BOOLEAN]]
    /\ dialed \subseteq Calls /\ online \subseteq Agents /\ drops \in 0..MaxDrops
    /\ down \in [Clients -> Seq(Frames)]

TypeOK == HubTypeOK /\ ClientTypeOK

Init ==
    /\ HubInit
    /\ vis = [v \in Visitors |->
                 [state |-> "idle", call |-> NoCall, peer |-> NoOne, asking |-> 0]]
    /\ agt = [a \in Agents |->
                 [state |-> "idle", call |-> NoCall, caller |-> NoOne,
                  asking |-> 0, timer |-> FALSE]]
    /\ dialed = {} /\ online = Agents /\ drops = 0
    /\ down = [x \in Clients |-> <<>>]

-----------------------------------------------------------------------------
Frame(type, from, to, call) ==
    [type |-> type, from |-> from, to |-> to, call |-> call]

(***************************************************************************)
(* fanoutVoice: to the addressee, or to every connected agent (the sender  *)
(* too) when there is none.                                                *)
(***************************************************************************)
Targets(f) == IF f.to = NoOne THEN online ELSE {f.to} \cap (Visitors \cup online)

Routed(queues, f) ==
    [x \in Clients |-> IF x \in Targets(f) THEN Append(queues[x], f) ELSE queues[x]]

\* MaxQueue is respected, but for one more frame when none is waiting: an app
\* that accepts a call it has left broadcasts two.
Deliver(queues) ==
    /\ \/ \A x \in Clients : Len(queues[x]) <= MaxQueue
       \/ \A x \in Clients : down[x] = <<>> /\ Len(queues[x]) <= MaxQueue + 1
    /\ down' = queues

(***************************************************************************)
(* The loop handles f, sent by x; queues are those of the clients then.    *)
(* voice_accept_failed and voice_signal_error are not in its type switch,  *)
(* so they are not sent here.                                              *)
(***************************************************************************)
HandleFrame(f) ==
    \/ (f.call = NoCall \/ f.type = "voice_offer") /\ UNCHANGED hubVars
    \/ /\ f.call # NoCall
       /\ \/ f.type = "voice_call" /\ HubCall(f.call)
          \/ f.type = "voice_accept" /\ HubAccept(f.call, f.from)
          \/ f.type = "voice_answer" /\ HubAnswer(f.call)
          \/ f.type \in {"voice_end", "voice_reject"} /\ HubEnd(f.call)

Transmit(queues, f) ==
    IF f.from \in Visitors \cup online
    THEN LoopIsFree /\ HandleFrame(f) /\ Deliver(Routed(queues, f))
    ELSE UNCHANGED hubVars /\ down' = queues

Silent(queues) == UNCHANGED hubVars /\ down' = queues

(***************************************************************************)
(* Room for one more event: a call, a press on accept or a lost connection.*)
(***************************************************************************)
Events == Cardinality(dialed) + drops
          +  MapThenSumSet(LAMBDA c : accepts[c], Calls)
          +  MapThenSumSet(LAMBDA a : agt[a].asking, Agents)

Room == Events < MaxEvents

(***************************************************************************)
(* The queues after x has taken its first frame, of one of these types.    *)
(***************************************************************************)
Got(x, types) == down[x] # <<>> /\ Head(down[x]).type \in types

Rest(x) == [down EXCEPT ![x] = Tail(@)]

-----------------------------------------------------------------------------
(***************************************************************************)
(* Faulty variants of the actions below: each is a slip that one of the    *)
(* properties must expose.  Spec uses none.                                *)
(***************************************************************************)
\* an accept is taken in any state, as before voiceOnAccept had its guard.
VoiceOnAcceptAnyState(v) ==
    LET f == Head(down[v]) IN
    /\ Got(v, {"voice_accept"})
    /\ IF f.call = vis[v].call
       THEN /\ vis' = [vis EXCEPT ![v].state = "accepting", ![v].peer = f.from]
            /\ Transmit(Rest(v), Frame("voice_offer", v, f.from, f.call))
       ELSE UNCHANGED vis /\ Silent(Rest(v))
    /\ UNCHANGED <<dialed, agt, online, drops>>

\* remoteAgent is filled from the wrong field of the frame.
VoiceOnAcceptWrongPeer(v) ==
    LET f == Head(down[v]) IN
    /\ Got(v, {"voice_accept"})
    /\ IF vis[v].state = "ringing" /\ f.call = vis[v].call
       THEN /\ vis' = [vis EXCEPT ![v].state = "accepting", ![v].peer = f.to]
            /\ Transmit(Rest(v), Frame("voice_offer", v, f.to, f.call))
       ELSE UNCHANGED vis /\ Silent(Rest(v))
    /\ UNCHANGED <<dialed, agt, online, drops>>

\* the watchdog ends the call without looking at finishedCalls.
WatchdogTellsAtOnce(c, n) ==
    /\ wd[c][n].state = "took" /\ wd[c][n].got # NoEntry
    /\ wd' = [wd EXCEPT ![c][n].state = "over"]
    /\ finished' = finished \cup {c}
    /\ notes' = [notes EXCEPT ![c].watchdog = @ + 1]
    /\ Deliver(Routed(down, Frame("voice_finished", NoOne, wd[c][n].got.agent, c)))
    /\ UNCHANGED <<callVars, accepts, entry, handle, cancelled, ending>>
    /\ UNCHANGED <<vis, dialed, agt, online, drops>>

-----------------------------------------------------------------------------
(***************************************************************************)
(* The widget.  voiceEnd runs in any state but idle: after the end of a    *)
(* call it sends a voice_end without call and without addressee.           *)
(***************************************************************************)
VoiceEnd(v, queues) ==
    /\ vis' = [vis EXCEPT ![v].state = "ended", ![v].call = NoCall, ![v].peer = NoOne]
    /\ Transmit(queues, Frame("voice_end", v, vis[v].peer, vis[v].call))

WidgetOnly == UNCHANGED <<dialed, agt, online, drops>>

\* voiceStart up to the microphone prompt; the prompt of an earlier one may be open.
VoiceStart(v, c) ==
    /\ Room
    /\ vis[v].state = "idle"
    /\ Caller[c] = v /\ c \notin dialed
    /\ dialed' = dialed \cup {c}
    /\ vis' = [vis EXCEPT ![v].state = "ringing", ![v].call = c, ![v].asking = @ + 1]
    /\ Silent(down)
    /\ UNCHANGED <<agt, online, drops>>

\* The rest of voiceStart: neither the state nor the call is looked at again.
VoiceStartMic(v) ==
    /\ vis[v].asking > 0
    /\ \/ /\ vis' = [vis EXCEPT ![v].asking = @ - 1]
          /\ Transmit(down, Frame("voice_call", v, NoOne, vis[v].call))
       \/ /\ vis' = [vis EXCEPT ![v].asking = @ - 1, ![v].state = "idle"]
          /\ Silent(down)
    /\ WidgetOnly

\* The button, a lost peer connection, or a 30 s timer or a peer connection that
\* an earlier call left behind.
VisitorHangUp(v) ==
    /\ vis[v].state \in {"ringing", "accepting", "talking"}
    /\ VoiceEnd(v, down)
    /\ WidgetOnly

\* The 30 s timer, set once the call is sent.
VisitorRingTimeout(v) ==
    /\ vis[v].state = "ringing" /\ vis[v].asking = 0
    /\ VoiceEnd(v, down)
    /\ WidgetOnly

VisitorIdle(v) ==
    /\ vis[v].state = "ended"
    /\ vis' = [vis EXCEPT ![v].state = "idle"]
    /\ Silent(down)
    /\ WidgetOnly

VoiceOnAccept(v) ==
    LET f == Head(down[v]) IN
    /\ Got(v, {"voice_accept"})
    /\ IF vis[v].state = "ringing" /\ f.call = vis[v].call
       THEN /\ vis' = [vis EXCEPT ![v].state = "accepting", ![v].peer = f.from]
            /\ Transmit(Rest(v), Frame("voice_offer", v, f.from, f.call))
       ELSE UNCHANGED vis /\ Silent(Rest(v))
    /\ WidgetOnly

\* The remote description is set, or refused; the call id is not looked at.
VoiceOnAnswer(v) ==
    /\ Got(v, {"voice_answer"})
    /\ \/ /\ vis[v].state = "accepting"
          /\ vis' = [vis EXCEPT ![v].state = "talking"]
          /\ Silent(Rest(v))
       \/ vis[v].state = "accepting" /\ VoiceEnd(v, Rest(v))
       \/ vis[v].state # "accepting" /\ UNCHANGED vis /\ Silent(Rest(v))
    /\ WidgetOnly

VoiceOnReject(v) ==
    /\ Got(v, {"voice_reject"})
    /\ IF vis[v].state = "ringing" THEN VoiceEnd(v, Rest(v))
       ELSE UNCHANGED vis /\ Silent(Rest(v))
    /\ WidgetOnly

VoiceOnEnd(v) ==
    /\ Got(v, {"voice_end"})
    /\ IF vis[v].state # "idle" THEN VoiceEnd(v, Rest(v))
       ELSE UNCHANGED vis /\ Silent(Rest(v))
    /\ WidgetOnly

\* handleVoiceSignal has no case for voice_finished.
WidgetIgnores(v) ==
    /\ Got(v, {"voice_finished"})
    /\ Silent(Rest(v))
    /\ UNCHANGED vis
    /\ WidgetOnly

-----------------------------------------------------------------------------
(***************************************************************************)
(* The app.  _end clears the call and stops the timer; with notify it      *)
(* sends a voice_end when it still has a call and a caller.                *)
(***************************************************************************)
Ended(a) == [agt EXCEPT ![a].state = "ended", ![a].call = NoCall,
                        ![a].caller = NoOne, ![a].timer = FALSE]

AppOnly == UNCHANGED <<vis, dialed, online, drops>>

ToCaller(a, type) == Frame(type, a, agt[a].caller, agt[a].call)

Notify(a, queues) ==
    IF agt[a].call # NoCall /\ agt[a].caller # NoOne
    THEN Transmit(queues, ToCaller(a, "voice_end"))
    ELSE Silent(queues)

OnIncoming(a) ==
    LET f == Head(down[a]) IN
    /\ Got(a, {"voice_call"})
    /\ IF agt[a].state \in {"idle", "ended"}
       THEN /\ agt' = [agt EXCEPT ![a].state = "incoming", ![a].call = f.call,
                                  ![a].caller = f.from, ![a].timer = TRUE]
            /\ Silent(Rest(a))
       ELSE /\ UNCHANGED agt
            /\ Transmit(Rest(a), Frame("voice_reject", a, f.from, f.call))
    /\ AppOnly

OnTaken(a) ==
    /\ Got(a, {"voice_taken"})
    /\ agt' = IF agt[a].state = "incoming" /\ Head(down[a]).call = agt[a].call
              THEN [Ended(a) EXCEPT ![a].state = "idle"]
              ELSE agt
    /\ Silent(Rest(a))
    /\ AppOnly

\* accept up to the microphone preflight; the button works until the state changes.
Accept(a) ==
    /\ Room
    /\ agt[a].state = "incoming"
    /\ agt' = [agt EXCEPT ![a].asking = @ + 1, ![a].timer = FALSE]
    /\ Silent(down)
    /\ AppOnly

\* The rest of accept, which does not look at the state again.
AcceptMic(a) ==
    /\ agt[a].asking > 0
    /\ agt' = [agt EXCEPT ![a].asking = @ - 1, ![a].state = "accepting"]
    /\ IF a \in online
       THEN /\ LoopIsFree
            /\ HandleFrame(ToCaller(a, "voice_accept"))
            /\ Deliver(Routed(Routed(down, ToCaller(a, "voice_accept")),
                              Frame("voice_taken", a, NoOne, agt[a].call)))
       ELSE Silent(down)
    /\ AppOnly

\* The microphone fails: voice_accept_failed, which the hub drops.
AcceptMicFails(a) ==
    /\ agt[a].asking > 0
    /\ agt' = IF agt[a].state = "idle" THEN [agt EXCEPT ![a].asking = @ - 1]
              ELSE [Ended(a) EXCEPT ![a].asking = @ - 1]
    /\ Silent(down)
    /\ AppOnly

\* The peer connection fails: voice_signal_error, which the hub drops, then _end.
AcceptPrepareFails(a) ==
    /\ agt[a].asking > 0
    /\ IF agt[a].state = "idle"
       THEN agt' = [agt EXCEPT ![a].asking = @ - 1] /\ Silent(down)
       ELSE agt' = [Ended(a) EXCEPT ![a].asking = @ - 1] /\ Notify(a, down)
    /\ AppOnly

AgentReject(a) ==
    /\ agt[a].state = "incoming"
    /\ agt' = Ended(a)
    /\ Transmit(down, ToCaller(a, "voice_reject"))
    /\ AppOnly

\* The second disjunct: one of the three WebRTC phases throws.
OnOffer(a) ==
    LET mine == /\ agt[a].state \in {"accepting", "incoming"}
                /\ Head(down[a]).call = agt[a].call
    IN
    /\ Got(a, {"voice_offer"})
    /\ \/ /\ mine
          /\ agt' = [agt EXCEPT ![a].state = "talking", ![a].timer = FALSE]
          /\ Transmit(Rest(a), ToCaller(a, "voice_answer"))
       \/ mine /\ agt' = Ended(a) /\ Notify(a, Rest(a))
       \/ ~mine /\ UNCHANGED agt /\ Silent(Rest(a))
    /\ AppOnly

\* _onRemoteEnd ends whatever call the app is in.
OnRemoteEnd(a) ==
    /\ Got(a, {"voice_end"})
    /\ agt' = IF agt[a].state = "idle" THEN agt ELSE Ended(a)
    /\ Silent(Rest(a))
    /\ AppOnly

OnRemoteFinished(a) ==
    LET f == Head(down[a]) IN
    /\ Got(a, {"voice_finished"})
    /\ agt' = IF \/ agt[a].state = "idle"
                 \/ agt[a].call # NoCall /\ f.call # agt[a].call
              THEN agt ELSE Ended(a)
    /\ Silent(Rest(a))
    /\ AppOnly

\* Broadcasts without an addressee that the app has no case for.
AppIgnores(a) ==
    /\ Got(a, {"voice_accept", "voice_reject"})
    /\ UNCHANGED agt
    /\ Silent(Rest(a))
    /\ AppOnly

\* The button, or a lost peer connection.
AgentHangUp(a) ==
    /\ agt[a].state \in {"incoming", "accepting", "talking"}
    /\ agt' = Ended(a)
    /\ Notify(a, down)
    /\ AppOnly

\* The 30 s timer of the ringing app; accept stops it.
AgentRingTimeout(a) ==
    /\ agt[a].state = "incoming" /\ agt[a].timer
    /\ agt' = Ended(a)
    /\ Silent(down)
    /\ AppOnly

AgentIdle(a) ==
    /\ agt[a].state = "ended"
    /\ agt' = [agt EXCEPT ![a].state = "idle"]
    /\ Silent(down)
    /\ AppOnly

-----------------------------------------------------------------------------
(***************************************************************************)
(* A websocket breaks: the frames on their way down it are lost.  When the *)
(* app is back, handleRegister replays the buffered calls, in any order.   *)
(***************************************************************************)
AgentDrops(a) ==
    /\ Room
    /\ a \in online
    /\ drops < MaxDrops
    /\ drops' = drops + 1
    /\ online' = online \ {a}
    /\ Silent([down EXCEPT ![a] = <<>>])
    /\ UNCHANGED <<vis, dialed, agt>>

AgentRegisters(a) ==
    /\ LoopIsFree
    /\ a \notin online
    /\ online' = online \cup {a}
    /\ \E order \in SetToSeqs(pending) :
          Silent([down EXCEPT ![a] =
             [i \in DOMAIN order |-> Frame("voice_call", Caller[order[i]], NoOne, order[i])]])
    /\ UNCHANGED <<vis, dialed, agt, drops>>

(***************************************************************************)
(* The end of a watchdog: both sides are told with voice_finished, in one  *)
(* step, since the widget takes no notice of the one it gets.              *)
(***************************************************************************)
WatchdogTells(c, n) ==
    LET got == wd[c][n].got
        finishedFor(x) == Frame("voice_finished", NoOne, x, c)
        toAgent == Routed(down, finishedFor(got.agent))
    IN
    /\ WatchdogEnds(c, n)
    /\ Deliver(IF got.known THEN Routed(toAgent, finishedFor(Caller[c])) ELSE toAgent)
    /\ UNCHANGED <<vis, dialed, agt, online, drops>>

\* What goes on in the hub without a frame.
HubAlone ==
    /\ \/ HubFinish
       \/ \E c \in Calls : BufferExpires(c) \/ FinishedExpires(c)
       \/ \E c \in Calls, n \in Serials :
             \/ WatchdogFires(c, n) \/ WatchdogTakes(c, n) \/ WatchdogLooks(c, n)
             \/ WatchdogMarks(c, n) \/ WatchdogDrops(c, n)
    /\ UNCHANGED clientVars

-----------------------------------------------------------------------------
WidgetHandles(v) == \/ VoiceOnAccept(v) \/ VoiceOnAnswer(v) \/ VoiceOnReject(v)
                    \/ VoiceOnEnd(v) \/ WidgetIgnores(v)

AppHandles(a) == \/ OnIncoming(a) \/ OnTaken(a) \/ OnOffer(a) \/ OnRemoteEnd(a)
                 \/ OnRemoteFinished(a) \/ AppIgnores(a)

Next ==
    \/ \E v \in Visitors :
          \/ \E c \in Calls : VoiceStart(v, c)
          \/ VoiceStartMic(v) \/ VisitorHangUp(v) \/ VisitorRingTimeout(v)
          \/ VisitorIdle(v) \/ WidgetHandles(v)
    \/ \E a \in Agents :
          \/ Accept(a) \/ AcceptMic(a) \/ AcceptMicFails(a) \/ AcceptPrepareFails(a)
          \/ AgentReject(a) \/ AgentHangUp(a) \/ AgentRingTimeout(a) \/ AgentIdle(a)
          \/ AgentDrops(a) \/ AgentRegisters(a) \/ AppHandles(a)
    \/ HubAlone
    \/ \E c \in Calls, n \in Serials : WatchdogTells(c, n)

(***************************************************************************)
(* Frames are delivered, timers fire, goroutines run and apps reconnect.   *)
(* Nobody has to press a button, and nobody has to answer the prompt.      *)
(***************************************************************************)
Fairness ==
    /\ WF_vars(HubAlone)
    /\ \A c \in Calls, n \in Serials : WF_vars(WatchdogTells(c, n))
    /\ \A v \in Visitors : /\ WF_vars(WidgetHandles(v)) /\ WF_vars(VisitorIdle(v))
                           /\ WF_vars(VisitorRingTimeout(v))
    /\ \A a \in Agents : /\ WF_vars(AppHandles(a)) /\ WF_vars(AgentIdle(a))
                         /\ WF_vars(AgentRingTimeout(a)) /\ WF_vars(AgentRegisters(a))

Spec == Init /\ [][Next]_vars

FairSpec == Spec /\ Fairness

-----------------------------------------------------------------------------
(***************************************************************************)
(* Whatever the widget and the app do, the hub behaves as VoiceHub says:   *)
(* what is shown of VoiceHub holds in every call.                          *)
(***************************************************************************)
HubIsVoiceHub == HubSafety

(***************************************************************************)
(* Several agents may press accept before they hear that the call is       *)
(* taken; still at most one of them gets the visitor on the line.          *)
(***************************************************************************)
OneAgentTalks ==
    \A a, b \in Agents :
        /\ agt[a].state = "talking" /\ agt[b].state = "talking"
        /\ agt[a].call = agt[b].call
        => a = b

(***************************************************************************)
(* "voice_end: either side hangs up": an app in a call only leaves it when *)
(* its own user or the visitor of that call has ended it, or the line      *)
(* fails.  An end of some other call must not.                             *)
(***************************************************************************)
OnlyItsOwnEndEndsACall ==
    [][\A a \in Agents :
          agt[a].state = "talking" /\ OnRemoteEnd(a) => Head(down[a]).call = agt[a].call]_vars

(***************************************************************************)
(* fireAcceptWatchdog ends calls an agent accepted and never answered: it  *)
(* never reports a call as unanswered that both sides are in.              *)
(***************************************************************************)
InCall(c) ==
    /\ \E v \in Visitors : vis[v].state = "talking" /\ vis[v].call = c
    /\ \E a \in Agents : agt[a].state = "talking" /\ agt[a].call = c

LiveCallIsNotUnanswered ==
    [][\A c \in Calls, n \in Serials : WatchdogTells(c, n) => ~InCall(c)]_vars

(***************************************************************************)
(* voice_controller.dart: after voice_accept_failed the hub tells the      *)
(* visitor at once and writes the message.                                 *)
(***************************************************************************)
MicFailureEndsTheCall ==
    [][\A a \in Agents :
          AcceptMicFails(a) /\ a \in online /\ agt[a].call \in pending =>
             ending' = agt[a].call \/ agt[a].call \in finished']_vars

(***************************************************************************)
(* hub.go, the field pendingAccepts: when no answer comes, both windows    *)
(* close within five seconds.  So a visitor whose call was accepted is not *)
(* left in "connecting".                                                   *)
(***************************************************************************)
AcceptedVisitorIsReleased ==
    \A v \in Visitors : (vis[v].state = "accepting") ~> (vis[v].state # "accepting")

=============================================================================
