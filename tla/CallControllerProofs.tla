------------------------ MODULE CallControllerProofs ------------------------
(***************************************************************************)
(* Theorems about CallController, for every set of contacts, devices and   *)
(* session ids and whatever the bounds.  Even if outcomes of closed        *)
(* engines are heard: its invariant, that it implements CallLifecycle, the *)
(* candidates that come early, and the button to end a call.  If they are  *)
(* not: the timeouts of calls and the button to answer.                    *)
(***************************************************************************)
EXTENDS CallProperties, TLAPS, SequenceTheorems

\* No session id, engine or JID is taken for its None; the empty call is a call record.
LEMMA Constants ==
    /\ NoSid \notin Sids /\ NoEngine \notin Engines
    /\ NoJid \notin Devices /\ NoJid \notin Peers
    /\ \A d \in Devices : Bare[d] \in Peers
    /\ \A s \in Sids : Party[s] \in Peers
    /\ NoCall \in CallRecord
  BY JidAssumption, SidAssumption
     DEF Sids, NoSid, Engines, NoEngine, NoCall, CallRecord, CallStates

\* The contexts that are created for new calls are well-formed call records.
LEMMA NewCallTypes ==
    /\ \A sid \in OwnSids : /\ OutgoingCall(sid) \in CallRecord
                            /\ WellFormed(OutgoingCall(sid))
    /\ \A sid \in Sids, from \in Devices, jmi \in BOOLEAN,
          state \in {"ringing", "negotiating"} :
          /\ IncomingCall(sid, from, state, jmi) \in CallRecord
          /\ WellFormed(IncomingCall(sid, from, state, jmi))
  BY Constants DEF Sids, OutgoingCall, IncomingCall, CallRecord, CallStates,
                   LiveStates, WellFormed

\* Every stanza that Say builds for a session id is one of the plugin's.
LEMMA StanzaTypes ==
    \A to \in Devices \cup Peers, sid \in Sids :
        /\ Say(to, "propose", sid) \in Stanzas
        /\ Say(to, "ringing", sid) \in Stanzas
        /\ Say(to, "reject", sid) \in Stanzas
        /\ Say(to, "retract", sid) \in Stanzas
        /\ Say(to, "finish", sid) \in Stanzas
        /\ Say(to, "proceed", sid) \in Stanzas
        /\ Say(to, "presence", sid) \in Stanzas
        /\ Say(to, "session-terminate", sid) \in Stanzas
        /\ Say(to, "result", sid) \in Stanzas
  BY DEF Say, Stanzas, JmiActions, JingleActions

\* So is every stanza that carries a description or a candidate.
LEMMA CarryTypes ==
    \A to \in Devices \cup Peers, sid \in Sids, engine \in Engines :
        /\ Carry(to, "session-initiate", sid, engine) \in Stanzas
        /\ Carry(to, "session-accept", sid, engine) \in Stanzas
        /\ Carry(to, "transport-info", sid, engine) \in Stanzas
  BY DEF Carry, Stanzas, JmiActions, JingleActions

\* Showing, re-labelling, enabling and hiding the window keep it a window state.
LEMMA WindowTypes ==
    /\ \A controls \in {"incoming", "active"} : Showing(controls) \in WindowStates
    /\ \A win \in WindowStates : /\ WithActiveControls(win) \in WindowStates
                                 /\ Enabled(win) \in WindowStates
                                 /\ Hidden(win) \in WindowStates
  BY DEF Showing, WithActiveControls, Enabled, Hidden, WindowStates

\* _finish_local keeps the types, a promoted waiting call included.
LEMMA FinishLocalTypes ==
    ASSUME TypeOK, CallsWellFormed, NEW state \in {"ended", "failed"},
           NEW win \in WindowStates, NEW bar \in {"start", "cancel", "hangup"},
           FinishLocal(state, win, bar)
    PROVE  CallsTyped' /\ MediaTyped' /\ TimersTyped' /\ UiTyped'
<1>1. CallsTyped'
  <2>1. waiting' = NoCall /\ waitingOffer' = FALSE
    BY DEF FinishLocal, NoWaiting
  <2>2. CASE waiting # NoCall
    BY <2>1, <2>2, Constants DEF FinishLocal, TypeOK, CallsTyped
  <2>3. CASE waiting = NoCall
    <3>1. context' = IF Live(context) THEN [context EXCEPT !.state = state] ELSE context
      BY <2>3 DEF FinishLocal
    <3>2. context' \in CallRecord
      BY <3>1 DEF TypeOK, CallsTyped, CallRecord, CallStates, Terminal
    <3> QED BY <2>1, <2>3, <3>2, Constants DEF FinishLocal, CallsTyped
  <2> QED BY <2>2, <2>3
<1>2. MediaTyped'
  BY Constants DEF FinishLocal, CloseMedia, ForgetDescriptions, TypeOK, MediaTyped
<1>3. TimersTyped'
  BY Constants DEF FinishLocal, NoWaiting, TypeOK, TimersTyped, TimerStates, Timer, NoTimer,
     CallsWellFormed, WellFormed, CallsTyped, CallRecord, TimeoutPhases
<1>4. UiTyped'
  <2>1. alert' \in Sids \cup {NoSid}
    BY DEF FinishLocal, TypeOK, UiTyped, Silenced
  <2>2. window' \in WindowStates
    BY WindowTypes DEF FinishLocal
  <2>3. toolbar' \in {"start", "cancel", "hangup"}
    BY DEF FinishLocal
  <2> QED BY <2>1, <2>2, <2>3 DEF UiTyped
<1> QED BY <1>1, <1>2, <1>3, <1>4

\* Joining sequences of stanzas, and making them of one or two, gives such a sequence.
LEMMA SequenceTypes ==
    /\ \A s, t \in Seq(Stanzas) : s \o t \in Seq(Stanzas)
    /\ <<>> \in Seq(Stanzas)
    /\ \A a \in Stanzas : <<a>> \in Seq(Stanzas)
    /\ \A a, b \in Stanzas : <<a, b>> \in Seq(Stanzas)
  BY ConcatProperties

\* A stanza sent on a condition is a sequence of stanzas either way.
LEMMA WhenTypes ==
    ASSUME NEW condition, NEW stanza, condition => stanza \in Stanzas
    PROVE  When(condition, stanza) \in Seq(Stanzas)
  BY SequenceTypes DEF When

\* Every call has somebody to address: its device or else its contact.
LEMMA TargetTypes ==
    ASSUME NEW call \in CallRecord, call.peer \in Peers
    PROVE  Target(call) \in Devices \cup Peers
  BY DEF Target, CallRecord

\* A live context, or any that is not None, names a session id and a contact.
LEMMA LiveIsWellFormed ==
    ASSUME CallsWellFormed, Live(context) \/ context # NoCall
    PROVE  context.sid \in Sids /\ context.peer \in Peers
  BY DEF CallsWellFormed, WellFormed, Live, LiveStates, NoCall

\* What hangup sends for a live call is a sequence of stanzas.
LEMMA HangupStanzasTypes ==
    ASSUME TypeOK, CallsWellFormed, Live(context)
    PROVE  HangupStanzas \in Seq(Stanzas)
<1>1. context \in CallRecord /\ context.sid \in Sids /\ context.peer \in Peers
  BY LiveIsWellFormed DEF TypeOK, CallsTyped
<1>2. Target(context) \in Devices \cup Peers
  BY <1>1, TargetTypes
<1>3. Say(context.peer, "retract", context.sid) \in Stanzas
  BY <1>1, StanzaTypes
<1>4. /\ Say(Target(context), "reject", context.sid) \in Stanzas
      /\ Say(Target(context), "finish", context.sid) \in Stanzas
      /\ Say(Target(context), "session-terminate", context.sid) \in Stanzas
  BY <1>1, <1>2, StanzaTypes
<1>5. When(context.full # NoJid /\ JingleStarted,
           Say(context.full, "session-terminate", context.sid)) \in Seq(Stanzas)
  BY <1>1, WhenTypes, StanzaTypes DEF CallRecord
<1>6. When(context.jmi, Say(Target(context), "finish", context.sid)) \in Seq(Stanzas)
  BY <1>1, <1>4, WhenTypes DEF CallRecord
<1> QED BY <1>3, <1>4, <1>5, <1>6, SequenceTypes DEF HangupStanzas

\* hangup keeps the types.
LEMMA HangupTypes ==
    ASSUME TypeOK, CallsWellFormed, Hangup
    PROVE  CallsTyped' /\ MediaTyped' /\ TimersTyped' /\ UiTyped' /\ sent' \in Seq(Stanzas)
<1>0. window \in WindowStates
  BY DEF TypeOK, UiTyped
<1>1. CASE Live(context)
  BY <1>0, <1>1, HangupStanzasTypes, FinishLocalTypes DEF Hangup
<1>2. CASE ~Live(context)
  <2>1. CallsTyped' /\ MediaTyped' /\ TimersTyped'
    BY <1>2 DEF Hangup, TypeOK, CallsTyped, MediaTyped, TimersTyped, callVars, mediaVars, timerVars
  <2>2. UiTyped' /\ sent' \in Seq(Stanzas)
    BY <1>0, <1>2, WindowTypes, SequenceTypes DEF Hangup, TypeOK, UiTyped, Silenced
  <2> QED BY <2>1, <2>2
<1> QED BY <1>1, <1>2

\* _clear_waiting keeps the types.
LEMMA ClearWaitingTypes ==
    ASSUME TypeOK, ClearWaiting
    PROVE  CallsTyped' /\ MediaTyped' /\ TimersTyped' /\ UiTyped'
<1>1. CallsTyped' /\ TimersTyped'
  BY Constants DEF ClearWaiting, NoWaiting, TypeOK, CallsTyped, TimersTyped
<1>2. MediaTyped'
  BY DEF ClearWaiting, TypeOK, MediaTyped
<1>3. UiTyped'
  BY WindowTypes DEF ClearWaiting, TypeOK, UiTyped, Silenced, Indicator
<1> QED BY <1>1, <1>2, <1>3

\* _decline_waiting keeps the types, since a waiting call names its device.
LEMMA DeclineWaitingTypes ==
    ASSUME TypeOK, CallsWellFormed, WaitingBehindActive, waiting # NoCall, DeclineWaiting
    PROVE  CallsTyped' /\ MediaTyped' /\ TimersTyped' /\ UiTyped' /\ sent' \in Seq(Stanzas)
<1>1. waiting.sid \in Sids /\ waiting.full \in Devices
  BY DEF CallsWellFormed, WellFormed, WaitingBehindActive
<1>2. sent' \in Seq(Stanzas)
  BY <1>1, StanzaTypes, SequenceTypes DEF DeclineWaiting
<1> QED BY <1>2, ClearWaitingTypes DEF DeclineWaiting

\* _start_media keeps the types.
LEMMA StartMediaTypes ==
    ASSUME TypeOK, NEW sid \in Sids, NEW device \in Devices, NEW answerer \in BOOLEAN,
           StartMedia(sid, device, answerer)
    PROVE  MediaTyped'
  BY DEF StartMedia, TypeOK, MediaTyped, Engines

\* Closing the engine keeps the types of the held engine and of the engines.
LEMMA CloseMediaTypes ==
    ASSUME TypeOK, CloseMedia
    PROVE  /\ media' \in Engines \cup {NoEngine}
           /\ engines' \in [Engines -> {"none", "open", "closed"}]
  BY Constants DEF CloseMedia, TypeOK, MediaTyped

\* Running the queue's first callback keeps the queue's type; a report names its engine.
LEMMA PopTypes ==
    ASSUME TypeOK, ReportsNameEngines, NEW what, Pop(what)
    PROVE  /\ QueueTyped' /\ ReportsNameEngines' /\ attached' \in BOOLEAN
           /\ what \in Reports => Source \in Engines
<1>1. idle \in Seq(Callbacks) /\ idle # <<>>
  BY DEF TypeOK, QueueTyped, Pop
<1>2. /\ Tail(idle) \in Seq(Callbacks)
      /\ \A i \in DOMAIN Tail(idle) : i + 1 \in DOMAIN idle /\ Tail(idle)[i] = idle[i + 1]
      /\ 1 \in DOMAIN idle /\ Head(idle) = idle[1]
  BY <1>1
<1>3. QueueTyped' /\ attached' \in BOOLEAN
  BY <1>2 DEF Pop, TypeOK, QueueTyped, NetworkTyped
<1>4. ReportsNameEngines'
  BY <1>2 DEF Pop, ReportsNameEngines
<1>5. what \in Reports => Source \in Engines
  BY <1>2 DEF Pop, ReportsNameEngines, Source
<1> QED BY <1>3, <1>4, <1>5

\* So does queueing a click or a report that names its engine.
LEMMA QueueTypes ==
    ASSUME TypeOK, ReportsNameEngines, NEW what \in Clicks \cup Reports,
           NEW source \in (Sids \cup {NoSid}) \X (Devices \cup {NoJid}),
           what \in Reports => source \in Engines,
           Queue(what, source)
    PROVE  idle' \in Seq(Callbacks) /\ ReportsNameEngines'
<1> DEFINE callback == [what |-> what, source |-> source]
<1>1. idle \in Seq(Callbacks) /\ callback \in Callbacks
  BY DEF TypeOK, QueueTyped, Callbacks
<1>2. idle' = Append(idle, callback)
  BY DEF Queue
<1> HIDE DEF callback
<1>3. /\ idle' \in Seq(Callbacks)
      /\ \A i \in DOMAIN idle' : \/ i \in DOMAIN idle /\ idle'[i] = idle[i]
                                 \/ idle'[i] = callback
  BY <1>1, <1>2
<1> QED BY <1>3 DEF ReportsNameEngines, callback

\* A click in the window keeps the types.
LEMMA ClickTypes ==
    ASSUME TypeOK, CallsWellFormed, ReportsNameEngines, NEW what \in Clicks,
           NEW win \in WindowStates, NEW bar \in {"start", "cancel", "hangup"},
           Click(what, win, bar)
    PROVE  TypeOK' /\ ReportsNameEngines'
<1>1. <<Shown, NoJid>> \in (Sids \cup {NoSid}) \X (Devices \cup {NoJid})
  BY DEF TypeOK, CallsTyped, CallRecord, Shown
<1>2. idle' \in Seq(Callbacks) /\ ReportsNameEngines'
  BY <1>1, QueueTypes DEF Click, Clicks, ButtonClicks, Reports, Outcomes
<1>3. QueueTyped'
  BY <1>2 DEF Click, TypeOK, QueueTyped
<1>4. CallsTyped' /\ MediaTyped' /\ TimersTyped'
  BY DEF Click, callVars, mediaVars, timerVars, TypeOK, CallsTyped, MediaTyped, TimersTyped
<1>5. UiTyped' /\ NetworkTyped'
  BY SequenceTypes DEF Click, networkVars, TypeOK, UiTyped, NetworkTyped
<1> QED BY <1>2, <1>3, <1>4, <1>5 DEF TypeOK

\* What the user does keeps the types.
LEMMA UserTypes ==
    ASSUME TypeOK, CallsWellFormed, ReportsNameEngines, UserStep
    PROVE  TypeOK' /\ ReportsNameEngines'
<1>0. window \in WindowStates /\ toolbar \in {"start", "cancel", "hangup"}
  BY DEF TypeOK, UiTyped
<1>1. ASSUME NEW sid \in OwnSids, StartOutgoing(sid) PROVE TypeOK' /\ ReportsNameEngines'
  <2>1. sid \in Sids /\ Party[sid] \in Peers
    BY Constants DEF Sids
  <2>2. CallsTyped'
    BY <1>1, NewCallTypes DEF StartOutgoing, TypeOK, CallsTyped
  <2>3. MediaTyped' /\ QueueTyped' /\ ReportsNameEngines'
    BY <1>1 DEF StartOutgoing, mediaVars, TypeOK, MediaTyped, QueueTyped, ReportsNameEngines
  <2>4. TimersTyped'
    BY <1>1, <2>1 DEF StartOutgoing, TypeOK, TimersTyped, TimerStates, Timer, TimeoutPhases
  <2>5. UiTyped'
    <3>1. window' \in WindowStates
      BY <1>0, <1>1, WindowTypes DEF StartOutgoing, WindowStates
    <3> QED BY <1>1, <3>1 DEF StartOutgoing, TypeOK, UiTyped
  <2>6. NetworkTyped'
    <3>1. sent' \in Seq(Stanzas)
      BY <1>1, <2>1, StanzaTypes, SequenceTypes DEF StartOutgoing
    <3>2. openings' \subseteq Openings
      BY <1>1, <2>1 DEF StartOutgoing, TypeOK, NetworkTyped, Openings
    <3> QED BY <1>1, <3>1, <3>2 DEF StartOutgoing, TypeOK, NetworkTyped
  <2> QED BY <2>2, <2>3, <2>4, <2>5, <2>6 DEF TypeOK
<1>2. ASSUME ToolbarHangup PROVE TypeOK' /\ ReportsNameEngines'
  <2>1. QueueTyped' /\ ReportsNameEngines' /\ attached' \in BOOLEAN /\ openings' \subseteq Openings
    BY <1>2 DEF ToolbarHangup, networkVars, TypeOK, QueueTyped, NetworkTyped, ReportsNameEngines
  <2> QED BY <1>2, <2>1, HangupTypes DEF ToolbarHangup, TypeOK, NetworkTyped
<1>3. ASSUME ClickAccept PROVE TypeOK' /\ ReportsNameEngines'
  BY <1>0, <1>3, ClickTypes, WindowTypes DEF ClickAccept, Clicks, ButtonClicks
<1>4. ASSUME ClickDecline PROVE TypeOK' /\ ReportsNameEngines'
  BY <1>0, <1>4, ClickTypes DEF ClickDecline, Clicks, ButtonClicks, WindowStates
<1>5. ASSUME ClickHangup PROVE TypeOK' /\ ReportsNameEngines'
  BY <1>0, <1>5, ClickTypes DEF ClickHangup, Clicks, ButtonClicks, WindowStates
<1>6. ASSUME CloseWindow PROVE TypeOK' /\ ReportsNameEngines'
  BY <1>0, <1>6, ClickTypes, WindowTypes DEF CloseWindow, Clicks
<1>7. ASSUME Deactivate PROVE TypeOK' /\ ReportsNameEngines'
  <2>1. CallsTyped' /\ TimersTyped'
    BY <1>7, Constants DEF Deactivate, NoWaiting, TypeOK, CallsTyped, TimersTyped,
       TimerStates, NoTimer
  <2>2. MediaTyped'
    BY <1>7, CloseMediaTypes DEF Deactivate, ForgetDescriptions, TypeOK, MediaTyped
  <2>3. UiTyped'
    BY <1>0, <1>7, WindowTypes DEF Deactivate, UiTyped
  <2>4. NetworkTyped' /\ QueueTyped' /\ ReportsNameEngines'
    BY <1>7, SequenceTypes DEF Deactivate, TypeOK, NetworkTyped, QueueTyped, ReportsNameEngines
  <2> QED BY <2>1, <2>2, <2>3, <2>4 DEF TypeOK
<1> QED BY <1>1, <1>2, <1>3, <1>4, <1>5, <1>6, <1>7 DEF UserStep


\* What _end_active_for_switch sends is a sequence of stanzas.
LEMMA SwitchStanzasTypes ==
    ASSUME TypeOK, CallsWellFormed, context # NoCall
    PROVE  SwitchStanzas \in Seq(Stanzas)
<1>1. context \in CallRecord /\ context.sid \in Sids /\ context.peer \in Peers
  BY LiveIsWellFormed DEF TypeOK, CallsTyped
<1>2. Target(context) \in Devices \cup Peers
  BY <1>1, TargetTypes
<1>3. /\ Say(context.peer, "retract", context.sid) \in Stanzas
      /\ Say(Target(context), "reject", context.sid) \in Stanzas
      /\ Say(Target(context), "finish", context.sid) \in Stanzas
      /\ Say(Target(context), "session-terminate", context.sid) \in Stanzas
  BY <1>1, <1>2, StanzaTypes
<1>4. When(context.full # NoJid, Say(context.full, "session-terminate", context.sid))
        \in Seq(Stanzas)
  BY <1>1, WhenTypes, StanzaTypes DEF CallRecord
<1>5. When(context.jmi, Say(Target(context), "finish", context.sid)) \in Seq(Stanzas)
  BY <1>3, WhenTypes
<1>6. Say(Target(context), IF context.jmi THEN "reject" ELSE "session-terminate",
          context.sid) \in Stanzas
  BY <1>3
<1> QED BY <1>3, <1>4, <1>5, <1>6, SequenceTypes DEF SwitchStanzas

\* So is a proceed with its directed presence.
LEMMA ProceedTypes ==
    \A to \in Devices, sid \in Sids : Proceed(to, sid) \in Seq(Stanzas)
  BY StanzaTypes, SequenceTypes DEF Proceed

\* Accepting the waiting call keeps the types.
LEMMA AcceptWaitingTypes ==
    ASSUME TypeOK, CallsWellFormed, WaitingBehindActive, ReportsNameEngines, AcceptWaiting
    PROVE  TypeOK' /\ ReportsNameEngines'
<1>1. /\ waiting \in CallRecord /\ waiting.sid \in Sids /\ waiting.full \in Devices
      /\ context # NoCall
  BY DEF AcceptWaiting, CallsWellFormed, WellFormed, WaitingBehindActive, TypeOK,
         CallsTyped, NoCall
<1>2. CallsTyped'
  BY <1>1, Constants DEF AcceptWaiting, NoWaiting, TypeOK, CallsTyped, CallRecord,
     CallStates, LiveStates
<1>3. MediaTyped'
  <2>1. CASE waitingOffer
    <3>1. <<waiting.sid, waiting.full>> \in Engines
      BY <1>1 DEF Engines
    <3>2. media' \in Engines /\ answered' \subseteq Engines /\ early' \subseteq Sids
      BY <2>1, <3>1 DEF AcceptWaiting, TypeOK, MediaTyped
    <3>3. engines' \in [Engines -> {"none", "open", "closed"}]
      BY <2>1 DEF AcceptWaiting, TypeOK, MediaTyped
    <3> QED BY <3>2, <3>3 DEF AcceptWaiting, ForgetDescriptions, MediaTyped
  <2>2. CASE ~waitingOffer
    BY <2>2, CloseMediaTypes DEF AcceptWaiting, ForgetDescriptions, TypeOK, MediaTyped
  <2> QED BY <2>1, <2>2
<1>4. TimersTyped'
  BY <1>1 DEF AcceptWaiting, NoWaiting, TimersTyped, TimerStates, Timer, TimeoutPhases
<1>5. UiTyped'
  BY WindowTypes DEF AcceptWaiting, TypeOK, UiTyped
<1>6. sent' \in Seq(Stanzas) /\ openings' \subseteq Openings
  <2>1. /\ SwitchStanzas \in Seq(Stanzas)
        /\ SwitchStanzas \o Proceed(waiting.full, waiting.sid) \in Seq(Stanzas)
    BY <1>1, SwitchStanzasTypes, ProceedTypes, SequenceTypes
  <2>2. <<waiting.sid, waiting.full, "proceed">> \in Openings
    BY <1>1 DEF Openings
  <2>3. openings \subseteq Openings
    BY DEF TypeOK, NetworkTyped
  <2> QED BY <2>1, <2>2, <2>3 DEF AcceptWaiting
<1>7. QueueTyped' /\ ReportsNameEngines' /\ attached' \in BOOLEAN
  BY PopTypes DEF AcceptWaiting
<1> QED BY <1>2, <1>3, <1>4, <1>5, <1>6, <1>7 DEF TypeOK, NetworkTyped

\* Accepting the ringing call keeps the types.
LEMMA AcceptRingingTypes ==
    ASSUME TypeOK, CallsWellFormed, ReportsNameEngines, AcceptRinging
    PROVE  TypeOK' /\ ReportsNameEngines'
<1>1. context \in CallRecord /\ context.sid \in Sids /\ context.full \in Devices
  BY DEF AcceptRinging, CallsWellFormed, WellFormed, TypeOK, CallsTyped, NoCall
<1>2. CallsTyped' /\ TimersTyped' /\ UiTyped'
  <2>1. CallsTyped'
    BY <1>1 DEF AcceptRinging, TypeOK, CallsTyped, CallRecord, CallStates, LiveStates
  <2>2. TimersTyped'
    BY <1>1 DEF AcceptRinging, TypeOK, TimersTyped, TimerStates, Timer, TimeoutPhases
  <2>3. UiTyped'
    BY WindowTypes DEF AcceptRinging, TypeOK, UiTyped, Silenced
  <2> QED BY <2>1, <2>2, <2>3
<1>3. MediaTyped'
  BY <1>1, StartMediaTypes DEF AcceptRinging, mediaVars, TypeOK, MediaTyped
<1>4. sent' \in Seq(Stanzas) /\ openings' \subseteq Openings
  <2>1. Proceed(context.full, context.sid) \in Seq(Stanzas)
    BY <1>1, ProceedTypes
  <2>2. <<context.sid, context.full, "proceed">> \in Openings
    BY <1>1 DEF Openings
  <2>3. openings \subseteq Openings
    BY DEF TypeOK, NetworkTyped
  <2> QED BY <2>1, <2>2, <2>3, SequenceTypes DEF AcceptRinging
<1>5. QueueTyped' /\ ReportsNameEngines' /\ attached' \in BOOLEAN
  BY PopTypes DEF AcceptRinging
<1> QED BY <1>2, <1>3, <1>4, <1>5 DEF TypeOK, NetworkTyped


\* decline keeps the types.
LEMMA DeclineTypes ==
    ASSUME TypeOK, CallsWellFormed, WaitingBehindActive, ReportsNameEngines, Decline
    PROVE  TypeOK' /\ ReportsNameEngines'
<1>1. QueueTyped' /\ ReportsNameEngines' /\ attached' \in BOOLEAN /\ openings' \subseteq Openings
  BY PopTypes DEF Decline, TypeOK, NetworkTyped
<1>2. CASE waiting # NoCall
  BY <1>1, <1>2, DeclineWaitingTypes DEF Decline, TypeOK, NetworkTyped
<1>3. CASE waiting = NoCall /\ context = NoCall
  BY <1>1, <1>3, SequenceTypes DEF Decline, callVars, mediaVars, timerVars, uiVars, TypeOK,
     CallsTyped, MediaTyped, TimersTyped, UiTyped, NetworkTyped
<1>4. CASE waiting = NoCall /\ context # NoCall
  <2>1. context \in CallRecord /\ context.sid \in Sids
    BY <1>4, LiveIsWellFormed DEF TypeOK, CallsTyped
  <2>2. sent' \in Seq(Stanzas)
    <3> DEFINE say == Say(context.full, IF pendingOffer THEN "session-terminate" ELSE "reject",
                          context.sid)
    <3>1. context.full # NoJid => say \in Stanzas
      BY <2>1, StanzaTypes DEF CallRecord
    <3>2. When(context.incoming /\ context.full # NoJid, say) \in Seq(Stanzas)
      BY <3>1, WhenTypes
    <3> QED BY <1>4, <3>2 DEF Decline
  <2>3. window \in WindowStates /\ toolbar \in {"start", "cancel", "hangup"}
    BY DEF TypeOK, UiTyped
  <2>4. FinishLocal("ended", window, toolbar)
    BY <1>4 DEF Decline
  <2> QED BY <1>1, <2>2, <2>3, <2>4, FinishLocalTypes DEF TypeOK, NetworkTyped
<1> QED BY <1>2, <1>3, <1>4

\* So do the other callbacks of the window.
LEMMA WindowCallbackTypes ==
    ASSUME TypeOK, CallsWellFormed, WaitingBehindActive, ReportsNameEngines,
           AcceptNothing \/ HangupClicked \/ WindowClosed
    PROVE  TypeOK' /\ ReportsNameEngines'
<1>1. QueueTyped' /\ ReportsNameEngines' /\ attached' \in BOOLEAN /\ openings' \subseteq Openings
  BY PopTypes DEF AcceptNothing, HangupClicked, WindowClosed, TypeOK, NetworkTyped
<1>2. CASE AcceptNothing
  <2>1. CallsTyped' /\ MediaTyped' /\ sent' \in Seq(Stanzas)
    BY <1>2, SequenceTypes DEF AcceptNothing, callVars, mediaVars, TypeOK, CallsTyped, MediaTyped
  <2>2. TimersTyped' /\ UiTyped'
    BY <1>2 DEF AcceptNothing, TypeOK, CallsTyped, CallRecord, TimersTyped, TimerStates, Timer,
       TimeoutPhases, UiTyped, Silenced
  <2> QED BY <1>1, <2>1, <2>2 DEF TypeOK, NetworkTyped
<1>3. CASE HangupClicked
  BY <1>1, <1>3, HangupTypes DEF HangupClicked, TypeOK, NetworkTyped
<1>4. CASE WindowClosed
  BY <1>1, <1>4, HangupTypes, DeclineWaitingTypes DEF WindowClosed, TypeOK, NetworkTyped
<1> QED BY <1>2, <1>3, <1>4

\* The transport-infos for queued candidates are stanzas of the call's device.
LEMMA CandidatesTypes ==
    ASSUME TypeOK, CallsWellFormed, Live(context), context.full # NoJid,
           NEW queued \in Seq(Engines)
    PROVE  Candidates(queued) \in Seq(Stanzas)
<1>1. context.full \in Devices /\ context.sid \in Sids
  BY LiveIsWellFormed DEF TypeOK, CallsTyped, CallRecord
<1>2. \A i \in 1 .. Len(queued) :
         Carry(context.full, "transport-info", context.sid, queued[i]) \in Stanzas
  BY <1>1, CarryTypes
<1> QED BY <1>2, IsASeq DEF Candidates

\* The local description's report keeps the types.
LEMMA LocalDescriptionReadyTypes ==
    ASSUME TypeOK, CallsWellFormed, ReportsNameEngines, LocalDescriptionReady
    PROVE  TypeOK' /\ ReportsNameEngines'
<1>1. /\ QueueTyped' /\ ReportsNameEngines' /\ attached' \in BOOLEAN
      /\ Source \in Engines
  BY PopTypes DEF LocalDescriptionReady, Reports
<1>2. CallsTyped' /\ TimersTyped' /\ UiTyped'
  BY DEF LocalDescriptionReady, callVars, timerVars, uiVars, TypeOK, CallsTyped,
     TimersTyped, UiTyped
<1>3. MediaTyped'
  <2>1. localDescription' \in {localDescription, Source}
    BY DEF LocalDescriptionReady
  <2>2. pendingLocal' = pendingLocal \/ pendingLocal' = <<>>
    BY DEF LocalDescriptionReady
  <2>3. localDescription \in Engines \cup {NoEngine} /\ pendingLocal \in Seq(Engines)
    BY DEF TypeOK, MediaTyped
  <2>4. UNCHANGED <<media, early, engines, answered>>
    BY DEF LocalDescriptionReady
  <2>5. pendingLocal' \in Seq(Engines)
    <3>1. <<>> \in Seq(Engines)
      OBVIOUS
    <3> QED BY <2>2, <2>3, <3>1, Zenon
  <2> QED BY <1>1, <2>1, <2>3, <2>4, <2>5 DEF TypeOK, MediaTyped
<1>4. sent' \in Seq(Stanzas) /\ openings' \subseteq Openings
  <2>0. openings \subseteq Openings /\ pendingLocal \in Seq(Engines)
    BY DEF TypeOK, NetworkTyped, MediaTyped
  <2>1. CASE engines[Source] = "closed" \/ ~Live(context) \/ context.full = NoJid
    BY <2>0, <2>1, SequenceTypes DEF LocalDescriptionReady
  <2>2. CASE engines[Source] # "closed" /\ Live(context) /\ context.full # NoJid
    <3> DEFINE action == IF context.incoming THEN "session-accept" ELSE "session-initiate"
               first == Carry(context.full, action, context.sid, Source)
    <3>1. context.full \in Devices /\ context.sid \in Sids
      BY <2>2, LiveIsWellFormed DEF TypeOK, CallsTyped, CallRecord
    <3>2. first \in Stanzas
      BY <1>1, <3>1, CarryTypes
    <3>3. Candidates(pendingLocal) \in Seq(Stanzas)
      BY <2>0, <2>2, CandidatesTypes
    <3>4. <<first>> \o Candidates(pendingLocal) \in Seq(Stanzas)
      BY <3>2, <3>3, SequenceTypes
    <3>5. <<context.sid, context.full, "session-initiate">> \in Openings
      BY <3>1 DEF Openings
    <3>6. sent' = <<first>> \o Candidates(pendingLocal)
      BY <2>2 DEF LocalDescriptionReady
    <3>7. openings' \subseteq Openings
      BY <2>0, <2>2, <3>5 DEF LocalDescriptionReady
    <3> QED BY <3>4, <3>6, <3>7
  <2> QED BY <2>1, <2>2
<1> QED BY <1>1, <1>2, <1>3, <1>4 DEF TypeOK, NetworkTyped

\* A local candidate's report keeps the types.
LEMMA LocalCandidateReadyTypes ==
    ASSUME TypeOK, CallsWellFormed, ReportsNameEngines, LocalCandidateReady
    PROVE  TypeOK' /\ ReportsNameEngines'
<1>1. /\ QueueTyped' /\ ReportsNameEngines' /\ attached' \in BOOLEAN
      /\ Source \in Engines
  BY PopTypes DEF LocalCandidateReady, Reports
<1>2. CallsTyped' /\ TimersTyped' /\ UiTyped' /\ openings' \subseteq Openings
  BY DEF LocalCandidateReady, callVars, timerVars, uiVars, TypeOK, CallsTyped,
     TimersTyped, UiTyped, NetworkTyped
<1>3. MediaTyped'
  BY <1>1 DEF LocalCandidateReady, TypeOK, MediaTyped
<1>4. sent' \in Seq(Stanzas)
  <2>1. <<Source>> \in Seq(Engines)
    BY <1>1
  <2>2. sent' = <<>> \/ /\ Live(context) /\ context.full # NoJid
                        /\ sent' = Candidates(<<Source>>)
    BY DEF LocalCandidateReady
  <2> QED BY <2>1, <2>2, CandidatesTypes, SequenceTypes
<1> QED BY <1>1, <1>2, <1>3, <1>4 DEF TypeOK, NetworkTyped


\* The report that media is connected keeps the types.
LEMMA MediaConnectedTypes ==
    ASSUME TypeOK, CallsWellFormed, ReportsNameEngines, MediaConnected
    PROVE  TypeOK' /\ ReportsNameEngines'
<1>1. QueueTyped' /\ ReportsNameEngines' /\ attached' \in BOOLEAN
  BY PopTypes DEF MediaConnected
<1>2. CallsTyped' /\ TimersTyped'
  BY DEF MediaConnected, TypeOK, CallsTyped, CallRecord, CallStates, LiveStates,
     TimersTyped, TimerStates, NoTimer
<1>3. MediaTyped'
  BY DEF MediaConnected, mediaVars, TypeOK, MediaTyped
<1>4. UiTyped'
  <2>1. window' \in WindowStates
    BY DEF MediaConnected, TypeOK, UiTyped, WindowStates
  <2> QED BY <2>1 DEF MediaConnected, TypeOK, UiTyped
<1>5. sent' \in Seq(Stanzas) /\ openings' \subseteq Openings
  BY SequenceTypes DEF MediaConnected, TypeOK, NetworkTyped
<1> QED BY <1>1, <1>2, <1>3, <1>4, <1>5 DEF TypeOK, NetworkTyped

\* The report that media failed keeps the types.
LEMMA MediaFailedTypes ==
    ASSUME TypeOK, CallsWellFormed, ReportsNameEngines, MediaFailed
    PROVE  TypeOK' /\ ReportsNameEngines'
<1>1. QueueTyped' /\ ReportsNameEngines' /\ attached' \in BOOLEAN /\ openings' \subseteq Openings
  BY PopTypes DEF MediaFailed, TypeOK, NetworkTyped
<1>2. CASE Live(context)
  <2>1. context \in CallRecord /\ context.sid \in Sids /\ context.peer \in Peers
    BY <1>2, LiveIsWellFormed DEF TypeOK, CallsTyped
  <2>2. When(context.full # NoJid /\ context.state \in {"negotiating", "connected"},
             Say(context.full, "session-terminate", context.sid)) \in Seq(Stanzas)
    BY <2>1, WhenTypes, StanzaTypes DEF CallRecord
  <2>3. When(context.jmi, Say(Target(context), "finish", context.sid)) \in Seq(Stanzas)
    BY <2>1, TargetTypes, WhenTypes, StanzaTypes
  <2>4. sent' \in Seq(Stanzas)
    BY <1>2, <2>2, <2>3, SequenceTypes DEF MediaFailed, FailureStanzas
  <2>5. FinishLocal("failed", window, "start") /\ window \in WindowStates
    BY <1>2 DEF MediaFailed, TypeOK, UiTyped
  <2> QED BY <1>1, <2>4, <2>5, FinishLocalTypes DEF TypeOK, NetworkTyped
<1>3. CASE ~Live(context)
  BY <1>1, <1>3, SequenceTypes DEF MediaFailed, callVars, mediaVars, timerVars, uiVars, TypeOK,
     CallsTyped, MediaTyped, TimersTyped, UiTyped, NetworkTyped
<1> QED BY <1>2, <1>3

\* Every queued callback keeps the types.
LEMMA IdleTypes ==
    ASSUME TypeOK, CallsWellFormed, WaitingBehindActive, ReportsNameEngines, IdleStep
    PROVE  TypeOK' /\ ReportsNameEngines'
  BY AcceptWaitingTypes, AcceptRingingTypes, DeclineTypes, WindowCallbackTypes,
     LocalDescriptionReadyTypes, LocalCandidateReadyTypes, MediaConnectedTypes,
     MediaFailedTypes DEF IdleStep

\* Every timeout keeps the types.
LEMMA TimerTypes ==
    ASSUME TypeOK, CallsWellFormed, WaitingBehindActive, ReportsNameEngines, TimerStep
    PROVE  TypeOK' /\ ReportsNameEngines'
<1>1. ASSUME PhaseTimeout PROVE TypeOK' /\ ReportsNameEngines'
  <2>1. QueueTyped' /\ ReportsNameEngines' /\ attached' \in BOOLEAN /\ openings' \subseteq Openings
    BY <1>1 DEF PhaseTimeout, networkVars, TypeOK, QueueTyped, NetworkTyped, ReportsNameEngines
  <2> DEFINE current == /\ context.sid = phaseTimer.sid
                        /\ context.state \in PhaseStates(phaseTimer.phase)
             plan == PlanTimeout(phaseTimer.phase, context.incoming, context.jmi, JingleStarted)
             terminate == When(plan.terminate /\ context.full # NoJid,
                               Say(context.full, "session-terminate", context.sid))
             jmi == When(plan.jmi # "none",
                         Say(IF plan.jmi = "retract" THEN context.peer ELSE Target(context),
                             plan.jmi, context.sid))
  <2>2. CASE current
    <3>1. context \in CallRecord /\ context.sid \in Sids /\ context.peer \in Peers
      BY <2>2, LiveIsWellFormed DEF PhaseStates, Live, LiveStates, TypeOK, CallsTyped
    <3>2. terminate \in Seq(Stanzas)
      BY <3>1, WhenTypes, StanzaTypes DEF CallRecord
    <3>3. plan.jmi \in {"reject", "retract", "finish", "none"}
      BY DEF PlanTimeout
    <3>4. jmi \in Seq(Stanzas)
      BY <3>1, <3>3, TargetTypes, WhenTypes, StanzaTypes
    <3>5. sent' = terminate \o jmi /\ FinishLocal("ended", window, "start")
      BY <1>1, <2>2 DEF PhaseTimeout
    <3> HIDE DEF terminate, jmi
    <3>6. sent' \in Seq(Stanzas) /\ window \in WindowStates
      BY <3>2, <3>4, <3>5, SequenceTypes DEF TypeOK, UiTyped
    <3> QED BY <2>1, <3>5, <3>6, FinishLocalTypes DEF TypeOK, NetworkTyped
  <2>3. CASE ~current
    <3>1. /\ phaseTimer' = NoTimer /\ sent' = <<>>
          /\ UNCHANGED <<callVars, mediaVars, waitTimer, uiVars>>
      BY <1>1, <2>3 DEF PhaseTimeout
    <3>2. CallsTyped' /\ MediaTyped' /\ UiTyped'
      BY <3>1 DEF callVars, mediaVars, uiVars, TypeOK, CallsTyped, MediaTyped, UiTyped
    <3>3. TimersTyped'
      BY <3>1 DEF TypeOK, TimersTyped, TimerStates, NoTimer
    <3> QED BY <2>1, <3>1, <3>2, <3>3, SequenceTypes DEF TypeOK, NetworkTyped
  <2> QED BY <2>2, <2>3
<1>2. ASSUME WaitingTimeout PROVE TypeOK' /\ ReportsNameEngines'
  <2>1. QueueTyped' /\ ReportsNameEngines' /\ attached' \in BOOLEAN /\ openings' \subseteq Openings
    BY <1>2 DEF WaitingTimeout, networkVars, TypeOK, QueueTyped, NetworkTyped, ReportsNameEngines
  <2>2. waiting # NoCall /\ waiting.sid = waitTimer
    BY <1>2 DEF WaitingTimeout, WaitingBehindActive
  <2>3. DeclineWaiting
    BY <1>2, <2>2 DEF WaitingTimeout
  <2> QED BY <2>1, <2>2, <2>3, DeclineWaitingTypes DEF TypeOK, NetworkTyped
<1> QED BY <1>1, <1>2 DEF TimerStep

\* What an engine queues keeps the types.
LEMMA MediaStepTypes ==
    ASSUME TypeOK, ReportsNameEngines, MediaStep
    PROVE  TypeOK' /\ ReportsNameEngines'
<1>1. PICK e \in Engines, what \in Reports : EngineReports(e, what)
  BY DEF MediaStep
<1>2. e \in (Sids \cup {NoSid}) \X (Devices \cup {NoJid})
  BY DEF Engines
<1>3. idle' \in Seq(Callbacks) /\ ReportsNameEngines'
  BY <1>1, <1>2, QueueTypes DEF EngineReports
<1>4. reports' \subseteq Engines \X Reports
  BY <1>1 DEF EngineReports, TypeOK, QueueTyped
<1> QED BY <1>1, <1>3, <1>4, SequenceTypes DEF EngineReports, callVars, mediaVars, timerVars,
       uiVars, networkVars, TypeOK, CallsTyped, MediaTyped, TimersTyped, UiTyped, NetworkTyped,
       QueueTyped


\* What Opens records is an opening.
LEMMA OpeningTypes ==
    \A sid \in Sids, from \in Devices : /\ <<sid, from, "propose">> \in Openings
                                        /\ <<sid, from, "proceed">> \in Openings
                                        /\ <<sid, from, "session-initiate">> \in Openings
  BY DEF Openings

\* _show_waiting keeps the types.
LEMMA ShowWaitingTypes ==
    ASSUME TypeOK, NEW sid \in Sids, NEW from \in Devices, NEW jmi \in BOOLEAN,
           ShowWaiting(sid, from, jmi)
    PROVE  CallsTyped' /\ MediaTyped' /\ TimersTyped' /\ UiTyped'
<1>1. CallsTyped' /\ TimersTyped'
  BY NewCallTypes DEF ShowWaiting, TypeOK, CallsTyped, TimersTyped
<1>2. MediaTyped'
  BY DEF ShowWaiting, mediaVars, TypeOK, MediaTyped
<1>3. UiTyped'
  BY WindowTypes DEF ShowWaiting, UiTyped, Indicator
<1> QED BY <1>1, <1>2, <1>3

\* A new ringing call keeps the types.
LEMMA RingTypes ==
    ASSUME TypeOK, NEW sid \in Sids, NEW from \in Devices, NEW jmi \in BOOLEAN,
           Ring(sid, from, jmi)
    PROVE  /\ context' \in CallRecord /\ UiTyped' /\ phaseTimer' \in TimerStates
  BY NewCallTypes, WindowTypes DEF Ring, UiTyped, TimerStates, Timer, TimeoutPhases

\* Steps that change nothing but what was sent and opened.
LEMMA OnlySentTypes ==
    ASSUME TypeOK, UNCHANGED <<callVars, mediaVars, timerVars, uiVars>>
    PROVE  CallsTyped' /\ MediaTyped' /\ TimersTyped' /\ UiTyped'
  BY DEF callVars, mediaVars, timerVars, uiVars, TypeOK, CallsTyped, MediaTyped,
     TimersTyped, UiTyped

\* Every branch that handles a proposal keeps the types.
LEMMA ProposalTypes ==
    ASSUME TypeOK, CallsWellFormed, ReportsNameEngines,
           NEW from \in Devices, NEW sid \in Sids,
           \/ MigrateCall(from, sid) \/ RejectExtraProposal(from, sid)
           \/ ProposalWaits(from, sid) \/ WinTieBreak(from, sid)
           \/ LoseTieBreak(from, sid) \/ RingForProposal(from, sid)
    PROVE  TypeOK' /\ ReportsNameEngines'
<1>1. QueueTyped' /\ ReportsNameEngines' /\ attached' \in BOOLEAN
  BY DEF MigrateCall, RejectExtraProposal, ProposalWaits, WinTieBreak, LoseTieBreak,
         RingForProposal, Proposal, TypeOK, QueueTyped, NetworkTyped, ReportsNameEngines
<1>2. openings' \subseteq Openings
  <2>1. \/ openings' = openings \cup {<<sid, from, "propose">>}
        \/ openings' = openings \cup {<<sid, from, "propose">>, <<sid, from, "proceed">>}
    BY DEF MigrateCall, RejectExtraProposal, ProposalWaits, WinTieBreak, LoseTieBreak,
           RingForProposal, Opens
  <2>2. openings \subseteq Openings
    BY DEF TypeOK, NetworkTyped
  <2>3. <<sid, from, "propose">> \in Openings /\ <<sid, from, "proceed">> \in Openings
    BY OpeningTypes
  <2> QED BY <2>1, <2>2, <2>3
<1>3. /\ Say(from, "reject", sid) \in Stanzas /\ Say(from, "ringing", sid) \in Stanzas
      /\ Proceed(from, sid) \in Seq(Stanzas)
  BY StanzaTypes, ProceedTypes
<1>4. CASE MigrateCall(from, sid)
  <2>1. context \in CallRecord /\ context.sid \in Sids /\ context.peer \in Peers
    BY <1>4, LiveIsWellFormed DEF MigrateCall, Migrates, Live, LiveStates, TypeOK, CallsTyped
  <2>2. CallsTyped'
    BY <1>4, NewCallTypes DEF MigrateCall, TypeOK, CallsTyped
  <2>3. MediaTyped'
    BY <1>4, CloseMediaTypes DEF MigrateCall, ForgetDescriptions, TypeOK, MediaTyped
  <2>4. TimersTyped'
    BY <1>4 DEF MigrateCall, TypeOK, TimersTyped, TimerStates, Timer, TimeoutPhases
  <2>5. UiTyped'
    BY <1>4, WindowTypes DEF MigrateCall, TypeOK, UiTyped, Silenced
  <2>6. sent' \in Seq(Stanzas)
    <3> DEFINE terminate == When(context.full # NoJid /\ JingleStarted,
                                 Say(context.full, "session-terminate", context.sid))
               finish == <<Say(Target(context), "finish", context.sid)>>
    <3>1. terminate \in Seq(Stanzas)
      BY <2>1, WhenTypes, StanzaTypes DEF CallRecord
    <3>2. finish \in Seq(Stanzas)
      BY <2>1, TargetTypes, StanzaTypes, SequenceTypes
    <3>3. sent' = terminate \o finish \o Proceed(from, sid)
      BY <1>4 DEF MigrateCall
    <3> HIDE DEF terminate, finish
    <3> QED BY <1>3, <3>1, <3>2, <3>3, SequenceTypes
  <2> QED BY <1>1, <1>2, <2>2, <2>3, <2>4, <2>5, <2>6 DEF TypeOK, NetworkTyped
<1>5. CASE RejectExtraProposal(from, sid) \/ WinTieBreak(from, sid)
  <2>1. sent' \in Seq(Stanzas)
    BY <1>3, <1>5, SequenceTypes DEF RejectExtraProposal, WinTieBreak
  <2> QED BY <1>1, <1>2, <1>5, <2>1, OnlySentTypes DEF RejectExtraProposal, WinTieBreak,
         TypeOK, NetworkTyped
<1>6. CASE ProposalWaits(from, sid)
  <2>1. sent' \in Seq(Stanzas)
    BY <1>3, <1>6, SequenceTypes DEF ProposalWaits
  <2> QED BY <1>1, <1>2, <1>6, <2>1, ShowWaitingTypes DEF ProposalWaits, TypeOK, NetworkTyped
<1>7. CASE LoseTieBreak(from, sid)
  <2>1. context.sid \in Sids /\ context.peer \in Peers
    BY <1>7, LiveIsWellFormed DEF LoseTieBreak, Glare, Live, LiveStates
  <2>2. context' \in CallRecord /\ UiTyped' /\ phaseTimer' \in TimerStates
    BY <1>7, RingTypes DEF LoseTieBreak
  <2>3. CallsTyped' /\ TimersTyped'
    BY <1>7, <2>2, Constants DEF LoseTieBreak, NoWaiting, CallsTyped, TimersTyped
  <2>4. MediaTyped'
    BY <1>7, CloseMediaTypes DEF LoseTieBreak, ForgetDescriptions, TypeOK, MediaTyped
  <2>5. sent' \in Seq(Stanzas)
    BY <1>3, <1>7, <2>1, StanzaTypes, SequenceTypes DEF LoseTieBreak
  <2> QED BY <1>1, <1>2, <2>2, <2>3, <2>4, <2>5 DEF TypeOK, NetworkTyped
<1>8. CASE RingForProposal(from, sid)
  <2>1. context' \in CallRecord /\ UiTyped' /\ phaseTimer' \in TimerStates
    BY <1>8, RingTypes DEF RingForProposal
  <2>2. CallsTyped' /\ TimersTyped'
    BY <1>8, <2>1 DEF RingForProposal, TypeOK, CallsTyped, TimersTyped
  <2>3. MediaTyped' /\ sent' \in Seq(Stanzas)
    BY <1>3, <1>8, SequenceTypes DEF RingForProposal, mediaVars, TypeOK, MediaTyped
  <2> QED BY <1>1, <1>2, <2>1, <2>2, <2>3 DEF TypeOK, NetworkTyped
<1> QED BY <1>4, <1>5, <1>6, <1>7, <1>8

\* Every JMI message keeps the types.
LEMMA JmiTypes ==
    ASSUME TypeOK, CallsWellFormed, ReportsNameEngines,
           NEW from \in Devices, NEW sid \in Sids, JmiStep(from, sid)
    PROVE  TypeOK' /\ ReportsNameEngines'
<1>0. window \in WindowStates /\ sid \in Sids
  BY DEF TypeOK, UiTyped
<1>1. ASSUME NEW action \in JmiActions, WaitingCallerGone(from, action, sid)
      PROVE TypeOK' /\ ReportsNameEngines'
  <2>1. QueueTyped' /\ ReportsNameEngines' /\ NetworkTyped'
    BY <1>1, SequenceTypes DEF WaitingCallerGone, networkVars, TypeOK, QueueTyped,
       NetworkTyped, ReportsNameEngines
  <2> QED BY <1>1, <2>1, ClearWaitingTypes DEF WaitingCallerGone, TypeOK
<1>2. ASSUME NEW action \in JmiActions, PeerEndsByJmi(from, action, sid)
      PROVE TypeOK' /\ ReportsNameEngines'
  <2>1. QueueTyped' /\ ReportsNameEngines' /\ NetworkTyped'
    BY <1>2, SequenceTypes DEF PeerEndsByJmi, ForActiveCall, TypeOK, QueueTyped,
       NetworkTyped, ReportsNameEngines
  <2> QED BY <1>0, <1>2, <2>1, FinishLocalTypes, WindowTypes DEF PeerEndsByJmi, TypeOK
<1>3. CASE PeerRings(from, sid)
  <2>1. QueueTyped' /\ ReportsNameEngines' /\ NetworkTyped'
    BY <1>3, SequenceTypes DEF PeerRings, ForActiveCall, TypeOK, QueueTyped,
       NetworkTyped, ReportsNameEngines
  <2>2. CallsTyped' /\ MediaTyped' /\ TimersTyped' /\ UiTyped'
    BY <1>0, <1>3, WindowTypes DEF PeerRings, callVars, mediaVars, timerVars, TypeOK, CallsTyped,
       MediaTyped, TimersTyped, UiTyped
  <2> QED BY <2>1, <2>2 DEF TypeOK
<1>4. CASE PeerProceeds(from, sid)
  <2>1. QueueTyped' /\ ReportsNameEngines' /\ NetworkTyped'
    BY <1>4, SequenceTypes, OpeningTypes DEF PeerProceeds, ForActiveCall, Opens, TypeOK,
       QueueTyped, NetworkTyped, ReportsNameEngines
  <2>2. CallsTyped' /\ TimersTyped'
    BY <1>4 DEF PeerProceeds, TypeOK, CallsTyped, CallRecord, CallStates, LiveStates,
       TimersTyped, TimerStates, Timer, TimeoutPhases
  <2>3. UiTyped' /\ MediaTyped'
    BY <1>0, <1>4, WindowTypes, StartMediaTypes DEF PeerProceeds, TypeOK, UiTyped
  <2> QED BY <2>1, <2>2, <2>3 DEF TypeOK
<1>5. CASE LateProceed(from, sid)
  <2>1. QueueTyped' /\ ReportsNameEngines' /\ NetworkTyped'
    BY <1>5, SequenceTypes, OpeningTypes DEF LateProceed, ForActiveCall, Opens, TypeOK,
       QueueTyped, NetworkTyped, ReportsNameEngines
  <2>2. CallsTyped'
    BY <1>5 DEF LateProceed, TypeOK, CallsTyped, CallRecord
  <2>3. MediaTyped' /\ TimersTyped' /\ UiTyped'
    BY <1>5 DEF LateProceed, mediaVars, timerVars, uiVars, TypeOK, MediaTyped, TimersTyped, UiTyped
  <2> QED BY <2>1, <2>2, <2>3 DEF TypeOK
<1> QED BY <1>1, <1>2, <1>3, <1>4, <1>5, ProposalTypes DEF JmiStep


\* Every Jingle IQ keeps the types.
LEMMA JingleTypes ==
    ASSUME TypeOK, CallsWellFormed, WaitingBehindActive, ReportsNameEngines,
           NEW from \in Devices, NEW sid \in Sids, JingleStep(from, sid)
    PROVE  TypeOK' /\ ReportsNameEngines'
<1>0. /\ window \in WindowStates /\ sid \in Sids
      /\ \A action : Claimed(from, action, sid) =>
            /\ QueueTyped' /\ ReportsNameEngines' /\ attached' \in BOOLEAN
            /\ openings' \subseteq Openings
  BY OpeningTypes DEF TypeOK, UiTyped, Claimed, QueueTyped, NetworkTyped, ReportsNameEngines
<1>1. Ack(from, sid) \in Seq(Stanzas) /\ Say(from, "session-terminate", sid) \in Stanzas
  BY StanzaTypes, SequenceTypes DEF Ack
<1>2. CASE WaitingCallerInitiates(from, sid)
  <2>1. CallsTyped' /\ MediaTyped' /\ TimersTyped' /\ UiTyped'
    BY <1>2 DEF WaitingCallerInitiates, mediaVars, timerVars, uiVars, TypeOK, CallsTyped,
       CallRecord, MediaTyped, TimersTyped, UiTyped
  <2> QED BY <1>0, <1>1, <1>2, <2>1 DEF WaitingCallerInitiates, TypeOK, NetworkTyped
<1>3. CASE WaitingCallerTrickles(from, sid)
  <2>1. CallsTyped' /\ MediaTyped' /\ TimersTyped' /\ UiTyped'
    BY <1>3 DEF WaitingCallerTrickles, callVars, timerVars, uiVars, TypeOK, CallsTyped,
       MediaTyped, TimersTyped, UiTyped
  <2> QED BY <1>0, <1>1, <1>3, <2>1 DEF WaitingCallerTrickles, TypeOK, NetworkTyped
<1>4. CASE WaitingCallerTerminates(from, sid)
  BY <1>0, <1>1, <1>4, ClearWaitingTypes DEF WaitingCallerTerminates, TypeOK, NetworkTyped
<1>5. CASE RejectExtraSession(from, sid) \/ SessionAfterEnd(from, sid)
  <2>1. sent' \in Seq(Stanzas)
    BY <1>1, <1>5, SequenceTypes DEF RejectExtraSession, SessionAfterEnd
  <2> QED BY <1>0, <1>5, <2>1, OnlySentTypes DEF RejectExtraSession, SessionAfterEnd,
         TypeOK, NetworkTyped
<1>6. CASE SessionWaits(from, sid)
  BY <1>0, <1>1, <1>6, ShowWaitingTypes DEF SessionWaits, TypeOK, NetworkTyped
<1>7. CASE RingForSession(from, sid)
  <2>1. context' \in CallRecord /\ UiTyped' /\ phaseTimer' \in TimerStates
    BY <1>7, RingTypes DEF RingForSession
  <2>2. CallsTyped' /\ MediaTyped' /\ TimersTyped'
    BY <1>7, <2>1 DEF RingForSession, mediaVars, TypeOK, CallsTyped, MediaTyped, TimersTyped
  <2> QED BY <1>0, <1>1, <1>7, <2>1, <2>2 DEF RingForSession, TypeOK, NetworkTyped
<1>8. CASE SessionInitiated(from, sid)
  <2>1. CallsTyped' /\ TimersTyped' /\ UiTyped'
    BY <1>8 DEF SessionInitiated, TypeOK, CallsTyped, CallRecord, TimersTyped, TimerStates,
       Timer, TimeoutPhases, UiTyped
  <2>2. MediaTyped'
    BY <1>8, StartMediaTypes DEF SessionInitiated, mediaVars, TypeOK, MediaTyped
  <2> QED BY <1>0, <1>1, <1>8, <2>1, <2>2 DEF SessionInitiated, ForActiveSession, TypeOK,
         NetworkTyped
<1>9. CASE SessionAccepted(from, sid) \/ PeerTrickles(from, sid)
  <2>1. CallsTyped' /\ TimersTyped' /\ UiTyped'
    BY <1>9 DEF SessionAccepted, PeerTrickles, callVars, timerVars, uiVars, TypeOK,
       CallsTyped, TimersTyped, UiTyped
  <2>2. MediaTyped'
    BY <1>9 DEF SessionAccepted, PeerTrickles, TypeOK, MediaTyped
  <2> QED BY <1>0, <1>1, <1>9, <2>1, <2>2 DEF SessionAccepted, PeerTrickles,
         ForActiveSession, TypeOK, NetworkTyped
<1>10. CASE PeerTerminates(from, sid)
  BY <1>0, <1>1, <1>10, FinishLocalTypes, WindowTypes DEF PeerTerminates, ForActiveSession,
     TypeOK, NetworkTyped
<1> QED BY <1>2, <1>3, <1>4, <1>5, <1>6, <1>7, <1>8, <1>9, <1>10 DEF JingleStep


-----------------------------------------------------------------------------
(* The calls, the alert, the timeouts and the held engine stay consistent  *)
(* with one another.                                                       *)

Consistent ==
    /\ CallsWellFormed /\ WaitingBehindActive /\ AlertIsForRingingCall
    /\ TimerIsOfCurrentPhase /\ MediaBelongsToCall

\* Consistency is about the calls, the timeouts, the alert and the held engine only.
LEMMA UnchangedConsistent ==
    ASSUME Consistent, UNCHANGED <<callVars, timerVars, alert, media, engines>>
    PROVE  Consistent'
  BY DEF Consistent, CallsWellFormed, WaitingBehindActive, AlertIsForRingingCall,
         TimerIsOfCurrentPhase, MediaBelongsToCall, callVars, timerVars

\* _finish_local keeps the consistency: a waiting call becomes a ringing call that is timed
\* and sounds, and no engine is held.
LEMMA FinishLocalConsistent ==
    ASSUME TypeOK, Consistent, NEW state \in {"ended", "failed"}, NEW win, NEW bar,
           FinishLocal(state, win, bar)
    PROVE  Consistent'
<1>1. CASE waiting # NoCall
  <2>1. /\ context' = waiting /\ waiting' = NoCall /\ waitingOffer' = FALSE /\ waitTimer' = NoSid
        /\ phaseTimer' = Timer(waiting.sid, "ringing")
        /\ alert' = Silenced(context.sid) /\ media' = NoEngine
    BY <1>1 DEF FinishLocal, NoWaiting, CloseMedia
  <2>2. /\ waiting.state = "ringing" /\ waiting.incoming /\ waiting.full \in Devices
        /\ waiting.sid # context.sid /\ alert = waiting.sid /\ WellFormed(waiting)
    BY <1>1 DEF Consistent, WaitingBehindActive, AlertIsForRingingCall, CallsWellFormed
  <2>3. CallsWellFormed' /\ WaitingBehindActive' /\ MediaBelongsToCall'
    BY <2>1, <2>2 DEF CallsWellFormed, WellFormed, WaitingBehindActive, MediaBelongsToCall
  <2>4. AlertIsForRingingCall' /\ TimerIsOfCurrentPhase'
    BY <2>1, <2>2 DEF AlertIsForRingingCall, Silenced, TimerIsOfCurrentPhase, Timer, PhaseStates
  <2> QED BY <2>3, <2>4 DEF Consistent
<1>2. CASE waiting = NoCall
  <2>1. /\ context' = IF Live(context) THEN [context EXCEPT !.state = state] ELSE context
        /\ waiting' = NoCall /\ waitingOffer' = FALSE /\ waitTimer' = NoSid
        /\ phaseTimer' = NoTimer /\ alert' = Silenced(context.sid) /\ media' = NoEngine
    BY <1>2 DEF FinishLocal, NoWaiting, CloseMedia
  <2>2. /\ context'.sid = context.sid /\ context'.peer = context.peer
        /\ context'.state \notin LiveStates
        /\ context' = context \/ context'.state = state
    BY <2>1 DEF TypeOK, CallsTyped, CallRecord, Live, LiveStates
  <2>3. CallsWellFormed' /\ WaitingBehindActive' /\ MediaBelongsToCall'
    <3>1. WellFormed(context')
      BY <2>1, <2>2, LiveIsWellFormed DEF Consistent, CallsWellFormed, WellFormed
    <3> QED BY <2>1, <2>2, <3>1 DEF CallsWellFormed, WellFormed, WaitingBehindActive,
           MediaBelongsToCall, LiveStates
  <2>4. AlertIsForRingingCall' /\ TimerIsOfCurrentPhase'
    <3>1. alert' = NoSid
      BY <1>2, <2>1 DEF Consistent, AlertIsForRingingCall, Silenced
    <3> QED BY <2>1, <2>2, <3>1 DEF AlertIsForRingingCall, TimerIsOfCurrentPhase, LiveStates
  <2> QED BY <2>3, <2>4 DEF Consistent
<1> QED BY <1>1, <1>2

\* _clear_waiting keeps the consistency: the alert and the timeout go with the caller.
LEMMA ClearWaitingConsistent ==
    ASSUME Consistent, waiting # NoCall, ClearWaiting
    PROVE  Consistent'
<1>1. alert' = NoSid /\ context.state \in {"negotiating", "connected"}
  BY DEF Consistent, WaitingBehindActive, AlertIsForRingingCall, ClearWaiting, Silenced
<1>2. CallsWellFormed' /\ WaitingBehindActive'
  BY DEF Consistent, CallsWellFormed, WellFormed, WaitingBehindActive, ClearWaiting, NoWaiting
<1>3. AlertIsForRingingCall'
  BY <1>1 DEF AlertIsForRingingCall, ClearWaiting, NoWaiting
<1>4. TimerIsOfCurrentPhase' /\ MediaBelongsToCall'
  BY DEF Consistent, TimerIsOfCurrentPhase, MediaBelongsToCall, ClearWaiting
<1> QED BY <1>2, <1>3, <1>4 DEF Consistent

\* hangup keeps the consistency, also when there is nothing to hang up.
LEMMA HangupConsistent ==
    ASSUME TypeOK, Consistent, Hangup
    PROVE  Consistent'
<1>1. CASE Live(context)
  BY <1>1, FinishLocalConsistent DEF Hangup
<1>2. CASE ~Live(context)
  <2>1. waiting = NoCall /\ context.state # "ringing"
    BY <1>2 DEF Consistent, WaitingBehindActive, Live, LiveStates
  <2>2. alert' = alert
    BY <1>2, <2>1 DEF Hangup, Silenced, Consistent, AlertIsForRingingCall
  <2> QED BY <1>2, <2>2, UnchangedConsistent DEF Hangup, mediaVars
<1> QED BY <1>1, <1>2

\* What the user does keeps the consistency.
LEMMA UserConsistent ==
    ASSUME TypeOK, Consistent, UserStep
    PROVE  Consistent'
<1>1. ASSUME NEW sid \in OwnSids, StartOutgoing(sid) PROVE Consistent'
  <2>1. CASE Live(context)
    BY <1>1, <2>1, UnchangedConsistent DEF StartOutgoing, callVars, timerVars, mediaVars
  <2>2. CASE ~Live(context)
    <3>1. /\ waiting = NoCall /\ alert = NoSid /\ media = NoEngine
          /\ waitTimer = NoSid /\ ~waitingOffer
      BY <2>2 DEF Consistent, WaitingBehindActive, AlertIsForRingingCall, MediaBelongsToCall,
         Live, LiveStates
    <3>2. /\ context' = OutgoingCall(sid) /\ phaseTimer' = Timer(sid, "ringing")
          /\ UNCHANGED <<waiting, waitingOffer, waitTimer, alert, media>>
      BY <1>1, <2>2 DEF StartOutgoing, mediaVars
    <3>3. /\ WellFormed(context') /\ context'.state = "proposing" /\ context'.sid = sid
          /\ ~context'.incoming
      BY <3>2, NewCallTypes DEF OutgoingCall
    <3>4. CallsWellFormed' /\ WaitingBehindActive' /\ AlertIsForRingingCall' /\ MediaBelongsToCall'
      BY <3>1, <3>2, <3>3 DEF CallsWellFormed, WellFormed, WaitingBehindActive,
         AlertIsForRingingCall, MediaBelongsToCall
    <3>5. TimerIsOfCurrentPhase'
      BY <3>2, <3>3 DEF TimerIsOfCurrentPhase, Timer, PhaseStates
    <3> QED BY <3>4, <3>5 DEF Consistent
  <2> QED BY <2>1, <2>2
<1>2. ASSUME ToolbarHangup PROVE Consistent'
  BY <1>2, HangupConsistent DEF ToolbarHangup
<1>3. ASSUME ClickAccept \/ ClickDecline \/ ClickHangup \/ CloseWindow PROVE Consistent'
  BY <1>3, UnchangedConsistent DEF ClickAccept, ClickDecline, ClickHangup, CloseWindow, Click,
     mediaVars
<1>4. ASSUME Deactivate PROVE Consistent'
  <2>1. /\ context' = NoCall /\ waiting' = NoCall /\ waitingOffer' = FALSE
        /\ waitTimer' = NoSid /\ phaseTimer' = NoTimer /\ alert' = NoSid /\ media' = NoEngine
    BY <1>4 DEF Deactivate, NoWaiting, CloseMedia
  <2> QED BY <2>1 DEF Consistent, CallsWellFormed, WellFormed, WaitingBehindActive,
         AlertIsForRingingCall, TimerIsOfCurrentPhase, MediaBelongsToCall, NoCall
<1> QED BY <1>1, <1>2, <1>3, <1>4 DEF UserStep


\* The reports of descriptions and candidates touch nothing it is about.
LEMMA ReportConsistent ==
    ASSUME TypeOK, Consistent, LocalDescriptionReady \/ LocalCandidateReady \/ MediaStep
    PROVE  Consistent'
<1>1. UNCHANGED <<callVars, timerVars, alert, media, engines>>
  BY DEF LocalDescriptionReady, LocalCandidateReady, MediaStep, EngineReports, uiVars, mediaVars
<1> QED BY <1>1, UnchangedConsistent

\* accept keeps the consistency, for a waiting call, a ringing call and a caller gone.
LEMMA AcceptConsistent ==
    ASSUME TypeOK, Consistent, AcceptWaiting \/ AcceptRinging \/ AcceptNothing
    PROVE  Consistent'
<1>1. CASE AcceptWaiting
  <2>1. /\ waiting # NoCall /\ waiting \in CallRecord /\ WellFormed(waiting)
        /\ waiting.sid # context.sid
        /\ alert = waiting.sid
    BY <1>1 DEF AcceptWaiting, TypeOK, CallsTyped, Consistent, CallsWellFormed,
       WaitingBehindActive, AlertIsForRingingCall
  <2>2. /\ context' = [waiting EXCEPT !.state = "negotiating"]
        /\ waiting' = NoCall /\ waitingOffer' = FALSE /\ waitTimer' = NoSid
        /\ phaseTimer' = Timer(waiting.sid, "negotiating") /\ alert' = NoSid
    BY <1>1, <2>1 DEF AcceptWaiting, NoWaiting
  <2>3. /\ context'.sid = waiting.sid /\ context'.peer = waiting.peer
        /\ context'.state = "negotiating"
    BY <2>1, <2>2 DEF CallRecord
  <2>4. CallsWellFormed' /\ WaitingBehindActive'
    BY <2>1, <2>2, <2>3 DEF CallsWellFormed, WellFormed, WaitingBehindActive
  <2>5. AlertIsForRingingCall' /\ TimerIsOfCurrentPhase'
    BY <2>2, <2>3 DEF AlertIsForRingingCall, TimerIsOfCurrentPhase, Timer, PhaseStates
  <2>6. MediaBelongsToCall'
    <3>1. CASE waitingOffer
      <4>1. waiting.sid \in Sids /\ waiting.full \in Devices
        BY <2>1 DEF WellFormed, Consistent, WaitingBehindActive
      <4>2. media' = <<waiting.sid, waiting.full>> /\ media' \in Engines
        BY <1>1, <3>1, <4>1 DEF AcceptWaiting, Engines
      <4>3. engines'[media'] = "open"
        BY <1>1, <3>1, <4>2 DEF AcceptWaiting
      <4> QED BY <2>3, <4>2, <4>3 DEF MediaBelongsToCall
    <3>2. CASE ~waitingOffer
      BY <1>1, <3>2 DEF AcceptWaiting, CloseMedia, MediaBelongsToCall
    <3> QED BY <3>1, <3>2
  <2> QED BY <2>4, <2>5, <2>6 DEF Consistent
<1>2. CASE AcceptRinging
  <2>1. /\ context \in CallRecord /\ context.state = "ringing" /\ WellFormed(context)
        /\ context.sid \in Sids /\ context.peer \in Peers /\ context.full \in Devices
        /\ waiting = NoCall /\ alert = context.sid /\ media = NoEngine
    BY <1>2 DEF AcceptRinging, TypeOK, CallsTyped, Consistent, CallsWellFormed, WellFormed,
       NoCall, AlertIsForRingingCall, MediaBelongsToCall
  <2>2. /\ context' = [context EXCEPT !.state = "negotiating"]
        /\ phaseTimer' = Timer(context.sid, "negotiating") /\ alert' = NoSid
        /\ UNCHANGED <<waiting, waitingOffer, waitTimer>>
    BY <1>2, <2>1 DEF AcceptRinging, Silenced
  <2>3. /\ context'.sid = context.sid /\ context'.peer = context.peer
        /\ context'.state = "negotiating"
    BY <2>1, <2>2 DEF CallRecord
  <2>4. CallsWellFormed' /\ WaitingBehindActive'
    BY <2>1, <2>2, <2>3 DEF Consistent, CallsWellFormed, WellFormed, WaitingBehindActive
  <2>5. AlertIsForRingingCall' /\ TimerIsOfCurrentPhase'
    BY <2>1, <2>2, <2>3 DEF AlertIsForRingingCall, TimerIsOfCurrentPhase, Timer, PhaseStates
  <2>6. MediaBelongsToCall'
    <3>1. CASE pendingOffer
      <4>1. media' = <<context.sid, context.full>> /\ media' \in Engines
        BY <1>2, <2>1, <3>1 DEF AcceptRinging, StartMedia, Engines
      <4>2. engines'[media'] = "open"
        BY <1>2, <3>1, <4>1 DEF AcceptRinging, StartMedia, TypeOK, MediaTyped
      <4> QED BY <2>3, <4>1, <4>2 DEF MediaBelongsToCall
    <3>2. CASE ~pendingOffer
      BY <1>2, <2>1, <3>2 DEF AcceptRinging, mediaVars, MediaBelongsToCall
    <3> QED BY <3>1, <3>2
  <2> QED BY <2>4, <2>5, <2>6 DEF Consistent
<1>3. CASE AcceptNothing
  <2>1. alert' = alert
    BY <1>3 DEF AcceptNothing, Silenced, Consistent, AlertIsForRingingCall
  <2>2. TimerIsOfCurrentPhase'
    BY <1>3 DEF AcceptNothing, callVars, Consistent, TimerIsOfCurrentPhase, Timer, PhaseStates
  <2> QED BY <1>3, <2>1, <2>2 DEF AcceptNothing, callVars, mediaVars, Consistent, CallsWellFormed,
         WaitingBehindActive, AlertIsForRingingCall, MediaBelongsToCall
<1> QED BY <1>1, <1>2, <1>3

\* Everything that ends a call from this side keeps the consistency.
LEMMA EndingConsistent ==
    ASSUME TypeOK, Consistent,
           Decline \/ HangupClicked \/ WindowClosed \/ MediaFailed \/ TimerStep
    PROVE  Consistent'
<1>1. CASE Decline
  <2>1. CASE waiting # NoCall
    BY <1>1, <2>1, ClearWaitingConsistent DEF Decline, DeclineWaiting
  <2>2. CASE waiting = NoCall /\ context = NoCall
    BY <1>1, <2>2, UnchangedConsistent DEF Decline, uiVars, mediaVars
  <2>3. CASE waiting = NoCall /\ context # NoCall
    BY <1>1, <2>3, FinishLocalConsistent DEF Decline
  <2> QED BY <2>1, <2>2, <2>3
<1>2. CASE HangupClicked
  BY <1>2, HangupConsistent DEF HangupClicked
<1>3. CASE WindowClosed
  BY <1>3, HangupConsistent, ClearWaitingConsistent DEF WindowClosed, DeclineWaiting
<1>4. CASE MediaFailed
  BY <1>4, FinishLocalConsistent, UnchangedConsistent DEF MediaFailed, uiVars, mediaVars
<1>5. CASE PhaseTimeout
  BY <1>5, FinishLocalConsistent DEF PhaseTimeout, Consistent, TimerIsOfCurrentPhase
<1>6. CASE WaitingTimeout
  <2>1. waiting # NoCall /\ waiting.sid = waitTimer
    BY <1>6 DEF WaitingTimeout, Consistent, WaitingBehindActive
  <2> QED BY <1>6, <2>1, ClearWaitingConsistent DEF WaitingTimeout, DeclineWaiting
<1> QED BY <1>1, <1>2, <1>3, <1>4, <1>5, <1>6 DEF TimerStep

\* The report that media is connected keeps it too, even when it comes from the
\* engine of an earlier call.
LEMMA MediaConnectedConsistent ==
    ASSUME TypeOK, Consistent, MediaConnected
    PROVE  Consistent'
<1>1. CASE Live(context)
  <2>1. /\ context' = IF context.state = "negotiating"
                       THEN [context EXCEPT !.state = "connected"] ELSE context
        /\ phaseTimer' = NoTimer
        /\ UNCHANGED <<waiting, waitingOffer, waitTimer, alert, media, engines>>
    BY <1>1 DEF MediaConnected, mediaVars
  <2>2. /\ context'.sid = context.sid /\ context'.peer = context.peer
        /\ context'.full = context.full
        /\ \/ context'.state = context.state
           \/ context.state = "negotiating" /\ context'.state = "connected"
    BY <2>1 DEF TypeOK, CallsTyped, CallRecord
  <2>3. WellFormed(context')
    BY <1>1, <2>2, LiveIsWellFormed DEF Consistent, CallsWellFormed, WellFormed, Live, LiveStates
  <2> QED BY <2>1, <2>2, <2>3 DEF Consistent, CallsWellFormed, WellFormed, WaitingBehindActive,
         AlertIsForRingingCall, TimerIsOfCurrentPhase, MediaBelongsToCall
<1>2. CASE ~Live(context)
  BY <1>2, UnchangedConsistent DEF MediaConnected, callVars, timerVars, mediaVars
<1> QED BY <1>1, <1>2

\* Every queued callback keeps the consistency.
LEMMA IdleConsistent ==
    ASSUME TypeOK, Consistent, IdleStep
    PROVE  Consistent'
  BY ReportConsistent, AcceptConsistent, EndingConsistent, MediaConnectedConsistent DEF IdleStep


\* A caller that is made to wait keeps the consistency: the call in front is connected.
LEMMA ShowWaitingConsistent ==
    ASSUME TypeOK, Consistent, NEW sid \in Sids, NEW from \in Devices, NEW jmi \in BOOLEAN,
           context.state = "connected", sid # context.sid, ShowWaiting(sid, from, jmi)
    PROVE  Consistent'
<1>1. /\ waiting' = IncomingCall(sid, from, "ringing", jmi) /\ WellFormed(waiting')
      /\ waiting'.sid = sid /\ waiting'.state = "ringing" /\ waiting'.incoming
      /\ waiting'.full = from /\ waiting'.jmi = jmi
  BY NewCallTypes DEF ShowWaiting, IncomingCall
<1>2. /\ waitingOffer' = ~jmi /\ waitTimer' = sid /\ alert' = sid
      /\ UNCHANGED <<context, phaseTimer, media, engines>>
  BY DEF ShowWaiting, mediaVars
<1>3. waiting' # NoCall
  BY <1>1, Constants DEF NoCall
<1>4. CallsWellFormed' /\ WaitingBehindActive'
  BY <1>1, <1>2, <1>3 DEF Consistent, CallsWellFormed, WellFormed, WaitingBehindActive
<1>5. AlertIsForRingingCall' /\ TimerIsOfCurrentPhase' /\ MediaBelongsToCall'
  BY <1>1, <1>2, <1>3 DEF Consistent, AlertIsForRingingCall, TimerIsOfCurrentPhase,
     MediaBelongsToCall
<1> QED BY <1>4, <1>5 DEF Consistent

\* A new ringing call keeps the consistency, when nothing is left of an earlier one.
LEMMA RingConsistent ==
    ASSUME TypeOK, Consistent, NEW sid \in Sids, NEW from \in Devices, NEW jmi \in BOOLEAN,
           Ring(sid, from, jmi), media' = NoEngine,
           waiting' = NoCall, waitTimer' = NoSid, ~waitingOffer'
    PROVE  Consistent'
<1>1. /\ WellFormed(context') /\ context'.sid = sid /\ context'.full = from
      /\ context'.state = "ringing" /\ context'.incoming
      /\ alert' = sid /\ phaseTimer' = Timer(sid, "ringing")
  BY NewCallTypes DEF Ring, IncomingCall
<1>2. CallsWellFormed' /\ WaitingBehindActive' /\ AlertIsForRingingCall' /\ MediaBelongsToCall'
  BY <1>1 DEF CallsWellFormed, WellFormed, WaitingBehindActive, AlertIsForRingingCall,
     MediaBelongsToCall
<1>3. TimerIsOfCurrentPhase'
  BY <1>1 DEF TimerIsOfCurrentPhase, Timer, PhaseStates
<1> QED BY <1>2, <1>3 DEF Consistent

\* With no live call nothing rings, nobody waits and no engine is held.
LEMMA NoLiveCall ==
    ASSUME Consistent, ~Live(context)
    PROVE  /\ media = NoEngine /\ waiting = NoCall
           /\ waitTimer = NoSid /\ ~waitingOffer
  BY DEF Consistent, WaitingBehindActive, MediaBelongsToCall, Live, LiveStates

\* A proposal is for a session id that no call has.
LEMMA ProposalIsNew ==
    ASSUME CallsWereOpened, NEW from \in Devices, NEW sid \in Sids, Proposal(from, sid)
    PROVE  /\ context # NoCall => context.sid # sid
           /\ waiting # NoCall => waiting.sid # sid
<1>1. ~Proposed(sid) /\ sid \notin Direct
  BY DEF Proposal, MaySendJmi
<1> QED BY <1>1 DEF CallsWereOpened

\* Every branch that handles a proposal keeps the consistency.
LEMMA ProposalConsistent ==
    ASSUME TypeOK, Consistent, CallsWereOpened, NEW from \in Devices, NEW sid \in Sids,
           \/ MigrateCall(from, sid) \/ RejectExtraProposal(from, sid)
           \/ ProposalWaits(from, sid) \/ WinTieBreak(from, sid)
           \/ LoseTieBreak(from, sid) \/ RingForProposal(from, sid)
    PROVE  Consistent'
<1>1. CASE MigrateCall(from, sid)
  <2>1. /\ context' = IncomingCall(sid, from, "negotiating", TRUE)
        /\ phaseTimer' = Timer(sid, "negotiating")
        /\ alert' = Silenced(context.sid) /\ media' = NoEngine
        /\ UNCHANGED <<waiting, waitingOffer, waitTimer>>
    BY <1>1 DEF MigrateCall, CloseMedia
  <2>2. WellFormed(context') /\ context'.sid = sid /\ context'.state = "negotiating"
    BY <2>1, NewCallTypes DEF IncomingCall
  <2>3. waiting # NoCall => waiting.sid # sid
    BY <1>1, ProposalIsNew DEF MigrateCall
  <2>4. CallsWellFormed' /\ WaitingBehindActive'
    BY <2>1, <2>2, <2>3 DEF Consistent, CallsWellFormed, WellFormed, WaitingBehindActive
  <2>5. AlertIsForRingingCall'
    BY <1>1, <2>1, <2>2 DEF MigrateCall, Migrates, Silenced, Consistent, WaitingBehindActive,
       AlertIsForRingingCall
  <2>6. TimerIsOfCurrentPhase' /\ MediaBelongsToCall'
    BY <2>1, <2>2 DEF TimerIsOfCurrentPhase, Timer, PhaseStates, MediaBelongsToCall
  <2> QED BY <2>4, <2>5, <2>6 DEF Consistent
<1>2. CASE RejectExtraProposal(from, sid) \/ WinTieBreak(from, sid)
  BY <1>2, UnchangedConsistent DEF RejectExtraProposal, WinTieBreak, uiVars, mediaVars
<1>3. CASE ProposalWaits(from, sid)
  <2>1. context.state = "connected" /\ sid # context.sid
    BY <1>3, ProposalIsNew DEF ProposalWaits, NoCall
  <2> QED BY <1>3, <2>1, ShowWaitingConsistent DEF ProposalWaits
<1>4. CASE LoseTieBreak(from, sid)
  BY <1>4, RingConsistent DEF LoseTieBreak, NoWaiting, CloseMedia
<1>5. CASE RingForProposal(from, sid)
  BY <1>5, RingConsistent, NoLiveCall DEF RingForProposal, mediaVars
<1> QED BY <1>1, <1>2, <1>3, <1>4, <1>5

\* A new engine is the one of the call it was started for.
LEMMA StartMediaConsistent ==
    ASSUME TypeOK, NEW sid \in Sids, NEW device \in Devices, NEW answerer,
           StartMedia(sid, device, answerer),
           context'.sid = sid, context'.state \in {"negotiating", "connected"}
    PROVE  MediaBelongsToCall'
<1>1. media' = <<sid, device>> /\ media' \in Engines
  BY DEF StartMedia, Engines
<1>2. engines'[media'] = "open"
  BY <1>1 DEF StartMedia, TypeOK, MediaTyped
<1> QED BY <1>1, <1>2 DEF MediaBelongsToCall

\* Every JMI message keeps the consistency.
LEMMA JmiConsistent ==
    ASSUME TypeOK, Consistent, CallsWereOpened, NEW from \in Devices, NEW sid \in Sids,
           JmiStep(from, sid)
    PROVE  Consistent'
<1>1. ASSUME NEW action \in JmiActions, WaitingCallerGone(from, action, sid) PROVE Consistent'
  BY <1>1, ClearWaitingConsistent DEF WaitingCallerGone, ForWaiting
<1>2. ASSUME NEW action \in JmiActions, PeerEndsByJmi(from, action, sid) PROVE Consistent'
  BY <1>2, FinishLocalConsistent DEF PeerEndsByJmi
<1>3. CASE PeerRings(from, sid)
  BY <1>3, UnchangedConsistent DEF PeerRings, mediaVars
<1>4. CASE PeerProceeds(from, sid)
  <2>1. /\ context \in CallRecord /\ context.sid = sid /\ WellFormed(context) /\ context # NoCall
        /\ context.state \in {"proposing", "ringing", "negotiating"}
    BY <1>4 DEF PeerProceeds, ForActiveCall, ForContext, CanTransition, Allowed, TypeOK,
       CallsTyped, CallRecord, CallStates, Consistent, CallsWellFormed
  <2>2. /\ context' = [context EXCEPT !.full = from, !.state = "negotiating"]
        /\ phaseTimer' = Timer(sid, "negotiating") /\ StartMedia(sid, from, FALSE)
        /\ UNCHANGED <<waiting, waitingOffer, waitTimer, alert>>
    BY <1>4 DEF PeerProceeds
  <2>3. /\ context'.sid = sid /\ context'.peer = context.peer /\ context'.state = "negotiating"
    BY <2>1, <2>2 DEF CallRecord
  <2>4. context.state # "ringing"
    BY <1>4 DEF PeerProceeds, Consistent, CallsWellFormed
  <2>5. CallsWellFormed' /\ WaitingBehindActive'
    BY <2>1, <2>2, <2>3, <2>4 DEF Consistent, CallsWellFormed, WellFormed, WaitingBehindActive
  <2>6. AlertIsForRingingCall' /\ TimerIsOfCurrentPhase'
    BY <2>1, <2>2, <2>3, <2>4 DEF Consistent, AlertIsForRingingCall, TimerIsOfCurrentPhase,
       Timer, PhaseStates
  <2> QED BY <2>2, <2>3, <2>5, <2>6, StartMediaConsistent DEF Consistent
<1>5. CASE LateProceed(from, sid)
  <2>1. /\ context' = [context EXCEPT !.full = from] /\ context # NoCall
        /\ UNCHANGED <<waiting, waitingOffer, timerVars, alert, media, engines>>
    BY <1>5 DEF LateProceed, ForActiveCall, ForContext, mediaVars, uiVars
  <2>2. /\ context'.sid = context.sid /\ context'.peer = context.peer
        /\ context'.state = context.state /\ context'.full = from
        /\ context'.incoming = context.incoming
    BY <2>1 DEF TypeOK, CallsTyped, CallRecord
  <2> QED BY <2>1, <2>2 DEF Consistent, CallsWellFormed, WellFormed, WaitingBehindActive,
         AlertIsForRingingCall, TimerIsOfCurrentPhase, MediaBelongsToCall, timerVars
<1> QED BY <1>1, <1>2, <1>3, <1>4, <1>5, ProposalConsistent DEF JmiStep

\* Every Jingle IQ keeps the consistency.
LEMMA JingleConsistent ==
    ASSUME TypeOK, Consistent, NEW from \in Devices, NEW sid \in Sids, JingleStep(from, sid)
    PROVE  Consistent'
<1>1. CASE WaitingCallerInitiates(from, sid)
  <2>1. /\ waiting # NoCall /\ waiting' = [waiting EXCEPT !.full = from] /\ waitingOffer' = TRUE
        /\ UNCHANGED <<context, timerVars, alert, media, engines>>
    BY <1>1 DEF WaitingCallerInitiates, ForWaiting, mediaVars, uiVars
  <2>2. /\ waiting'.sid = waiting.sid /\ waiting'.peer = waiting.peer
        /\ waiting'.state = waiting.state /\ waiting'.incoming = waiting.incoming
        /\ waiting'.full = from
    BY <2>1 DEF TypeOK, CallsTyped, CallRecord
  <2>3. waiting.sid # NoSid /\ waiting.sid \in Sids /\ waiting.peer \in Peers
    BY <2>1, Constants DEF Consistent, CallsWellFormed, WellFormed
  <2>4. waiting' # NoCall
    BY <2>2, <2>3 DEF NoCall
  <2>5. CallsWellFormed' /\ WaitingBehindActive'
    BY <2>1, <2>2, <2>3, <2>4 DEF Consistent, CallsWellFormed, WellFormed, WaitingBehindActive,
       timerVars
  <2> QED BY <2>1, <2>2, <2>4, <2>5 DEF Consistent, AlertIsForRingingCall,
         TimerIsOfCurrentPhase, MediaBelongsToCall, timerVars
<1>2. CASE WaitingCallerTrickles(from, sid)
  BY <1>2, UnchangedConsistent DEF WaitingCallerTrickles, uiVars
<1>3. CASE WaitingCallerTerminates(from, sid)
  BY <1>3, ClearWaitingConsistent DEF WaitingCallerTerminates, ForWaiting
<1>4. CASE RejectExtraSession(from, sid) \/ SessionAfterEnd(from, sid)
  BY <1>4, UnchangedConsistent DEF RejectExtraSession, SessionAfterEnd, uiVars, mediaVars
<1>5. CASE SessionWaits(from, sid)
  <2>1. context.state = "connected" /\ sid # context.sid
    BY <1>5 DEF SessionWaits, Owns, Live, LiveStates
  <2> QED BY <1>5, <2>1, ShowWaitingConsistent DEF SessionWaits
<1>6. CASE RingForSession(from, sid)
  BY <1>6, RingConsistent, NoLiveCall DEF RingForSession, mediaVars
<1>7. CASE SessionInitiated(from, sid)
  <2>1. /\ context.sid = sid /\ Live(context) /\ WellFormed(context) /\ context # NoCall
    BY <1>7, LiveIsWellFormed DEF SessionInitiated, ForActiveSession, Owns, Consistent,
       CallsWellFormed, Live, LiveStates, NoCall
  <2>2. /\ context' = [context EXCEPT !.full = from]
        /\ phaseTimer' = IF context.state \in TimeoutPhases
                           THEN Timer(sid, context.state) ELSE phaseTimer
        /\ alert' = IF context.state = "ringing" THEN sid ELSE alert
        /\ UNCHANGED <<waiting, waitingOffer, waitTimer>>
    BY <1>7 DEF SessionInitiated
  <2>3. /\ context'.sid = sid /\ context'.peer = context.peer
        /\ context'.state = context.state /\ context'.full = from
        /\ context'.incoming = context.incoming
    BY <2>1, <2>2 DEF TypeOK, CallsTyped, CallRecord
  <2>4. CallsWellFormed' /\ WaitingBehindActive'
    BY <2>1, <2>2, <2>3 DEF Consistent, CallsWellFormed, WellFormed, WaitingBehindActive
  <2>5. AlertIsForRingingCall' /\ TimerIsOfCurrentPhase'
    BY <2>1, <2>2, <2>3 DEF Consistent, WaitingBehindActive, AlertIsForRingingCall,
       TimerIsOfCurrentPhase, Timer, PhaseStates, TimeoutPhases
  <2>6. MediaBelongsToCall'
    <3>1. CASE context.state = "negotiating"
      BY <1>7, <2>3, <3>1, StartMediaConsistent DEF SessionInitiated
    <3>2. CASE context.state # "negotiating"
      BY <1>7, <2>1, <2>3, <3>2 DEF SessionInitiated, mediaVars, Consistent, MediaBelongsToCall
    <3> QED BY <3>1, <3>2
  <2> QED BY <2>4, <2>5, <2>6 DEF Consistent
<1>8. CASE SessionAccepted(from, sid) \/ PeerTrickles(from, sid)
  BY <1>8, UnchangedConsistent DEF SessionAccepted, PeerTrickles, uiVars
<1>9. CASE PeerTerminates(from, sid)
  BY <1>9, FinishLocalConsistent DEF PeerTerminates
<1> QED BY <1>1, <1>2, <1>3, <1>4, <1>5, <1>6, <1>7, <1>8, <1>9 DEF JingleStep

\* So does every step.
LEMMA NextConsistent ==
    ASSUME TypeOK, Consistent, CallsWereOpened, Next
    PROVE  Consistent'
  BY UserConsistent, IdleConsistent, EndingConsistent, JmiConsistent, JingleConsistent,
     ReportConsistent DEF Next, NetworkStep


-----------------------------------------------------------------------------
(* Every call was opened.                                                  *)

\* What has been opened stays opened.
LEMMA OpeningsGrow ==
    ASSUME Next
    PROVE  openings \subseteq openings'
<1>1. ASSUME UserStep PROVE openings \subseteq openings'
  BY <1>1 DEF UserStep, StartOutgoing, ToolbarHangup, ClickAccept, ClickDecline, ClickHangup,
     CloseWindow, Click, Deactivate, networkVars
<1>2. ASSUME IdleStep PROVE openings \subseteq openings'
  BY <1>2 DEF IdleStep, AcceptWaiting, AcceptRinging, AcceptNothing, Decline, HangupClicked,
     WindowClosed, LocalDescriptionReady, LocalCandidateReady, MediaConnected, MediaFailed
<1>3. ASSUME TimerStep \/ MediaStep PROVE openings \subseteq openings'
  BY <1>3 DEF TimerStep, PhaseTimeout, WaitingTimeout, MediaStep, EngineReports, networkVars
<1>4. ASSUME NEW from, NEW sid, JmiStep(from, sid) PROVE openings \subseteq openings'
  BY <1>4 DEF JmiStep, MigrateCall, RejectExtraProposal, ProposalWaits, WinTieBreak,
     LoseTieBreak, RingForProposal, WaitingCallerGone, PeerRings, PeerProceeds, LateProceed,
     PeerEndsByJmi, Opens, networkVars
<1>5. ASSUME NEW from, NEW sid, JingleStep(from, sid) PROVE openings \subseteq openings'
  BY <1>5 DEF JingleStep, WaitingCallerInitiates, WaitingCallerTrickles,
     WaitingCallerTerminates, RejectExtraSession, SessionWaits, SessionAfterEnd,
     RingForSession, SessionInitiated, SessionAccepted, PeerTrickles, PeerTerminates,
     ForActiveSession, Claimed
<1> QED BY <1>1, <1>2, <1>3, <1>4, <1>5 DEF Next, NetworkStep

Opened(sid, pairs) ==
    sid \in Direct \/ \E d \in Devices \cup {NoJid} : <<sid, d, "propose">> \in pairs

\* A call of the next state is one of this state, or has been opened.
Known(call, pairs) ==
    \/ call = NoCall \/ Opened(call.sid, pairs)
    \/ \E old \in {context, waiting} : old # NoCall /\ old.sid = call.sid

\* It is enough that every call of the next state is known.
LEMMA KnownIsOpened ==
    ASSUME CallsWereOpened, openings \subseteq openings',
           Known(context', openings'), Known(waiting', openings')
    PROVE  CallsWereOpened'
<1>1. \A old \in {context, waiting} : old = NoCall \/ Opened(old.sid, openings')
  BY DEF CallsWereOpened, Opened, Proposed
<1>2. \A call : Known(call, openings') => call = NoCall \/ Opened(call.sid, openings')
  BY <1>1 DEF Known
<1> QED BY <1>2 DEF CallsWereOpened, Opened, Proposed

\* A context that keeps its session id, or is dropped, or was waiting, is known.
LEMMA SameSidKnown ==
    /\ Known(context, openings') /\ Known(waiting, openings') /\ Known(NoCall, openings')
    /\ \A call : context # NoCall /\ call.sid = context.sid => Known(call, openings')
    /\ \A call : waiting # NoCall /\ call.sid = waiting.sid => Known(call, openings')
  BY DEF Known

\* _finish_local leaves known calls only.
LEMMA FinishLocalKnown ==
    ASSUME TypeOK, NEW state, NEW win, NEW bar, FinishLocal(state, win, bar)
    PROVE  Known(context', openings') /\ Known(waiting', openings')
<1>1. waiting' = NoCall
  BY DEF FinishLocal, NoWaiting
<1>2. CASE waiting # NoCall
  BY <1>1, <1>2, SameSidKnown DEF FinishLocal
<1>3. CASE waiting = NoCall /\ Live(context)
  <2>1. context'.sid = context.sid /\ context # NoCall
    BY <1>3 DEF FinishLocal, TypeOK, CallsTyped, CallRecord, Live, LiveStates, NoCall
  <2> QED BY <1>1, <2>1, SameSidKnown
<1>4. CASE waiting = NoCall /\ ~Live(context)
  BY <1>1, <1>4, SameSidKnown DEF FinishLocal
<1> QED BY <1>2, <1>3, <1>4

\* So does _clear_waiting.
LEMMA ClearWaitingKnown ==
    ASSUME ClearWaiting
    PROVE  Known(context', openings') /\ Known(waiting', openings')
  BY SameSidKnown DEF ClearWaiting, NoWaiting

\* So does hangup.
LEMMA HangupKnown ==
    ASSUME TypeOK, Hangup
    PROVE  Known(context', openings') /\ Known(waiting', openings')
  BY FinishLocalKnown, SameSidKnown DEF Hangup, callVars

\* So does the user.
LEMMA UserKnown ==
    ASSUME TypeOK, UserStep
    PROVE  Known(context', openings') /\ Known(waiting', openings')
<1>1. ASSUME NEW sid \in OwnSids, StartOutgoing(sid)
      PROVE  Known(context', openings') /\ Known(waiting', openings')
  <2>1. CASE Live(context)
    BY <1>1, <2>1, SameSidKnown DEF StartOutgoing
  <2>2. CASE ~Live(context)
    <3>1. /\ context' = OutgoingCall(sid) /\ waiting' = waiting
          /\ <<sid, NoJid, "propose">> \in openings'
      BY <1>1, <2>2 DEF StartOutgoing
    <3>2. context'.sid = sid
      BY <3>1 DEF OutgoingCall
    <3> QED BY <3>1, <3>2, SameSidKnown DEF Known, Opened
  <2> QED BY <2>1, <2>2
<1>2. ASSUME ToolbarHangup PROVE Known(context', openings') /\ Known(waiting', openings')
  BY <1>2, HangupKnown DEF ToolbarHangup
<1>3. ASSUME ClickAccept \/ ClickDecline \/ ClickHangup \/ CloseWindow
      PROVE  Known(context', openings') /\ Known(waiting', openings')
  BY <1>3, SameSidKnown DEF ClickAccept, ClickDecline, ClickHangup, CloseWindow, Click, callVars
<1>4. ASSUME Deactivate PROVE Known(context', openings') /\ Known(waiting', openings')
  BY <1>4, SameSidKnown DEF Deactivate, NoWaiting
<1> QED BY <1>1, <1>2, <1>3, <1>4 DEF UserStep

\* So does every queued callback.
LEMMA IdleKnown ==
    ASSUME TypeOK, IdleStep \/ TimerStep \/ MediaStep
    PROVE  Known(context', openings') /\ Known(waiting', openings')
<1>0. context \in CallRecord /\ waiting \in CallRecord
  BY DEF TypeOK, CallsTyped
<1>1. CASE AcceptWaiting
  <2>1. waiting # NoCall /\ context'.sid = waiting.sid /\ waiting' = NoCall
    BY <1>0, <1>1 DEF AcceptWaiting, NoWaiting, CallRecord
  <2> QED BY <2>1, SameSidKnown
<1>2. CASE AcceptRinging
  <2>1. context # NoCall /\ context'.sid = context.sid /\ waiting' = waiting
    BY <1>0, <1>2 DEF AcceptRinging, CallRecord, NoCall
  <2> QED BY <2>1, SameSidKnown
<1>3. CASE AcceptNothing \/ LocalDescriptionReady \/ LocalCandidateReady \/ MediaStep
  BY <1>3, SameSidKnown DEF AcceptNothing, LocalDescriptionReady, LocalCandidateReady,
     MediaStep, EngineReports, callVars
<1>4. CASE Decline
  BY <1>4, ClearWaitingKnown, FinishLocalKnown, SameSidKnown DEF Decline, DeclineWaiting, callVars
<1>5. CASE HangupClicked \/ WindowClosed
  BY <1>5, HangupKnown, ClearWaitingKnown DEF HangupClicked, WindowClosed, DeclineWaiting
<1>6. CASE MediaConnected
  <2>1. CASE Live(context)
    <3>1. context # NoCall /\ context'.sid = context.sid /\ waiting' = waiting
      BY <1>0, <1>6, <2>1 DEF MediaConnected, CallRecord, NoCall, Live, LiveStates
    <3> QED BY <3>1, SameSidKnown
  <2>2. CASE ~Live(context)
    BY <1>6, <2>2, SameSidKnown DEF MediaConnected
  <2> QED BY <2>1, <2>2
<1>7. CASE MediaFailed \/ PhaseTimeout
  BY <1>7, FinishLocalKnown, SameSidKnown DEF MediaFailed, PhaseTimeout, callVars
<1>8. CASE WaitingTimeout
  BY <1>8, ClearWaitingKnown, SameSidKnown DEF WaitingTimeout, DeclineWaiting, callVars
<1> QED BY <1>1, <1>2, <1>3, <1>4, <1>5, <1>6, <1>7, <1>8 DEF IdleStep, TimerStep

\* A proposal is recorded as an opening before it makes a call.
LEMMA ProposalKnown ==
    ASSUME NEW from \in Devices, NEW sid \in Sids,
           \/ MigrateCall(from, sid) \/ RejectExtraProposal(from, sid)
           \/ ProposalWaits(from, sid) \/ WinTieBreak(from, sid)
           \/ LoseTieBreak(from, sid) \/ RingForProposal(from, sid)
    PROVE  Known(context', openings') /\ Known(waiting', openings')
<1>1. <<sid, from, "propose">> \in openings'
  BY DEF MigrateCall, RejectExtraProposal, ProposalWaits, WinTieBreak, LoseTieBreak,
         RingForProposal, Opens
<1>2. \A call : call.sid = sid => Known(call, openings')
  BY <1>1 DEF Known, Opened
<1>3. \A state, jmi : Known(IncomingCall(sid, from, state, jmi), openings')
  BY <1>2 DEF IncomingCall
<1> QED BY <1>3, SameSidKnown DEF MigrateCall, RejectExtraProposal, ProposalWaits, WinTieBreak,
       LoseTieBreak, RingForProposal, Ring, ShowWaiting, NoWaiting, callVars

\* Every JMI message leaves known calls only.
LEMMA JmiKnown ==
    ASSUME TypeOK, NEW from \in Devices, NEW sid \in Sids, JmiStep(from, sid)
    PROVE  Known(context', openings') /\ Known(waiting', openings')
<1>1. ASSUME NEW action \in JmiActions,
             WaitingCallerGone(from, action, sid) \/ PeerEndsByJmi(from, action, sid)
      PROVE  Known(context', openings') /\ Known(waiting', openings')
  BY <1>1, ClearWaitingKnown, FinishLocalKnown DEF WaitingCallerGone, PeerEndsByJmi
<1>2. CASE PeerRings(from, sid)
  BY <1>2, SameSidKnown DEF PeerRings, callVars
<1>3. CASE PeerProceeds(from, sid) \/ LateProceed(from, sid)
  <2>1. context # NoCall /\ context'.sid = context.sid /\ waiting' = waiting
    BY <1>3 DEF PeerProceeds, LateProceed, ForActiveCall, ForContext, TypeOK, CallsTyped,
       CallRecord
  <2> QED BY <2>1, SameSidKnown
<1> QED BY <1>1, <1>2, <1>3, ProposalKnown DEF JmiStep

\* A Jingle IQ makes a call only for a session that was proposed or is a direct caller's.
LEMMA JingleKnown ==
    ASSUME TypeOK, CallsWereOpened, NEW from \in Devices, NEW sid \in Sids, JingleStep(from, sid)
    PROVE  Known(context', openings') /\ Known(waiting', openings')
<1>1. CASE SessionWaits(from, sid) \/ RingForSession(from, sid)
  <2>1. Opened(sid, openings')
    BY <1>1 DEF SessionWaits, RingForSession, Claimed, MaySendJingle, Proposed, Opened
  <2>2. \A call : call.sid = sid => Known(call, openings')
    BY <2>1 DEF Known
  <2>3. Known(IncomingCall(sid, from, "ringing", FALSE), openings')
    BY <2>2 DEF IncomingCall
  <2> QED BY <1>1, <2>3, SameSidKnown DEF SessionWaits, RingForSession, ShowWaiting, Ring
<1>2. CASE WaitingCallerInitiates(from, sid)
  <2>1. waiting # NoCall /\ waiting'.sid = waiting.sid /\ context' = context
    BY <1>2 DEF WaitingCallerInitiates, ForWaiting, TypeOK, CallsTyped, CallRecord
  <2> QED BY <2>1, SameSidKnown
<1>3. CASE SessionInitiated(from, sid)
  <2>1. context # NoCall /\ context'.sid = context.sid /\ waiting' = waiting
    BY <1>3 DEF SessionInitiated, ForActiveSession, Owns, Live, LiveStates, NoCall, TypeOK,
       CallsTyped, CallRecord
  <2> QED BY <2>1, SameSidKnown
<1>4. CASE WaitingCallerTerminates(from, sid) \/ PeerTerminates(from, sid)
  BY <1>4, ClearWaitingKnown, FinishLocalKnown DEF WaitingCallerTerminates, PeerTerminates
<1>5. CASE \/ WaitingCallerTrickles(from, sid) \/ RejectExtraSession(from, sid)
           \/ SessionAfterEnd(from, sid) \/ SessionAccepted(from, sid)
           \/ PeerTrickles(from, sid)
  BY <1>5, SameSidKnown DEF WaitingCallerTrickles, RejectExtraSession, SessionAfterEnd,
     SessionAccepted, PeerTrickles, callVars
<1> QED BY <1>1, <1>2, <1>3, <1>4, <1>5 DEF JingleStep

\* Every step leaves only calls that were opened.
LEMMA NextOpened ==
    ASSUME TypeOK, CallsWereOpened, Next
    PROVE  CallsWereOpened'
<1>1. Known(context', openings') /\ Known(waiting', openings')
  BY UserKnown, IdleKnown, JmiKnown, JingleKnown DEF Next, NetworkStep
<1> QED BY <1>1, OpeningsGrow, KnownIsOpened

-----------------------------------------------------------------------------
(* The invariant.                                                          *)

\* The invariant holds when the plugin starts.
LEMMA InitInvariant == Init => CallInvariant
<1> SUFFICES ASSUME Init PROVE CallInvariant
  OBVIOUS
<1>1. CallsTyped /\ TimersTyped
  BY Constants DEF Init, CallsTyped, TimersTyped, TimerStates, NoTimer
<1>2. MediaTyped /\ QueueTyped
  BY DEF Init, MediaTyped, QueueTyped
<1>3. UiTyped /\ NetworkTyped
  BY SequenceTypes DEF Init, UiTyped, WindowStates, NetworkTyped
<1>4. CallsWellFormed /\ CallsWereOpened /\ ReportsNameEngines
  BY DEF Init, CallsWellFormed, WellFormed, CallsWereOpened, ReportsNameEngines, NoCall
<1>5. /\ WaitingBehindActive /\ AlertIsForRingingCall /\ TimerIsOfCurrentPhase
      /\ MediaBelongsToCall
  BY DEF Init, WaitingBehindActive, AlertIsForRingingCall, TimerIsOfCurrentPhase,
         MediaBelongsToCall, NoCall
<1> QED BY <1>1, <1>2, <1>3, <1>4, <1>5 DEF CallInvariant, TypeOK

\* Every step preserves the invariant.
LEMMA NextInvariant == CallInvariant /\ [Next]_vars => CallInvariant'
<1> SUFFICES ASSUME CallInvariant, [Next]_vars PROVE CallInvariant'
  OBVIOUS
<1>1. CASE Next
  <2>1. TypeOK' /\ ReportsNameEngines'
    BY <1>1, UserTypes, IdleTypes, TimerTypes, MediaStepTypes, JmiTypes, JingleTypes
       DEF Next, NetworkStep, CallInvariant
  <2>2. Consistent' /\ CallsWereOpened'
    BY <1>1, NextConsistent, NextOpened DEF CallInvariant, Consistent
  <2> QED BY <2>1, <2>2 DEF CallInvariant, Consistent
<1>2. CASE UNCHANGED vars
  <2>1. UNCHANGED <<callVars, mediaVars, timerVars, uiVars, networkVars, idle, sent, reports>>
    BY <1>2 DEF vars
  <2>2. /\ CallsTyped' /\ MediaTyped' /\ TimersTyped' /\ UiTyped'
    BY <2>1, OnlySentTypes DEF CallInvariant
  <2>3. NetworkTyped' /\ QueueTyped' /\ ReportsNameEngines'
    BY <2>1 DEF networkVars, CallInvariant, TypeOK, NetworkTyped, QueueTyped, ReportsNameEngines
  <2>4. Consistent'
    BY <2>1, UnchangedConsistent DEF CallInvariant, Consistent, uiVars, mediaVars
  <2>5. CallsWereOpened'
    BY <2>1 DEF callVars, networkVars, CallInvariant, CallsWereOpened, Proposed
  <2> QED BY <2>2, <2>3, <2>4, <2>5 DEF CallInvariant, Consistent, TypeOK
<1> QED BY <1>1, <1>2

\* The invariant is inductive: whatever stanzas, clicks, timeouts and reports
\* arrive, in whatever order, the parts of the controller stay consistent.
THEOREM InvariantHolds == Spec => []CallInvariant
  BY InitInvariant, NextInvariant, PTL DEF Spec

\* Every variable of the controller keeps to its type.
THEOREM TypeCorrect == Spec => []TypeOK
<1>1. CallInvariant => TypeOK
  BY DEF CallInvariant
<1> QED BY <1>1, InvariantHolds, PTL

\* A second caller waits only behind a negotiating or connected call, under a
\* session id of its own, with the timeout armed that will reject it.
THEOREM WaitingCallerIsBehindCall == Spec => []WaitingBehindActive
<1>1. CallInvariant => WaitingBehindActive
  BY DEF CallInvariant
<1> QED BY <1>1, InvariantHolds, PTL

\* The alert sounds exactly for the call that the user can answer.
THEOREM AlertIsRight == Spec => []AlertIsForRingingCall
<1>1. CallInvariant => AlertIsForRingingCall
  BY DEF CallInvariant
<1> QED BY <1>1, InvariantHolds, PTL

\* No phase timeout of an earlier call or phase stays armed.
THEOREM TimerIsRight == Spec => []TimerIsOfCurrentPhase
<1>1. CallInvariant => TimerIsOfCurrentPhase
  BY DEF CallInvariant
<1> QED BY <1>1, InvariantHolds, PTL

\* The engine the controller holds is open and was started for its current call.
THEOREM MediaIsRight == Spec => []MediaBelongsToCall
<1>1. CallInvariant => MediaBelongsToCall
  BY DEF CallInvariant
<1> QED BY <1>1, InvariantHolds, PTL

-----------------------------------------------------------------------------
(* The refinement: every step moves the phases by one step of              *)
(* CallLifecycle, or does not move them.                                   *)

\* The phases as CallLifecycle has them.
Calls == [sid \in Sids |-> Phase(sid)]

\* A step of CallLifecycle while the plugin stays active, or none.
Refined == Lifecycle!CallStep \/ UNCHANGED Calls

-----------------------------------------------------------------------------
(* Phases.                                                                 *)

\* A live call is in the phase its state names, a waiting one in "waiting", and
\* every other session id in none.
LEMMA PhaseOfCalls ==
    ASSUME CallInvariant
    PROVE  /\ Live(context) => context.sid \in Sids /\ Phase(context.sid) = context.state
           /\ waiting # NoCall =>
                 /\ waiting.sid \in Sids /\ waiting.sid # context.sid
                 /\ Phase(waiting.sid) = "waiting"
                 /\ context.state \in {"negotiating", "connected"}
           /\ \A s \in Sids :
                 /\ ~(Live(context) /\ s = context.sid) =>
                       Phase(s) = IF waiting # NoCall /\ s = waiting.sid
                                    THEN "waiting" ELSE "none"
BY DEF CallInvariant, CallsWellFormed, WellFormed, WaitingBehindActive, Phase, ForContext,
       ForWaiting, Live, LiveStates, NoCall

\* Phases that change at one session id only change as EXCEPT says.
LEMMA OnePhase ==
    ASSUME NEW s \in Sids, NEW to,
           \A t \in Sids : Phase(t)' = IF t = s THEN to ELSE Phase(t)
    PROVE  Calls' = [Calls EXCEPT ![s] = to]
BY DEF Calls

\* Phases that stay at every session id stay.
LEMMA SamePhases ==
    ASSUME \A t \in Sids : Phase(t)' = Phase(t)
    PROVE  Refined
BY DEF Calls, Refined

-----------------------------------------------------------------------------
(* What the steps of the controller have in common.                        *)

\* The active call ends, and with it goes nothing, or the waiting call rings.
LEMMA EndRefines ==
    ASSUME CallInvariant, Live(context), waiting' = NoCall,
           IF waiting # NoCall THEN context' = waiting ELSE ~Live(context)'
    PROVE  Refined
<1> DEFINE s == context.sid
<1>1. s \in Sids /\ Phase(s) = context.state /\ Phase(s) \in Lifecycle!Active
  BY PhaseOfCalls DEF Live, LiveStates, Lifecycle!Active
<1>2. CASE waiting = NoCall
  <2>1. \A t \in Sids : Phase(t)' = IF t = s THEN "none" ELSE Phase(t)
    BY <1>2, PhaseOfCalls DEF Phase, ForWaiting
  <2>2. Calls' = [Calls EXCEPT ![s] = "none"]
    BY <1>1, <2>1, OnePhase
  <2>3. Lifecycle!In({"waiting"}) = {}
    BY <1>1, <1>2, PhaseOfCalls DEF Lifecycle!In, Live, LiveStates
  <2>4. Lifecycle!End(s)
    BY <1>1, <2>2, <2>3 DEF Lifecycle!End, Lifecycle!Move, Calls
  <2> QED BY <1>1, <2>4 DEF Refined, Lifecycle!CallStep
<1>3. CASE waiting # NoCall
  <2> DEFINE r == waiting.sid
  <2>1. r \in Sids /\ r # s /\ Phase(r) = "waiting"
    BY <1>3, PhaseOfCalls
  <2>2. context'.sid = r /\ context'.state = "ringing" /\ context' # NoCall
    BY <1>3 DEF CallInvariant, WaitingBehindActive
  <2>3. \A t \in Sids : Phase(t)' = IF t = s THEN "none" ELSE IF t = r THEN "ringing" ELSE Phase(t)
    BY <1>3, <2>1, <2>2, PhaseOfCalls DEF Phase, ForContext, ForWaiting, Live, LiveStates
  <2>4. Calls' = [Calls EXCEPT ![s] = "none", ![r] = "ringing"]
    BY <1>1, <2>1, <2>3 DEF Calls
  <2>5. Lifecycle!End(s)
    BY <1>1, <2>1, <2>4 DEF Lifecycle!End, Lifecycle!Move2, Calls
  <2> QED BY <1>1, <2>5 DEF Refined, Lifecycle!CallStep
<1> QED BY <1>2, <1>3

\* _finish_local ends the call there is; without one it changes no phase.
LEMMA FinishLocalRefines ==
    ASSUME CallInvariant, NEW state \in Terminal, NEW win, NEW bar,
           FinishLocal(state, win, bar)
    PROVE  Refined
<1>1. waiting' = NoCall /\ context \in CallRecord
  BY DEF FinishLocal, NoWaiting, CallInvariant, TypeOK, CallsTyped
<1>2. CASE Live(context)
  <2>1. waiting = NoCall => ~Live(context)'
    BY <1>1, <1>2 DEF FinishLocal, Live, LiveStates, Terminal, CallRecord
  <2> QED BY <1>1, <1>2, <2>1, EndRefines DEF FinishLocal
<1>3. CASE ~Live(context)
  <2>1. waiting = NoCall
    BY <1>3, PhaseOfCalls DEF Live, LiveStates
  <2>2. context' = context
    BY <1>3, <2>1 DEF FinishLocal
  <2> QED BY <1>1, <2>1, <2>2, SamePhases DEF Phase, ForContext, ForWaiting, Live
<1> QED BY <1>2, <1>3

\* _clear_waiting turns the waiting caller away.
LEMMA ClearWaitingRefines ==
    ASSUME CallInvariant, waiting # NoCall, ClearWaiting
    PROVE  Refined
<1> DEFINE s == waiting.sid
<1>1. s \in Sids /\ Phase(s) = "waiting" /\ s # context.sid
  BY PhaseOfCalls
<1>2. \A t \in Sids : Phase(t)' = IF t = s THEN "none" ELSE Phase(t)
  BY <1>1 DEF ClearWaiting, NoWaiting, Phase, ForContext, ForWaiting, Live
<1>3. Calls' = [Calls EXCEPT ![s] = "none"]
  BY <1>1, <1>2, OnePhase
<1>4. Lifecycle!TurnAway(s)
  BY <1>1, <1>3 DEF Lifecycle!TurnAway, Lifecycle!Move, Calls
<1> QED BY <1>1, <1>4 DEF Refined, Lifecycle!CallStep

\* What keeps session id and state of the calls changes no phase.
LEMMA SameCallsRefine ==
    ASSUME context'.sid = context.sid, context'.state = context.state,
           waiting'.sid = waiting.sid, context' = NoCall <=> context = NoCall,
           waiting' = NoCall <=> waiting = NoCall
    PROVE  Refined
BY SamePhases DEF Phase, ForContext, ForWaiting, Live

\* In particular what changes no call.
LEMMA CallsStayRefines ==
    ASSUME UNCHANGED <<context, waiting>>
    PROVE  Refined
BY SameCallsRefine

\* hangup ends the call, if there is one.
LEMMA HangupRefines ==
    ASSUME CallInvariant, Hangup
    PROVE  Refined
BY FinishLocalRefines, CallsStayRefines DEF Hangup, callVars, Terminal

\* The active call goes on to another state.
LEMMA ChangedPhase ==
    ASSUME CallInvariant, Live(context), NEW state \in LiveStates,
           context'.sid = context.sid, context'.state = state, waiting' = waiting
    PROVE  context.sid \in Sids /\ Calls' = [Calls EXCEPT ![context.sid] = state]
<1> DEFINE s == context.sid
<1>1. s \in Sids /\ context' # NoCall
  BY PhaseOfCalls, Constants DEF NoCall
<1>2. \A t \in Sids : Phase(t)' = IF t = s THEN state ELSE Phase(t)
  BY <1>1 DEF Phase, ForContext, ForWaiting, Live, LiveStates
<1> QED BY <1>1, <1>2, OnePhase

\* An accepted or answered call negotiates; once it does it may be answered again.
LEMMA AnswerRefines ==
    ASSUME CallInvariant, context.state \in {"proposing", "ringing", "negotiating"},
           context'.sid = context.sid, context'.state = "negotiating", waiting' = waiting
    PROVE  Refined
<1> DEFINE s == context.sid
<1>1. Live(context) /\ Phase(s) = context.state
  BY PhaseOfCalls DEF Live, LiveStates
<1>2. s \in Sids /\ Calls' = [Calls EXCEPT ![s] = "negotiating"]
  BY <1>1, ChangedPhase DEF LiveStates
<1>3. CASE context.state = "negotiating"
  BY <1>1, <1>2, <1>3 DEF Calls, Refined
<1>4. CASE context.state # "negotiating"
  <2>1. Lifecycle!Answer(s)
    BY <1>1, <1>2, <1>4 DEF Lifecycle!Answer, Lifecycle!Move, Calls
  <2> QED BY <1>2, <2>1 DEF Refined, Lifecycle!CallStep
<1> QED BY <1>3, <1>4

\* A call begins where there is none.
LEMMA BeginRefines ==
    ASSUME CallInvariant, attached, ~Live(context), NEW sid \in Sids,
           context'.sid = sid, context'.state \in {"proposing", "ringing"},
           waiting' \in {waiting, NoCall}
    PROVE  Refined
<1>1. waiting = NoCall /\ waiting' = NoCall /\ context' # NoCall
  BY PhaseOfCalls, Constants DEF NoCall, Live, LiveStates
<1>2. \A t \in Sids : Phase(t) = "none"
  BY <1>1, PhaseOfCalls
<1>3. \A t \in Sids : Phase(t)' = IF t = sid THEN context'.state ELSE Phase(t)
  BY <1>1, <1>2 DEF Phase, ForContext, ForWaiting, Live, LiveStates
<1>4. Calls' = [Calls EXCEPT ![sid] = context'.state]
  BY <1>3 DEF Calls
<1>5. Lifecycle!Begin(sid)
  BY <1>2, <1>4 DEF Lifecycle!Begin, Lifecycle!Free, Lifecycle!In, Lifecycle!Active,
     Lifecycle!Move, Calls
<1> QED BY <1>5 DEF Refined, Lifecycle!CallStep

\* _show_waiting: a second caller waits behind a connected call.
LEMMA WaitRefines ==
    ASSUME CallInvariant, context.state = "connected", waiting = NoCall,
           NEW sid \in Sids, sid # context.sid, NEW from, NEW jmi,
           ShowWaiting(sid, from, jmi)
    PROVE  Refined
<1>1. /\ context' = context /\ waiting'.sid = sid /\ waiting' # NoCall
  BY Constants DEF ShowWaiting, IncomingCall, NoCall
<1>2. context.sid \in Sids /\ Phase(context.sid) = "connected"
  BY PhaseOfCalls DEF Live, LiveStates
<1>3. \A t \in Sids : t # context.sid => Phase(t) = "none"
  BY PhaseOfCalls
<1>4. \A t \in Sids : Phase(t)' = IF t = sid THEN "waiting" ELSE Phase(t)
  BY <1>1, <1>2, <1>3 DEF Phase, ForContext, ForWaiting, Live
<1>5. Calls' = [Calls EXCEPT ![sid] = "waiting"]
  BY <1>4, OnePhase
<1>6. Lifecycle!Wait(sid)
  BY <1>2, <1>3, <1>5 DEF Lifecycle!Wait, Lifecycle!In, Lifecycle!Move, Calls
<1> QED BY <1>6 DEF Refined, Lifecycle!CallStep

\* The active call gives way to a new one of the same contact.
LEMMA ReplaceRefines ==
    ASSUME CallInvariant, NEW sid \in Sids,
           sid # context.sid, waiting # NoCall => sid # waiting.sid,
           context'.sid = sid, waiting' = waiting,
           \/ context.state = "proposing" /\ context'.state = "ringing"
           \/ context.state \in {"negotiating", "connected"} /\ context'.state = "negotiating"
    PROVE  Refined
<1> DEFINE s == context.sid
<1>1. s \in Sids /\ Phase(s) = context.state /\ Phase(sid) = "none"
  BY PhaseOfCalls DEF Live, LiveStates
<1>2. context' # NoCall
  BY Constants DEF NoCall
<1>3. \A t \in Sids :
         Phase(t)' = IF t = s THEN "none" ELSE IF t = sid THEN context'.state ELSE Phase(t)
  BY <1>2, PhaseOfCalls DEF Phase, ForContext, ForWaiting, Live, LiveStates
<1>4. Calls' = [Calls EXCEPT ![s] = "none", ![sid] = context'.state]
  BY <1>1, <1>3 DEF Calls
<1>5. Lifecycle!GiveWay(s) \/ Lifecycle!Migrate(s)
  BY <1>1, <1>4 DEF Lifecycle!GiveWay, Lifecycle!Migrate, Lifecycle!Move2, Calls
<1> QED BY <1>1, <1>5 DEF Refined, Lifecycle!CallStep

-----------------------------------------------------------------------------
(* The steps.                                                              *)

\* The user places a call, or ends one.
LEMMA UserRefines ==
    ASSUME CallInvariant, UserStep, ~Deactivate
    PROVE  Refined
<1>1. ASSUME NEW sid \in OwnSids, StartOutgoing(sid) PROVE Refined
  <2>1. CASE Live(context)
    BY <1>1, <2>1, CallsStayRefines DEF StartOutgoing
  <2>2. CASE ~Live(context)
    <3>1. /\ context'.sid = sid /\ context'.state = "proposing" /\ waiting' = waiting
          /\ sid \in Sids /\ attached
      BY <1>1, <2>2 DEF StartOutgoing, OutgoingCall, Sids
    <3> QED BY <2>2, <3>1, BeginRefines
  <2> QED BY <2>1, <2>2
<1>2. ASSUME ToolbarHangup PROVE Refined
  BY <1>2, HangupRefines DEF ToolbarHangup
<1>3. ASSUME ClickAccept \/ ClickDecline \/ ClickHangup \/ CloseWindow PROVE Refined
  BY <1>3, CallsStayRefines DEF ClickAccept, ClickDecline, ClickHangup, CloseWindow, Click,
     callVars
<1> QED BY <1>1, <1>2, <1>3 DEF UserStep

\* Accepting the waiting call ends the active one.
LEMMA AcceptWaitingRefines ==
    ASSUME CallInvariant, AcceptWaiting
    PROVE  Refined
<1> DEFINE s == context.sid
           r == waiting.sid
<1>1. /\ Live(context) /\ waiting # NoCall
      /\ r \in Sids /\ s # r /\ Phase(r) = "waiting"
  BY PhaseOfCalls DEF AcceptWaiting, Live, LiveStates
<1>2. s \in Sids /\ Phase(s) \in Lifecycle!Active
  BY <1>1, PhaseOfCalls DEF Live, LiveStates, Lifecycle!Active
<1>3. /\ context'.sid = r /\ context'.state = "negotiating" /\ context' # NoCall
      /\ waiting' = NoCall
  BY <1>1 DEF AcceptWaiting, NoWaiting, CallInvariant, TypeOK, CallsTyped, CallRecord, NoCall
<1>4. \A t \in Sids :
         Phase(t)' = IF t = s THEN "none" ELSE IF t = r THEN "negotiating" ELSE Phase(t)
  BY <1>1, <1>3, PhaseOfCalls DEF Phase, ForContext, ForWaiting, Live, LiveStates
<1>5. Calls' = [Calls EXCEPT ![s] = "none", ![r] = "negotiating"]
  BY <1>1, <1>2, <1>4 DEF Calls
<1>6. Lifecycle!Switch(s)
  BY <1>1, <1>2, <1>5 DEF Lifecycle!Switch, Lifecycle!Move2, Calls
<1> QED BY <1>2, <1>6 DEF Refined, Lifecycle!CallStep

\* _decline_waiting turns the waiting caller away.
LEMMA DeclineWaitingRefines ==
    ASSUME CallInvariant, waiting # NoCall, DeclineWaiting
    PROVE  Refined
BY ClearWaitingRefines DEF DeclineWaiting

\* A queued callback acts on the calls it finds when it runs.
LEMMA IdleRefines ==
    ASSUME CallInvariant, IdleStep
    PROVE  Refined
<1>0. context \in CallRecord
  BY DEF CallInvariant, TypeOK, CallsTyped
<1>1. CASE AcceptWaiting
  BY <1>1, AcceptWaitingRefines
<1>2. CASE AcceptRinging
  <2>1. /\ context.state = "ringing" /\ context'.state = "negotiating"
        /\ context'.sid = context.sid /\ waiting' = waiting
    BY <1>0, <1>2 DEF AcceptRinging, CallRecord
  <2> QED BY <2>1, AnswerRefines
<1>3. CASE AcceptNothing \/ LocalDescriptionReady \/ LocalCandidateReady
  BY <1>3, CallsStayRefines DEF AcceptNothing, LocalDescriptionReady, LocalCandidateReady,
     callVars
<1>4. CASE Decline
  BY <1>4, DeclineWaitingRefines, FinishLocalRefines, CallsStayRefines
     DEF Decline, callVars, Terminal
<1>5. CASE HangupClicked \/ WindowClosed
  BY <1>5, HangupRefines, DeclineWaitingRefines DEF HangupClicked, WindowClosed
<1>6. CASE MediaConnected
  <2>1. CASE context.state = "negotiating"
    <3>1. /\ context'.sid = context.sid /\ context'.state = "connected"
          /\ waiting' = waiting /\ Live(context)
      BY <1>0, <1>6, <2>1 DEF MediaConnected, Live, LiveStates, CallRecord
    <3>2. /\ context.sid \in Sids /\ Phase(context.sid) = "negotiating"
          /\ Calls' = [Calls EXCEPT ![context.sid] = "connected"]
      BY <2>1, <3>1, PhaseOfCalls, ChangedPhase DEF LiveStates
    <3>3. Lifecycle!Connect(context.sid)
      BY <3>2 DEF Lifecycle!Connect, Lifecycle!Move, Calls
    <3> QED BY <3>2, <3>3 DEF Refined, Lifecycle!CallStep
  <2>2. CASE context.state # "negotiating"
    BY <1>6, <2>2, CallsStayRefines DEF MediaConnected
  <2> QED BY <2>1, <2>2
<1>7. CASE MediaFailed
  BY <1>7, FinishLocalRefines, CallsStayRefines DEF MediaFailed, callVars, Terminal
<1> QED BY <1>1, <1>2, <1>3, <1>4, <1>5, <1>6, <1>7 DEF IdleStep

\* A timeout ends the call, or turns the waiting caller away.
LEMMA TimerRefines ==
    ASSUME CallInvariant, TimerStep
    PROVE  Refined
<1>1. CASE PhaseTimeout
  BY <1>1, FinishLocalRefines, CallsStayRefines DEF PhaseTimeout, callVars, Terminal
<1>2. CASE WaitingTimeout
  <2>1. waiting # NoCall
    BY <1>2 DEF WaitingTimeout, CallInvariant, WaitingBehindActive
  <2> QED BY <1>2, <2>1, DeclineWaitingRefines, CallsStayRefines DEF WaitingTimeout, callVars
<1> QED BY <1>1, <1>2 DEF TimerStep

\* A proposal rings, waits, migrates the call or changes nothing.
LEMMA ProposalRefines ==
    ASSUME CallInvariant, NEW from \in Devices, NEW sid \in Sids,
           \/ MigrateCall(from, sid) \/ RejectExtraProposal(from, sid)
           \/ ProposalWaits(from, sid) \/ WinTieBreak(from, sid)
           \/ LoseTieBreak(from, sid) \/ RingForProposal(from, sid)
    PROVE  Refined
<1>1. /\ ~Proposed(sid) /\ sid \notin Direct
  BY DEF MigrateCall, RejectExtraProposal, ProposalWaits, WinTieBreak, LoseTieBreak,
         RingForProposal, Proposal, MaySendJmi
<1>2. context # NoCall => sid # context.sid
  BY <1>1 DEF CallInvariant, CallsWereOpened
<1>3. waiting # NoCall => sid # waiting.sid
  BY <1>1 DEF CallInvariant, CallsWereOpened
<1>4. CASE MigrateCall(from, sid)
  <2>1. /\ context.state \in {"negotiating", "connected"} /\ waiting' = waiting
        /\ context'.sid = sid /\ context'.state = "negotiating"
    BY <1>4 DEF MigrateCall, Migrates, IncomingCall
  <2>2. context # NoCall
    BY <2>1 DEF NoCall
  <2> QED BY <1>2, <1>3, <2>1, <2>2, ReplaceRefines
<1>5. CASE RejectExtraProposal(from, sid) \/ WinTieBreak(from, sid)
  BY <1>5, CallsStayRefines DEF RejectExtraProposal, WinTieBreak, callVars
<1>6. CASE ProposalWaits(from, sid)
  <2>1. context.state = "connected" /\ waiting = NoCall /\ context # NoCall
    BY <1>6 DEF ProposalWaits, NoCall
  <2> QED BY <1>2, <1>6, <2>1, WaitRefines DEF ProposalWaits
<1>7. CASE LoseTieBreak(from, sid)
  <2>1. context.state = "proposing" /\ context # NoCall
    BY <1>7 DEF LoseTieBreak, Glare, NoCall
  <2>2. waiting = NoCall
    BY <2>1, PhaseOfCalls
  <2>3. context'.sid = sid /\ context'.state = "ringing" /\ waiting' = waiting
    BY <1>7, <2>2 DEF LoseTieBreak, Ring, IncomingCall, NoWaiting
  <2> QED BY <1>2, <1>3, <2>1, <2>3, ReplaceRefines
<1>8. CASE RingForProposal(from, sid)
  <2>1. /\ ~Live(context) /\ context'.sid = sid /\ context'.state = "ringing"
        /\ waiting' = waiting /\ attached
    BY <1>8 DEF RingForProposal, Ring, IncomingCall, Proposal, MaySendJmi
  <2> QED BY <2>1, BeginRefines
<1> QED BY <1>4, <1>5, <1>6, <1>7, <1>8

\* Every JMI message moves the phases as CallLifecycle says.
LEMMA JmiRefines ==
    ASSUME CallInvariant, NEW from \in Devices, NEW sid \in Sids, JmiStep(from, sid)
    PROVE  Refined
<1>0. context \in CallRecord
  BY DEF CallInvariant, TypeOK, CallsTyped
<1>1. ASSUME NEW action \in JmiActions,
             WaitingCallerGone(from, action, sid) \/ PeerEndsByJmi(from, action, sid)
      PROVE  Refined
  BY <1>1, ClearWaitingRefines, FinishLocalRefines
     DEF WaitingCallerGone, PeerEndsByJmi, ForWaiting, Terminal
<1>2. CASE PeerRings(from, sid)
  BY <1>2, CallsStayRefines DEF PeerRings, callVars
<1>3. CASE PeerProceeds(from, sid)
  <2>1. /\ context.state \in {"proposing", "ringing", "negotiating"}
        /\ context'.state = "negotiating" /\ context'.sid = context.sid /\ waiting' = waiting
    BY <1>0, <1>3 DEF PeerProceeds, CanTransition, Allowed, CallRecord
  <2> QED BY <2>1, AnswerRefines
<1>4. CASE LateProceed(from, sid)
  <2>1. /\ context'.state = context.state /\ context'.sid = context.sid
        /\ waiting' = waiting /\ context # NoCall /\ context.sid \in Sids
    BY <1>0, <1>4, LiveIsWellFormed DEF LateProceed, ForActiveCall, ForContext, CallRecord,
       CallInvariant
  <2>2. context' # NoCall
    BY <2>1, Constants DEF NoCall
  <2> QED BY <2>1, <2>2, SameCallsRefine
<1> QED BY <1>1, <1>2, <1>3, <1>4, ProposalRefines DEF JmiStep

\* So does every Jingle IQ.
LEMMA JingleRefines ==
    ASSUME CallInvariant, NEW from \in Devices, NEW sid \in Sids, JingleStep(from, sid)
    PROVE  Refined
<1>0. context \in CallRecord /\ waiting \in CallRecord
  BY DEF CallInvariant, TypeOK, CallsTyped
<1>1. CASE WaitingCallerInitiates(from, sid)
  <2>1. /\ context' = context /\ waiting'.sid = waiting.sid
        /\ waiting # NoCall /\ waiting.sid \in Sids
    BY <1>0, <1>1, PhaseOfCalls DEF WaitingCallerInitiates, ForWaiting, CallRecord
  <2>2. waiting' # NoCall
    BY <2>1, Constants DEF NoCall
  <2> QED BY <2>1, <2>2, SameCallsRefine
<1>2. CASE WaitingCallerTerminates(from, sid)
  BY <1>2, ClearWaitingRefines DEF WaitingCallerTerminates, ForWaiting
<1>3. CASE \/ WaitingCallerTrickles(from, sid) \/ RejectExtraSession(from, sid)
           \/ SessionAfterEnd(from, sid) \/ SessionAccepted(from, sid)
           \/ PeerTrickles(from, sid)
  BY <1>3, CallsStayRefines DEF WaitingCallerTrickles, RejectExtraSession, SessionAfterEnd,
     SessionAccepted, PeerTrickles, callVars
<1>4. CASE SessionWaits(from, sid)
  <2>1. context.state = "connected" /\ waiting = NoCall /\ sid # context.sid
    BY <1>4 DEF SessionWaits, Owns, Live, LiveStates
  <2> QED BY <1>4, <2>1, WaitRefines DEF SessionWaits
<1>5. CASE RingForSession(from, sid)
  <2>1. /\ ~Live(context) /\ context'.sid = sid /\ context'.state = "ringing"
        /\ waiting' = waiting /\ attached
    BY <1>5 DEF RingForSession, Ring, IncomingCall, Claimed, MaySendJingle
  <2> QED BY <2>1, BeginRefines
<1>6. CASE SessionInitiated(from, sid)
  <2>1. /\ context'.state = context.state /\ context'.sid = context.sid
        /\ waiting' = waiting /\ Live(context)
    BY <1>0, <1>6 DEF SessionInitiated, ForActiveSession, Owns, ForWaiting, CallRecord
  <2>2. context # NoCall /\ context' # NoCall
    BY <2>1, PhaseOfCalls, Constants DEF NoCall
  <2> QED BY <2>1, <2>2, SameCallsRefine
<1>7. CASE PeerTerminates(from, sid)
  BY <1>7, FinishLocalRefines DEF PeerTerminates, Terminal
<1> QED BY <1>1, <1>2, <1>3, <1>4, <1>5, <1>6, <1>7 DEF JingleStep

\* So does every step but the plugin's deactivation.
LEMMA NextRefines ==
    ASSUME CallInvariant, Next, ~Deactivate
    PROVE  Refined
<1>1. CASE MediaStep
  BY <1>1, CallsStayRefines DEF MediaStep, EngineReports, callVars
<1> QED BY <1>1, UserRefines, IdleRefines, TimerRefines, JmiRefines, JingleRefines
        DEF Next, NetworkStep

\* Only deactivation takes the controller away from the module.
LEMMA StaysAttached ==
    ASSUME Next, ~Deactivate
    PROVE  attached' = attached
<1> SUFFICES ASSUME attached' # attached PROVE FALSE
  OBVIOUS
<1>1. ASSUME UserStep PROVE FALSE
  BY <1>1 DEF UserStep, StartOutgoing, ToolbarHangup, ClickAccept, ClickDecline, ClickHangup,
     CloseWindow, Click, networkVars
<1>2. ~IdleStep
  BY DEF IdleStep, AcceptWaiting, AcceptRinging, AcceptNothing, Decline, HangupClicked,
     WindowClosed, LocalDescriptionReady, LocalCandidateReady, MediaConnected, MediaFailed, Pop
<1>3. ASSUME TimerStep \/ MediaStep PROVE FALSE
  BY <1>3 DEF TimerStep, PhaseTimeout, WaitingTimeout, MediaStep, EngineReports, networkVars
<1>4. ASSUME NEW from \in Devices, NEW sid \in Sids, JmiStep(from, sid) PROVE FALSE
  BY <1>4 DEF JmiStep, MigrateCall, RejectExtraProposal, ProposalWaits, WinTieBreak, LoseTieBreak,
     RingForProposal, Proposal, WaitingCallerGone, PeerRings, PeerProceeds, LateProceed,
     PeerEndsByJmi, ForActiveCall, networkVars
<1>5. ASSUME NEW from \in Devices, NEW sid \in Sids, JingleStep(from, sid) PROVE FALSE
  BY <1>5 DEF JingleStep, WaitingCallerInitiates, WaitingCallerTrickles, WaitingCallerTerminates,
     RejectExtraSession, SessionWaits, SessionAfterEnd, RingForSession, SessionInitiated,
     SessionAccepted, PeerTrickles, PeerTerminates, ForActiveSession, Claimed
<1> QED BY <1>1, <1>2, <1>3, <1>4, <1>5 DEF Next, NetworkStep

\* Deactivation drops every call there is, and happens once.
LEMMA DeactivateRefines ==
    ASSUME Deactivate
    PROVE  Lifecycle!Drop
<1>1. context' = NoCall /\ waiting' = NoCall
  BY DEF Deactivate, NoWaiting
<1> QED BY <1>1 DEF Deactivate, Lifecycle!Drop, Phase, ForContext, ForWaiting

-----------------------------------------------------------------------------
\* No session id is in any phase when the plugin starts.
LEMMA InitRefines == Init => Lifecycle!Init
BY DEF Init, Lifecycle!Init, Phase, ForContext, ForWaiting

\* The controller implements CallLifecycle: in whatever order stanzas, clicks,
\* timeouts and reports arrive, the calls a user sees move only along its steps,
\* and a waiting caller is promoted in the step in which the call in front ends,
\* unless the plugin itself is deactivated.
THEOREM ControllerImplementsLifecycle == Spec => ImplementsLifecycle
<1>1. CallInvariant /\ [Next]_vars => [Lifecycle!Next]_<<Calls, attached>>
  <2> SUFFICES ASSUME CallInvariant, [Next]_vars
               PROVE  [Lifecycle!Next]_<<Calls, attached>>
    OBVIOUS
  <2>1. CASE Deactivate
    BY <2>1, DeactivateRefines DEF Lifecycle!Next
  <2>2. CASE Next /\ ~Deactivate
    BY <2>2, NextRefines, StaysAttached DEF Lifecycle!Next, Refined
  <2>3. CASE UNCHANGED vars
    BY <2>3 DEF vars, callVars, networkVars, Calls, Phase, ForContext, ForWaiting, Live
  <2> QED BY <2>1, <2>2, <2>3
<1> QED BY <1>1, InitRefines, InvariantHolds, PTL
        DEF Spec, ImplementsLifecycle, Lifecycle!Spec, Calls

-----------------------------------------------------------------------------
(* Early candidates.                                                       *)

\* Without a live call nobody waits, and so nothing is buffered.
LEMMA NothingBuffered ==
    ASSUME CallInvariant, EarlyCandidatesHaveOwner, ~Live(context)
    PROVE  early = {} /\ waiting = NoCall
BY DEF CallInvariant, EarlyCandidatesHaveOwner, WaitingBehindActive, ForWaiting, Live,
       LiveStates

\* The calls keep their session ids, and the controller its engine.
LEMMA SameCallsEarly ==
    ASSUME EarlyCandidatesHaveOwner, early' \subseteq early, media' = media,
           context'.sid = context.sid, context' = NoCall <=> context = NoCall,
           Live(context)' <=> Live(context),
           waiting'.sid = waiting.sid, waiting' = NoCall <=> waiting = NoCall
    PROVE  EarlyCandidatesHaveOwner'
BY DEF EarlyCandidatesHaveOwner, ForWaiting, ForContext

\* In particular nothing changes.
LEMMA UnchangedEarly ==
    ASSUME EarlyCandidatesHaveOwner, UNCHANGED <<context, waiting, early, media>>
    PROVE  EarlyCandidatesHaveOwner'
BY SameCallsEarly DEF Live

\* _finish_local drops those of the call that ends, and a promoted call keeps its own.
LEMMA FinishLocalEarly ==
    ASSUME CallInvariant, EarlyCandidatesHaveOwner, NEW state, NEW win, NEW bar,
           FinishLocal(state, win, bar)
    PROVE  EarlyCandidatesHaveOwner'
<1>1. early' = early \ {context.sid} /\ media' = NoEngine
  BY DEF FinishLocal, CloseMedia
<1>2. \A sid \in early' : ForWaiting(sid)
  BY <1>1 DEF EarlyCandidatesHaveOwner, ForContext
<1>3. CASE waiting = NoCall
  BY <1>2, <1>3 DEF ForWaiting, EarlyCandidatesHaveOwner
<1>4. CASE waiting # NoCall
  <2>1. context' = waiting /\ waiting.state = "ringing"
    BY <1>4 DEF FinishLocal, CallInvariant, WaitingBehindActive
  <2> QED BY <1>1, <1>2, <1>4, <2>1 DEF EarlyCandidatesHaveOwner, ForWaiting, ForContext,
         Live, LiveStates
<1> QED BY <1>3, <1>4

\* _clear_waiting drops those of the waiting caller.
LEMMA ClearWaitingEarly ==
    ASSUME EarlyCandidatesHaveOwner, ClearWaiting
    PROVE  EarlyCandidatesHaveOwner'
BY DEF ClearWaiting, NoWaiting, EarlyCandidatesHaveOwner, ForWaiting, ForContext, Live

\* hangup drops those of the call.
LEMMA HangupEarly ==
    ASSUME CallInvariant, EarlyCandidatesHaveOwner, Hangup
    PROVE  EarlyCandidatesHaveOwner'
BY FinishLocalEarly, UnchangedEarly DEF Hangup, callVars, mediaVars

\* _start_media hands them to the engine of the call that keeps its session id.
LEMMA StartMediaEarly ==
    ASSUME EarlyCandidatesHaveOwner, waiting' = waiting, NEW device, NEW answerer,
           StartMedia(context.sid, device, answerer)
    PROVE  EarlyCandidatesHaveOwner'
<1>1. early' = early \ {context.sid}
  BY DEF StartMedia
<1> QED BY <1>1 DEF EarlyCandidatesHaveOwner, ForWaiting, ForContext

\* A new call has no candidates yet, and takes none from the one before.
LEMMA NewCallEarly ==
    ASSUME early' = {}
    PROVE  EarlyCandidatesHaveOwner'
BY DEF EarlyCandidatesHaveOwner

\* What the user does keeps to it.
LEMMA UserEarly ==
    ASSUME CallInvariant, EarlyCandidatesHaveOwner, UserStep
    PROVE  EarlyCandidatesHaveOwner'
<1>1. ASSUME NEW sid \in OwnSids, StartOutgoing(sid) PROVE EarlyCandidatesHaveOwner'
  <2>1. CASE Live(context)
    BY <1>1, <2>1, UnchangedEarly DEF StartOutgoing, mediaVars
  <2>2. CASE ~Live(context)
    BY <1>1, <2>2, NothingBuffered, NewCallEarly DEF StartOutgoing, mediaVars
  <2> QED BY <2>1, <2>2
<1>2. CASE ToolbarHangup
  BY <1>2, HangupEarly DEF ToolbarHangup
<1>3. CASE ClickAccept \/ ClickDecline \/ ClickHangup \/ CloseWindow
  BY <1>3, UnchangedEarly DEF ClickAccept, ClickDecline, ClickHangup, CloseWindow, Click,
     callVars, mediaVars
<1>4. CASE Deactivate
  BY <1>4, NewCallEarly DEF Deactivate
<1> QED BY <1>1, <1>2, <1>3, <1>4 DEF UserStep

\* Accepting the waiting call keeps its own for its engine.
LEMMA AcceptWaitingEarly ==
    ASSUME CallInvariant, EarlyCandidatesHaveOwner, AcceptWaiting
    PROVE  EarlyCandidatesHaveOwner'
<1>1. /\ waiting # NoCall /\ waiting' = NoCall
      /\ context' = [waiting EXCEPT !.state = "negotiating"] /\ waiting \in CallRecord
  BY DEF AcceptWaiting, NoWaiting, CallInvariant, TypeOK, CallsTyped
<1>2. context'.sid = waiting.sid /\ context' # NoCall /\ Live(context)'
  BY <1>1 DEF CallRecord, NoCall, Live, LiveStates
<1>3. CASE waitingOffer
  <2>1. early' = early \ {context.sid, waiting.sid}
    BY <1>3 DEF AcceptWaiting
  <2>2. early' = {}
    BY <2>1 DEF EarlyCandidatesHaveOwner, ForWaiting, ForContext
  <2> QED BY <2>2, NewCallEarly
<1>4. CASE ~waitingOffer
  <2>1. early' = early \ {context.sid} /\ media' = NoEngine
    BY <1>4 DEF AcceptWaiting, CloseMedia
  <2> QED BY <1>2, <2>1 DEF EarlyCandidatesHaveOwner, ForWaiting, ForContext
<1> QED BY <1>3, <1>4

\* So do the queued callbacks.
LEMMA IdleEarly ==
    ASSUME CallInvariant, EarlyCandidatesHaveOwner, IdleStep
    PROVE  EarlyCandidatesHaveOwner'
<1>0. context \in CallRecord /\ (context # NoCall => context.sid \in Sids)
  BY LiveIsWellFormed DEF CallInvariant, TypeOK, CallsTyped
<1>1. CASE AcceptRinging
  <2>1. CASE pendingOffer
    BY <1>1, <2>1, StartMediaEarly DEF AcceptRinging
  <2>2. CASE ~pendingOffer
    <3>1. /\ context'.sid = context.sid /\ Live(context) /\ Live(context)'
          /\ context # NoCall /\ context' # NoCall
      BY <1>0, <1>1 DEF AcceptRinging, CallRecord, Live, LiveStates, NoCall
    <3> QED BY <1>1, <2>2, <3>1, SameCallsEarly DEF AcceptRinging, mediaVars
  <2> QED BY <2>1, <2>2
<1>2. CASE AcceptNothing \/ LocalDescriptionReady \/ LocalCandidateReady
  BY <1>2, UnchangedEarly DEF AcceptNothing, LocalDescriptionReady, LocalCandidateReady,
     callVars, mediaVars
<1>3. CASE Decline
  BY <1>3, ClearWaitingEarly, FinishLocalEarly, UnchangedEarly
     DEF Decline, DeclineWaiting, callVars, mediaVars
<1>4. CASE HangupClicked \/ WindowClosed
  BY <1>4, HangupEarly, ClearWaitingEarly DEF HangupClicked, WindowClosed, DeclineWaiting
<1>5. CASE MediaConnected
  <2>1. /\ context'.sid = context.sid /\ Live(context)' <=> Live(context)
        /\ context' = NoCall <=> context = NoCall
    BY <1>0, <1>5, Constants DEF MediaConnected, CallRecord, Live, LiveStates, NoCall
  <2> QED BY <1>5, <2>1, SameCallsEarly DEF MediaConnected, mediaVars
<1>6. CASE MediaFailed
  BY <1>6, FinishLocalEarly, UnchangedEarly DEF MediaFailed, callVars, mediaVars
<1> QED BY <1>1, <1>2, <1>3, <1>4, <1>5, <1>6, AcceptWaitingEarly DEF IdleStep

\* And the timeouts, and what engines report.
LEMMA TimerEarly ==
    ASSUME CallInvariant, EarlyCandidatesHaveOwner, TimerStep \/ MediaStep
    PROVE  EarlyCandidatesHaveOwner'
<1>1. CASE PhaseTimeout
  BY <1>1, FinishLocalEarly, UnchangedEarly DEF PhaseTimeout, callVars, mediaVars
<1>2. CASE WaitingTimeout
  BY <1>2, ClearWaitingEarly, UnchangedEarly DEF WaitingTimeout, DeclineWaiting, callVars, mediaVars
<1>3. CASE MediaStep
  BY <1>3, UnchangedEarly DEF MediaStep, EngineReports, callVars, mediaVars
<1> QED BY <1>1, <1>2, <1>3 DEF TimerStep

\* So does every JMI message.
LEMMA JmiEarly ==
    ASSUME CallInvariant, EarlyCandidatesHaveOwner,
           NEW from \in Devices, NEW sid \in Sids, JmiStep(from, sid)
    PROVE  EarlyCandidatesHaveOwner'
<1>0. context \in CallRecord
  BY DEF CallInvariant, TypeOK, CallsTyped
<1>1. CASE MigrateCall(from, sid)
  <2>1. early' = early \ {context.sid} /\ waiting' = waiting
    BY <1>1 DEF MigrateCall
  <2> QED BY <2>1 DEF EarlyCandidatesHaveOwner, ForWaiting, ForContext
<1>2. CASE \/ RejectExtraProposal(from, sid) \/ WinTieBreak(from, sid) \/ PeerRings(from, sid)
  BY <1>2, UnchangedEarly DEF RejectExtraProposal, WinTieBreak, PeerRings, callVars, mediaVars
<1>3. CASE ProposalWaits(from, sid)
  <2>1. /\ waiting = NoCall /\ UNCHANGED <<context, early, media>>
    BY <1>3 DEF ProposalWaits, ShowWaiting, mediaVars
  <2> QED BY <2>1 DEF EarlyCandidatesHaveOwner, ForWaiting, ForContext, Live
<1>4. CASE LoseTieBreak(from, sid)
  BY <1>4, NewCallEarly DEF LoseTieBreak
<1>5. CASE RingForProposal(from, sid)
  BY <1>5, NothingBuffered, NewCallEarly DEF RingForProposal, mediaVars
<1>6. ASSUME NEW action \in JmiActions,
             WaitingCallerGone(from, action, sid) \/ PeerEndsByJmi(from, action, sid)
      PROVE  EarlyCandidatesHaveOwner'
  BY <1>6, ClearWaitingEarly, FinishLocalEarly DEF WaitingCallerGone, PeerEndsByJmi
<1>7. CASE PeerProceeds(from, sid)
  <2>1. context.sid = sid /\ waiting' = waiting
    BY <1>7 DEF PeerProceeds, ForActiveCall, ForContext
  <2> QED BY <1>7, <2>1, StartMediaEarly DEF PeerProceeds
<1>8. CASE LateProceed(from, sid)
  <2>1. /\ context'.state = context.state /\ context'.sid = context.sid
        /\ context # NoCall /\ context.sid \in Sids
        /\ UNCHANGED <<waiting, early, media>>
    BY <1>0, <1>8, LiveIsWellFormed DEF LateProceed, ForActiveCall, ForContext, CallRecord,
       CallInvariant, mediaVars
  <2>2. context' # NoCall
    BY <2>1, Constants DEF NoCall
  <2> QED BY <2>1, <2>2, SameCallsEarly DEF Live
<1> QED BY <1>1, <1>2, <1>3, <1>4, <1>5, <1>6, <1>7, <1>8 DEF JmiStep

\* So does every Jingle IQ.
LEMMA JingleEarly ==
    ASSUME CallInvariant, EarlyCandidatesHaveOwner,
           NEW from \in Devices, NEW sid \in Sids, JingleStep(from, sid)
    PROVE  EarlyCandidatesHaveOwner'
<1>0. context \in CallRecord /\ waiting \in CallRecord
  BY DEF CallInvariant, TypeOK, CallsTyped
<1>1. CASE WaitingCallerInitiates(from, sid)
  <2>1. /\ waiting'.sid = waiting.sid /\ waiting # NoCall /\ waiting.sid \in Sids
        /\ UNCHANGED <<context, early, media>>
    BY <1>0, <1>1 DEF WaitingCallerInitiates, ForWaiting, CallRecord, mediaVars, CallInvariant,
       CallsWellFormed, WellFormed
  <2>2. waiting' # NoCall
    BY <2>1, Constants DEF NoCall
  <2> QED BY <2>1, <2>2, SameCallsEarly DEF Live
<1>2. CASE WaitingCallerTrickles(from, sid)
  <2>1. ForWaiting(sid) /\ early' = early \cup {sid} /\ UNCHANGED <<context, waiting, media>>
    BY <1>2 DEF WaitingCallerTrickles, callVars
  <2> QED BY <2>1 DEF EarlyCandidatesHaveOwner, ForWaiting, ForContext, Live
<1>3. CASE WaitingCallerTerminates(from, sid)
  BY <1>3, ClearWaitingEarly DEF WaitingCallerTerminates
<1>4. CASE \/ RejectExtraSession(from, sid) \/ SessionAfterEnd(from, sid)
           \/ SessionAccepted(from, sid)
  BY <1>4, UnchangedEarly DEF RejectExtraSession, SessionAfterEnd, SessionAccepted, callVars,
     mediaVars
<1>5. CASE SessionWaits(from, sid)
  <2>1. /\ waiting = NoCall /\ UNCHANGED <<context, early, media>>
    BY <1>5 DEF SessionWaits, ShowWaiting, mediaVars
  <2> QED BY <2>1 DEF EarlyCandidatesHaveOwner, ForWaiting, ForContext, Live
<1>6. CASE RingForSession(from, sid)
  BY <1>6, NothingBuffered, NewCallEarly DEF RingForSession, mediaVars
<1>7. CASE SessionInitiated(from, sid)
  <2>1. /\ context'.state = context.state /\ context'.sid = context.sid
        /\ waiting' = waiting /\ Live(context) /\ context.sid = sid
    BY <1>0, <1>7 DEF SessionInitiated, ForActiveSession, Owns, ForWaiting, CallRecord
  <2>2. context # NoCall /\ context' # NoCall
    BY <2>1, LiveIsWellFormed, Constants DEF NoCall, CallInvariant
  <2>3. CASE context.state = "negotiating"
    BY <1>7, <2>1, <2>3, StartMediaEarly DEF SessionInitiated
  <2>4. CASE context.state # "negotiating"
    BY <1>7, <2>1, <2>2, <2>4, SameCallsEarly DEF SessionInitiated, mediaVars, Live
  <2> QED BY <2>3, <2>4
<1>8. CASE PeerTrickles(from, sid)
  <2>1. /\ Live(context) /\ context.sid = sid /\ context # NoCall
        /\ UNCHANGED <<context, waiting, media>>
        /\ early' = IF media = NoEngine THEN early \cup {sid} ELSE early
    BY <1>8 DEF PeerTrickles, ForActiveSession, Owns, ForWaiting, callVars, Live, LiveStates,
       NoCall
  <2> QED BY <2>1 DEF EarlyCandidatesHaveOwner, ForWaiting, ForContext, Live
<1>9. CASE PeerTerminates(from, sid)
  BY <1>9, FinishLocalEarly DEF PeerTerminates
<1> QED BY <1>1, <1>2, <1>3, <1>4, <1>5, <1>6, <1>7, <1>8, <1>9 DEF JingleStep

\* A candidate that comes early is buffered only for a call that has no engine yet,
\* and never for one that is over or that has its engine.
THEOREM EarlyCandidatesAreOwned == Spec => []EarlyCandidatesHaveOwner
<1>1. Init => EarlyCandidatesHaveOwner
  BY DEF Init, EarlyCandidatesHaveOwner
<1>2. CallInvariant /\ EarlyCandidatesHaveOwner /\ [Next]_vars => EarlyCandidatesHaveOwner'
  BY UserEarly, IdleEarly, TimerEarly, JmiEarly, JingleEarly, UnchangedEarly
     DEF Next, NetworkStep, vars, callVars, mediaVars
<1> QED BY <1>1, <1>2, InvariantHolds, PTL DEF Spec

-----------------------------------------------------------------------------
(* Timeouts.                                                               *)

\* A call that is not timed has not been since its connection was reported late.
KeepsTimed == CallIsTimed' \/ (~CallIsTimed /\ SameCall)

\* A timer that names a session id is armed.
LEMMA ArmedTimer ==
    \A sid \in Sids : \A phase : Timer(sid, phase) # NoTimer
BY Constants DEF Timer, NoTimer

\* _finish_local arms the timeout of the call it promotes, and leaves no other.
LEMMA FinishLocalTimed ==
    ASSUME CallInvariant, NEW state \in Terminal, NEW win, NEW bar,
           FinishLocal(state, win, bar)
    PROVE  KeepsTimed
<1>1. CASE waiting # NoCall
  BY <1>1, ArmedTimer DEF FinishLocal, CallInvariant, CallsWellFormed, WellFormed,
     KeepsTimed, CallIsTimed
<1>2. CASE waiting = NoCall
  <2>1. context'.state \notin LiveStates
    BY <1>2 DEF FinishLocal, CallInvariant, TypeOK, CallsTyped, CallRecord, Live, LiveStates,
       Terminal
  <2> QED BY <2>1 DEF KeepsTimed, CallIsTimed, LiveStates
<1> QED BY <1>1, <1>2

\* What neither changes the state of the call nor its timeout keeps it timed.
LEMMA SameTimed ==
    ASSUME context'.sid = context.sid, context'.state = context.state,
           phaseTimer' = phaseTimer
    PROVE  KeepsTimed
BY DEF KeepsTimed, CallIsTimed, SameCall

\* hangup leaves no live call, or the promoted one with its timeout.
LEMMA HangupTimed ==
    ASSUME CallInvariant, Hangup
    PROVE  KeepsTimed
BY FinishLocalTimed, SameTimed DEF Hangup, callVars, timerVars, Terminal

\* _clear_waiting changes nothing of the active call.
LEMMA ClearWaitingTimed ==
    ASSUME ClearWaiting
    PROVE  KeepsTimed
BY SameTimed DEF ClearWaiting

\* What the user does keeps the call timed.
LEMMA UserTimed ==
    ASSUME CallInvariant, UserStep
    PROVE  KeepsTimed
<1>1. ASSUME NEW sid \in OwnSids, StartOutgoing(sid) PROVE KeepsTimed
  BY <1>1, SameTimed, ArmedTimer DEF StartOutgoing, Sids, KeepsTimed, CallIsTimed
<1>2. CASE ToolbarHangup
  BY <1>2, HangupTimed DEF ToolbarHangup
<1>3. CASE ClickAccept \/ ClickDecline \/ ClickHangup \/ CloseWindow
  BY <1>3, SameTimed DEF ClickAccept, ClickDecline, ClickHangup, CloseWindow, Click, callVars,
     timerVars
<1>4. CASE Deactivate
  BY <1>4 DEF Deactivate, KeepsTimed, CallIsTimed, NoCall
<1> QED BY <1>1, <1>2, <1>3, <1>4 DEF UserStep

\* The queued callbacks do; a connection is that of the call's engine, or late.
LEMMA IdleTimed ==
    ASSUME CallInvariant, IdleStep
    PROVE  LateConnection \/ KeepsTimed
<1>0. /\ TypeOK /\ context \in CallRecord
      /\ waiting # NoCall => waiting.sid \in Sids
      /\ context # NoCall => context.sid \in Sids
  BY DEF CallInvariant, TypeOK, CallsTyped, CallsWellFormed, WellFormed
<1>1. CASE AcceptWaiting
  BY <1>0, <1>1, ArmedTimer DEF AcceptWaiting, KeepsTimed, CallIsTimed
<1>2. CASE AcceptRinging \/ AcceptNothing
  <2>1. context.state \in LiveStates => Timer(context.sid, "negotiating") # NoTimer
    BY <1>0, ArmedTimer DEF NoCall, LiveStates
  <2>2. CASE AcceptRinging
    BY <2>1, <2>2 DEF AcceptRinging, KeepsTimed, CallIsTimed, LiveStates
  <2>3. CASE AcceptNothing
    BY <2>1, <2>3 DEF AcceptNothing, KeepsTimed, CallIsTimed, SameCall, LiveStates, callVars
  <2> QED BY <1>2, <2>2, <2>3
<1>3. CASE LocalDescriptionReady \/ LocalCandidateReady
  BY <1>3, SameTimed DEF LocalDescriptionReady, LocalCandidateReady, callVars, timerVars
<1>4. CASE Decline
  BY <1>4, ClearWaitingTimed, FinishLocalTimed, SameTimed
     DEF Decline, DeclineWaiting, callVars, timerVars, Terminal
<1>5. CASE HangupClicked \/ WindowClosed
  BY <1>5, HangupTimed, ClearWaitingTimed DEF HangupClicked, WindowClosed, DeclineWaiting
<1>6. CASE MediaConnected
  <2> SUFFICES ASSUME Source = media PROVE KeepsTimed
    BY <1>6 DEF LateConnection
  <2>1. media # NoEngine
    <3>1. Source \in Engines
      BY <1>0, <1>6, PopTypes DEF MediaConnected, CallInvariant, Reports, Outcomes
    <3> QED BY <3>1, Constants
  <2>2. context.state \in {"negotiating", "connected"}
    BY <2>1 DEF CallInvariant, MediaBelongsToCall
  <2>3. context'.state = "connected"
    BY <1>0, <1>6, <2>2 DEF MediaConnected, Live, LiveStates, CallRecord
  <2> QED BY <2>3 DEF KeepsTimed, CallIsTimed
<1>7. CASE MediaFailed
  BY <1>7, FinishLocalTimed, SameTimed DEF MediaFailed, callVars, timerVars, Terminal
<1> QED BY <1>1, <1>2, <1>3, <1>4, <1>5, <1>6, <1>7 DEF IdleStep

\* A timeout that fires is that of the call, which it ends.
LEMMA TimerTimed ==
    ASSUME CallInvariant, TimerStep \/ MediaStep
    PROVE  KeepsTimed
<1>1. CASE PhaseTimeout
  BY <1>1, FinishLocalTimed DEF PhaseTimeout, Terminal, CallInvariant, TimerIsOfCurrentPhase
<1>2. CASE WaitingTimeout
  BY <1>2, ClearWaitingTimed, SameTimed DEF WaitingTimeout, DeclineWaiting, callVars
<1>3. CASE MediaStep
  BY <1>3, SameTimed DEF MediaStep, EngineReports, callVars, timerVars
<1> QED BY <1>1, <1>2, <1>3 DEF TimerStep

\* Every JMI message keeps the call timed.
LEMMA JmiTimed ==
    ASSUME CallInvariant,
           NEW from \in Devices, NEW sid \in Sids, JmiStep(from, sid)
    PROVE  KeepsTimed
<1>1. CASE MigrateCall(from, sid) \/ LoseTieBreak(from, sid) \/ RingForProposal(from, sid)
  BY <1>1, ArmedTimer DEF MigrateCall, LoseTieBreak, RingForProposal, Ring, KeepsTimed, CallIsTimed
<1>2. CASE \/ RejectExtraProposal(from, sid) \/ WinTieBreak(from, sid)
           \/ PeerRings(from, sid) \/ ProposalWaits(from, sid)
  BY <1>2, SameTimed DEF RejectExtraProposal, WinTieBreak, PeerRings, ProposalWaits,
     ShowWaiting, callVars, timerVars
<1>3. ASSUME NEW action \in JmiActions,
             WaitingCallerGone(from, action, sid) \/ PeerEndsByJmi(from, action, sid)
      PROVE  KeepsTimed
  BY <1>3, ClearWaitingTimed, FinishLocalTimed DEF WaitingCallerGone, PeerEndsByJmi, Terminal
<1>4. CASE PeerProceeds(from, sid)
  BY <1>4, ArmedTimer DEF PeerProceeds, KeepsTimed, CallIsTimed
<1>5. CASE LateProceed(from, sid)
  <2>1. /\ context'.sid = context.sid /\ context'.state = context.state
        /\ phaseTimer' = phaseTimer
    BY <1>5 DEF LateProceed, timerVars, CallInvariant, TypeOK, CallsTyped, CallRecord
  <2> QED BY <2>1, SameTimed
<1> QED BY <1>1, <1>2, <1>3, <1>4, <1>5 DEF JmiStep

\* So does every Jingle IQ.
LEMMA JingleTimed ==
    ASSUME CallInvariant,
           NEW from \in Devices, NEW sid \in Sids, JingleStep(from, sid)
    PROVE  KeepsTimed
<1>1. CASE WaitingCallerTerminates(from, sid) \/ PeerTerminates(from, sid)
  BY <1>1, ClearWaitingTimed, FinishLocalTimed DEF WaitingCallerTerminates, PeerTerminates,
     Terminal
<1>2. CASE RingForSession(from, sid)
  BY <1>2, ArmedTimer DEF RingForSession, Ring, KeepsTimed, CallIsTimed
<1>3. CASE SessionInitiated(from, sid)
  <2>1. /\ context'.sid = context.sid /\ context'.state = context.state
        /\ phaseTimer' = IF context.state \in TimeoutPhases
                           THEN Timer(sid, context.state) ELSE phaseTimer
    BY <1>3 DEF SessionInitiated, CallInvariant, TypeOK, CallsTyped, CallRecord
  <2>2. Timer(sid, context.state) # NoTimer
    BY ArmedTimer
  <2> QED BY <2>1, <2>2 DEF KeepsTimed, CallIsTimed, SameCall
<1>4. CASE \/ WaitingCallerInitiates(from, sid) \/ WaitingCallerTrickles(from, sid)
           \/ RejectExtraSession(from, sid) \/ SessionWaits(from, sid)
           \/ SessionAfterEnd(from, sid) \/ SessionAccepted(from, sid)
           \/ PeerTrickles(from, sid)
  BY <1>4, SameTimed DEF WaitingCallerInitiates, WaitingCallerTrickles, RejectExtraSession,
     SessionWaits, ShowWaiting, SessionAfterEnd, SessionAccepted, PeerTrickles, callVars,
     timerVars
<1> QED BY <1>1, <1>2, <1>3, <1>4 DEF JingleStep

\* A call that is proposing, ringing or negotiating has the timeout that will end
\* it, unless a connection that was reported too late disarmed it.
THEOREM TransientCallsAreTimed == Spec => TransientCallIsTimed
<1>1. Init => CallIsTimed
  BY DEF Init, CallIsTimed, NoCall
<1>2. CallInvariant /\ [Next]_vars => [LateConnection \/ CallIsTimed' \/ (~CallIsTimed /\ SameCall)]_vars
  <2> SUFFICES ASSUME CallInvariant, Next PROVE LateConnection \/ KeepsTimed
    BY DEF KeepsTimed
  <2> QED BY UserTimed, IdleTimed, TimerTimed, JmiTimed, JingleTimed DEF Next, NetworkStep
<1> QED BY <1>1, <1>2, InvariantHolds, PTL DEF Spec, TransientCallIsTimed

-----------------------------------------------------------------------------
(* The window.                                                             *)

\* The window is only seen with a call, on the phone or behind a waiting one.
WindowIsOfCall == window.visible => Live(context)

\* _finish_local hides the window or shows it for the call it promotes.
LEMMA FinishLocalHides ==
    ASSUME CallInvariant, NEW state \in Terminal, NEW win, NEW bar,
           FinishLocal(state, win, bar), win \in WindowStates
    PROVE  WindowIsOfCall'
<1>1. CASE waiting # NoCall
  BY <1>1 DEF FinishLocal, CallInvariant, WaitingBehindActive, WindowIsOfCall, Live, LiveStates
<1>2. CASE waiting = NoCall
  BY <1>2 DEF FinishLocal, Hidden, WindowIsOfCall, WindowStates
<1> QED BY <1>1, <1>2

\* A window that is not newly shown stays with a call that stays live.
LEMMA SameWindow ==
    ASSUME WindowIsOfCall, window'.visible = window.visible, Live(context) => Live(context)'
    PROVE  WindowIsOfCall'
BY DEF WindowIsOfCall

\* With a live call after it a step cannot go wrong.
LEMMA LiveWindow == ASSUME context'.state \in LiveStates PROVE WindowIsOfCall'
BY DEF WindowIsOfCall, Live

\* The shapes a handler gives the window.
LEMMA WindowTyped ==
    ASSUME CallInvariant
    PROVE  /\ window \in WindowStates /\ Enabled(window) \in WindowStates
           /\ Hidden(window).visible = FALSE
           /\ WithActiveControls(window).visible = window.visible
BY DEF CallInvariant, TypeOK, UiTyped, WindowStates, Enabled, Hidden, WithActiveControls

\* hangup hides the window, too when there is no call.
LEMMA HangupHides ==
    ASSUME CallInvariant, Hangup
    PROVE  WindowIsOfCall'
<1>1. CASE Live(context)
  BY <1>1, FinishLocalHides, WindowTyped DEF Hangup, Terminal, WindowStates
<1>2. CASE ~Live(context)
  BY <1>2, WindowTyped DEF Hangup, WindowIsOfCall
<1> QED BY <1>1, <1>2

\* So does _clear_waiting.
LEMMA ClearWaitingHides ==
    ASSUME CallInvariant, ClearWaiting
    PROVE  WindowIsOfCall'
BY WindowTyped DEF ClearWaiting, WindowIsOfCall

\* What the user does keeps the window with its call.
LEMMA UserHides ==
    ASSUME CallInvariant, WindowIsOfCall, UserStep
    PROVE  WindowIsOfCall'
<1>1. ASSUME NEW sid \in OwnSids, StartOutgoing(sid) PROVE WindowIsOfCall'
  <2>1. context'.state \in LiveStates
    BY <1>1 DEF StartOutgoing, OutgoingCall, Live, LiveStates
  <2> QED BY <2>1, LiveWindow
<1>2. CASE ToolbarHangup
  BY <1>2, HangupHides DEF ToolbarHangup
<1>3. CASE ClickAccept \/ ClickDecline \/ ClickHangup \/ CloseWindow
  <2>1. context' = context /\ window.visible
    BY <1>3 DEF ClickAccept, ClickDecline, ClickHangup, CloseWindow, Click, callVars
  <2> QED BY <2>1 DEF WindowIsOfCall, Live
<1>4. CASE Deactivate
  BY <1>4, WindowTyped DEF Deactivate, WindowIsOfCall
<1> QED BY <1>1, <1>2, <1>3, <1>4 DEF UserStep

\* The queued callbacks do.
LEMMA IdleHides ==
    ASSUME CallInvariant, WindowIsOfCall, IdleStep
    PROVE  WindowIsOfCall'
<1>0. context \in CallRecord /\ waiting \in CallRecord
  BY DEF CallInvariant, TypeOK, CallsTyped
<1>1. CASE AcceptWaiting \/ AcceptRinging
  <2>1. context'.state = "negotiating"
    BY <1>0, <1>1 DEF AcceptWaiting, AcceptRinging, CallRecord
  <2> QED BY <2>1, LiveWindow DEF LiveStates
<1>2. CASE AcceptNothing \/ LocalDescriptionReady \/ LocalCandidateReady
  <2>1. context' = context /\ window' = window
    BY <1>2 DEF AcceptNothing, LocalDescriptionReady, LocalCandidateReady, callVars, uiVars
  <2> QED BY <2>1 DEF WindowIsOfCall, Live
<1>3. CASE Decline
  <2>1. CASE waiting # NoCall
    BY <1>3, <2>1, ClearWaitingHides DEF Decline, DeclineWaiting
  <2>2. CASE waiting = NoCall /\ context = NoCall
    BY <1>3, <2>2 DEF Decline, callVars, uiVars, WindowIsOfCall, Live
  <2>3. CASE waiting = NoCall /\ context # NoCall
    BY <1>3, <2>3, FinishLocalHides, WindowTyped DEF Decline, Terminal, WindowStates
  <2> QED BY <2>1, <2>2, <2>3
<1>4. CASE HangupClicked \/ WindowClosed
  BY <1>4, HangupHides, ClearWaitingHides DEF HangupClicked, WindowClosed, DeclineWaiting
<1>5. CASE MediaConnected
  <2>1. CASE Live(context)
    <3>1. context'.state \in LiveStates
      BY <1>0, <1>5, <2>1 DEF MediaConnected, Live, LiveStates, CallRecord
    <3> QED BY <3>1, LiveWindow
  <2>2. CASE ~Live(context)
    BY <1>5, <2>2 DEF MediaConnected, WindowIsOfCall, Live
  <2> QED BY <2>1, <2>2
<1>6. CASE MediaFailed
  <2>1. CASE Live(context)
    BY <1>6, <2>1, FinishLocalHides, WindowTyped DEF MediaFailed, Terminal, WindowStates
  <2>2. CASE ~Live(context)
    BY <1>6, <2>2 DEF MediaFailed, callVars, uiVars, WindowIsOfCall, Live
  <2> QED BY <2>1, <2>2
<1> QED BY <1>1, <1>2, <1>3, <1>4, <1>5, <1>6 DEF IdleStep

\* The timeouts do, and reports change neither call nor window.
LEMMA TimerHides ==
    ASSUME CallInvariant, WindowIsOfCall, TimerStep \/ MediaStep
    PROVE  WindowIsOfCall'
<1>1. CASE PhaseTimeout
  BY <1>1, FinishLocalHides, WindowTyped DEF PhaseTimeout, Terminal, WindowStates, CallInvariant,
     TimerIsOfCurrentPhase
<1>2. CASE WaitingTimeout
  BY <1>2, ClearWaitingHides DEF WaitingTimeout, DeclineWaiting, callVars, uiVars,
     WindowIsOfCall, Live
<1>3. CASE MediaStep
  BY <1>3 DEF MediaStep, EngineReports, callVars, uiVars, WindowIsOfCall, Live
<1> QED BY <1>1, <1>2, <1>3 DEF TimerStep

\* Every JMI message keeps the window with its call.
LEMMA JmiHides ==
    ASSUME CallInvariant, WindowIsOfCall,
           NEW from \in Devices, NEW sid \in Sids, JmiStep(from, sid)
    PROVE  WindowIsOfCall'
<1>0. context \in CallRecord
  BY DEF CallInvariant, TypeOK, CallsTyped
<1>1. CASE MigrateCall(from, sid) \/ LoseTieBreak(from, sid) \/ RingForProposal(from, sid)
  BY <1>1, LiveWindow DEF MigrateCall, LoseTieBreak, RingForProposal, Ring, IncomingCall,
     LiveStates
<1>2. CASE RejectExtraProposal(from, sid) \/ WinTieBreak(from, sid)
  BY <1>2 DEF RejectExtraProposal, WinTieBreak, callVars, uiVars, WindowIsOfCall, Live
<1>3. CASE PeerRings(from, sid) \/ ProposalWaits(from, sid)
  <2>1. context' = context /\ context.state \in {"proposing", "connected"}
    BY <1>3 DEF PeerRings, ProposalWaits, ShowWaiting, callVars
  <2> QED BY <2>1, LiveWindow DEF LiveStates
<1>4. ASSUME NEW action \in JmiActions,
             WaitingCallerGone(from, action, sid) \/ PeerEndsByJmi(from, action, sid)
      PROVE  WindowIsOfCall'
  BY <1>4, ClearWaitingHides, FinishLocalHides, WindowTyped DEF WaitingCallerGone,
     PeerEndsByJmi, Terminal, WindowStates
<1>5. CASE PeerProceeds(from, sid)
  <2>1. context'.state = "negotiating"
    BY <1>0, <1>5 DEF PeerProceeds, CallRecord
  <2> QED BY <2>1, LiveWindow DEF LiveStates
<1>6. CASE LateProceed(from, sid)
  <2>1. context'.state = context.state /\ window' = window
    BY <1>0, <1>6 DEF LateProceed, uiVars, CallRecord
  <2> QED BY <2>1 DEF WindowIsOfCall, Live
<1> QED BY <1>1, <1>2, <1>3, <1>4, <1>5, <1>6 DEF JmiStep

\* So does every Jingle IQ.
LEMMA JingleHides ==
    ASSUME CallInvariant, WindowIsOfCall,
           NEW from \in Devices, NEW sid \in Sids, JingleStep(from, sid)
    PROVE  WindowIsOfCall'
<1>0. context \in CallRecord
  BY DEF CallInvariant, TypeOK, CallsTyped
<1>1. CASE WaitingCallerTerminates(from, sid) \/ PeerTerminates(from, sid)
  BY <1>1, ClearWaitingHides, FinishLocalHides, WindowTyped DEF WaitingCallerTerminates,
     PeerTerminates, Terminal, WindowStates
<1>2. CASE RingForSession(from, sid)
  BY <1>2, LiveWindow DEF RingForSession, Ring, IncomingCall, LiveStates
<1>3. CASE SessionWaits(from, sid)
  BY <1>3, LiveWindow DEF SessionWaits, ShowWaiting, LiveStates
<1>4. CASE \/ WaitingCallerInitiates(from, sid) \/ WaitingCallerTrickles(from, sid)
           \/ RejectExtraSession(from, sid) \/ SessionAfterEnd(from, sid)
           \/ SessionInitiated(from, sid) \/ SessionAccepted(from, sid)
           \/ PeerTrickles(from, sid)
  <2>1. context'.state = context.state /\ window' = window
    BY <1>0, <1>4 DEF WaitingCallerInitiates, WaitingCallerTrickles, RejectExtraSession,
       SessionAfterEnd, SessionInitiated, SessionAccepted, PeerTrickles, callVars, uiVars,
       CallRecord
  <2> QED BY <2>1 DEF WindowIsOfCall, Live
<1> QED BY <1>1, <1>2, <1>3, <1>4 DEF JingleStep

\* Every step keeps the window with its call.
LEMMA NextHides ==
    ASSUME CallInvariant, WindowIsOfCall, Next
    PROVE  WindowIsOfCall'
BY UserHides, IdleHides, TimerHides, JmiHides, JingleHides DEF Next, NetworkStep

-----------------------------------------------------------------------------
(* A ringing call can be answered.                                         *)

\* A call that cannot be answered has not been since a late connection took its
\* buttons away.
KeepsAnswerable == CallIsAnswerable' \/ (~CallIsAnswerable /\ SameCall)

\* A queue without clicks had none before a step that only adds to it, or takes
\* another callback from it.
LEMMA ClicksStayQueued ==
    ASSUME TypeOK, NoClickQueued',
           \/ idle' = idle
           \/ \E what : \E source : Queue(what, source)
           \/ \E what \in Reports : Pop(what)
    PROVE  NoClickQueued
<1>0. idle \in Seq(Callbacks)
  BY DEF TypeOK, QueueTyped
<1>1. CASE idle' = idle
  BY <1>1 DEF NoClickQueued
<1>2. ASSUME NEW what, NEW source, Queue(what, source) PROVE NoClickQueued
  <2> DEFINE callback == [what |-> what, source |-> source]
  <2>1. idle' = Append(idle, callback)
    BY <1>2 DEF Queue
  <2> HIDE DEF callback
  <2>2. \A i \in DOMAIN idle : i \in DOMAIN idle' /\ idle'[i] = idle[i]
    BY <1>0, <2>1
  <2> QED BY <2>2 DEF NoClickQueued
<1>3. ASSUME NEW what \in Reports, Pop(what) PROVE NoClickQueued
  <2>1. idle # <<>> /\ idle' = Tail(idle) /\ Head(idle).what = what
    BY <1>3 DEF Pop
  <2>2. \A i \in DOMAIN idle : \/ i = 1 /\ idle[i] = Head(idle)
                               \/ i - 1 \in DOMAIN idle' /\ idle[i] = idle'[i - 1]
    BY <1>0, <2>1
  <2>3. what \notin Clicks
    BY DEF Reports, Outcomes, Clicks, ButtonClicks
  <2> QED BY <2>1, <2>2, <2>3 DEF NoClickQueued
<1> QED BY <1>1, <1>2, <1>3

\* Shown for a call that rings, the window has its buttons.
LEMMA ShownIsAnswerable ==
    ASSUME window' = Showing("incoming") PROVE KeepsAnswerable
BY DEF Showing, KeepsAnswerable, CallIsAnswerable

\* Nothing is asked of the window when no call rings.
LEMMA NotRinging ==
    ASSUME context'.state # "ringing" PROVE KeepsAnswerable
BY DEF KeepsAnswerable, CallIsAnswerable

\* A call that rings on keeps its buttons if no click is taken from the queue.
LEMMA StillAnswerable ==
    ASSUME SameCall, window' = window, NoClickQueued' => NoClickQueued
    PROVE  KeepsAnswerable
BY DEF KeepsAnswerable, CallIsAnswerable, SameCall

\* _finish_local shows the call it promotes.
LEMMA FinishLocalAnswerable ==
    ASSUME CallInvariant, NEW state \in Terminal, NEW win, NEW bar,
           FinishLocal(state, win, bar)
    PROVE  KeepsAnswerable
<1>1. CASE waiting # NoCall
  BY <1>1, ShownIsAnswerable DEF FinishLocal
<1>2. CASE waiting = NoCall
  <2>1. context'.state # "ringing"
    BY <1>2 DEF FinishLocal, CallInvariant, TypeOK, CallsTyped, CallRecord, Live, LiveStates,
       Terminal
  <2> QED BY <2>1, NotRinging
<1> QED BY <1>1, <1>2

\* hangup ends a call that rings.
LEMMA HangupAnswerable ==
    ASSUME CallInvariant, Hangup
    PROVE  KeepsAnswerable
<1>1. CASE Live(context)
  BY <1>1, FinishLocalAnswerable DEF Hangup, Terminal
<1>2. CASE ~Live(context)
  <2>1. context'.state # "ringing"
    BY <1>2 DEF Hangup, callVars, Live, LiveStates
  <2> QED BY <2>1, NotRinging
<1> QED BY <1>1, <1>2

\* A caller only waits behind a call that does not ring.
LEMMA ClearWaitingAnswerable ==
    ASSUME CallInvariant, ClearWaiting, waiting # NoCall
    PROVE  KeepsAnswerable
<1>1. context'.state # "ringing"
  BY DEF ClearWaiting, CallInvariant, WaitingBehindActive
<1> QED BY <1>1, NotRinging

\* What the user does leaves a ringing call answerable, or is queued.
LEMMA UserAnswerable ==
    ASSUME CallInvariant, UserStep
    PROVE  KeepsAnswerable
<1>0. TypeOK /\ window \in WindowStates /\ idle \in Seq(Callbacks)
  BY DEF CallInvariant, TypeOK, UiTyped, QueueTyped
<1>1. ASSUME NEW sid \in OwnSids, StartOutgoing(sid) PROVE KeepsAnswerable
  <2>1. CASE Live(context)
    BY <1>0, <1>1, <2>1 DEF StartOutgoing, KeepsAnswerable, CallIsAnswerable, SameCall,
       NoClickQueued, WindowStates
  <2>2. CASE ~Live(context)
    <3>1. context'.state # "ringing"
      BY <1>1, <2>2 DEF StartOutgoing, OutgoingCall
    <3> QED BY <3>1, NotRinging
  <2> QED BY <2>1, <2>2
<1>2. CASE ToolbarHangup
  BY <1>2, HangupAnswerable DEF ToolbarHangup
<1>3. CASE ClickAccept \/ ClickDecline \/ ClickHangup \/ CloseWindow
  <2> PICK what \in Clicks, source \in {<<Shown, NoJid>>} : Queue(what, source)
    BY <1>3 DEF ClickAccept, ClickDecline, ClickHangup, CloseWindow, Click, Clicks, ButtonClicks
  <2> DEFINE callback == [what |-> what, source |-> source]
  <2>1. idle' = Append(idle, callback) /\ callback.what \in Clicks
    BY DEF Queue
  <2> HIDE DEF callback
  <2>2. Len(idle) + 1 \in DOMAIN idle' /\ idle'[Len(idle) + 1] = callback
    BY <1>0, <2>1
  <2>3. ~NoClickQueued'
    BY <2>1, <2>2 DEF NoClickQueued
  <2> QED BY <2>3 DEF KeepsAnswerable, CallIsAnswerable
<1>4. CASE Deactivate
  <2>1. context'.state # "ringing"
    BY <1>4 DEF Deactivate, NoCall
  <2> QED BY <2>1, NotRinging
<1> QED BY <1>1, <1>2, <1>3, <1>4 DEF UserStep

\* Whatever a click does when it runs, no call rings then without its buttons; and
\* a connection is that of a call that does not ring, or late.
LEMMA IdleAnswerable ==
    ASSUME CallInvariant, IdleStep
    PROVE  LateConnection \/ KeepsAnswerable
<1>0. TypeOK /\ context \in CallRecord /\ waiting \in CallRecord
  BY DEF CallInvariant, TypeOK, CallsTyped
<1>1. CASE AcceptWaiting \/ AcceptRinging \/ AcceptNothing
  <2>1. context'.state # "ringing"
    BY <1>0, <1>1 DEF AcceptWaiting, AcceptRinging, AcceptNothing, callVars, CallRecord
  <2> QED BY <2>1, NotRinging
<1>2. CASE LocalDescriptionReady \/ LocalCandidateReady
  <2>1. context' = context /\ window' = window
    BY <1>2 DEF LocalDescriptionReady, LocalCandidateReady, callVars, uiVars
  <2>2. NoClickQueued' => NoClickQueued
    BY <1>0, <1>2, ClicksStayQueued DEF LocalDescriptionReady, LocalCandidateReady, Reports
  <2> QED BY <2>1, <2>2, StillAnswerable DEF SameCall
<1>3. CASE Decline
  <2>1. CASE waiting # NoCall
    BY <1>3, <2>1, ClearWaitingAnswerable DEF Decline, DeclineWaiting
  <2>2. CASE waiting = NoCall /\ context = NoCall
    BY <1>3, <2>2, NotRinging DEF Decline, callVars, NoCall
  <2>3. CASE waiting = NoCall /\ context # NoCall
    BY <1>3, <2>3, FinishLocalAnswerable DEF Decline, Terminal
  <2> QED BY <2>1, <2>2, <2>3
<1>4. CASE HangupClicked \/ WindowClosed
  BY <1>4, HangupAnswerable, ClearWaitingAnswerable DEF HangupClicked, WindowClosed,
     DeclineWaiting
<1>5. CASE MediaConnected
  <2> SUFFICES ASSUME Source = media PROVE KeepsAnswerable
    BY <1>5 DEF LateConnection
  <2>1. media # NoEngine
    <3>1. Source \in Engines
      BY <1>0, <1>5, PopTypes DEF MediaConnected, CallInvariant, Reports, Outcomes
    <3> QED BY <3>1, Constants
  <2>2. context.state \in {"negotiating", "connected"}
    BY <2>1 DEF CallInvariant, MediaBelongsToCall
  <2>3. context'.state = "connected"
    BY <1>0, <1>5, <2>2 DEF MediaConnected, Live, LiveStates, CallRecord
  <2> QED BY <2>3, NotRinging
<1>6. CASE MediaFailed
  <2>1. CASE Live(context)
    BY <1>6, <2>1, FinishLocalAnswerable DEF MediaFailed, Terminal
  <2>2. CASE ~Live(context)
    BY <1>6, <2>2, NotRinging DEF MediaFailed, callVars, Live, LiveStates
  <2> QED BY <2>1, <2>2
<1> QED BY <1>1, <1>2, <1>3, <1>4, <1>5, <1>6 DEF IdleStep

\* A timeout ends the call that rings, or another.
LEMMA TimerAnswerable ==
    ASSUME CallInvariant, TimerStep \/ MediaStep
    PROVE  KeepsAnswerable
<1>0. TypeOK
  BY DEF CallInvariant
<1>1. CASE PhaseTimeout
  BY <1>1, FinishLocalAnswerable DEF PhaseTimeout, Terminal, CallInvariant, TimerIsOfCurrentPhase
<1>2. CASE WaitingTimeout
  <2>1. waiting # NoCall /\ DeclineWaiting
    BY <1>2 DEF WaitingTimeout, CallInvariant, WaitingBehindActive
  <2> QED BY <2>1, ClearWaitingAnswerable DEF DeclineWaiting
<1>3. CASE MediaStep
  <2>1. context' = context /\ window' = window
    BY <1>3 DEF MediaStep, EngineReports, callVars, uiVars
  <2>2. NoClickQueued' => NoClickQueued
    BY <1>0, <1>3, ClicksStayQueued DEF MediaStep, EngineReports
  <2> QED BY <2>1, <2>2, StillAnswerable DEF SameCall
<1> QED BY <1>1, <1>2, <1>3 DEF TimerStep

\* Every JMI message leaves a ringing call answerable.
LEMMA JmiAnswerable ==
    ASSUME CallInvariant,
           NEW from \in Devices, NEW sid \in Sids, JmiStep(from, sid)
    PROVE  KeepsAnswerable
<1>0. TypeOK /\ context \in CallRecord
  BY DEF CallInvariant, TypeOK, CallsTyped
<1>1. CASE LoseTieBreak(from, sid) \/ RingForProposal(from, sid)
  BY <1>1, ShownIsAnswerable DEF LoseTieBreak, RingForProposal, Ring
<1>2. CASE ProposalWaits(from, sid)
  BY <1>2, ShownIsAnswerable DEF ProposalWaits, ShowWaiting
<1>3. CASE MigrateCall(from, sid) \/ PeerRings(from, sid) \/ PeerProceeds(from, sid)
  <2>1. CASE MigrateCall(from, sid)
    BY <2>1, NotRinging DEF MigrateCall, IncomingCall
  <2>2. CASE PeerRings(from, sid)
    BY <2>2, NotRinging DEF PeerRings, callVars
  <2>3. CASE PeerProceeds(from, sid)
    <3>1. context'.state = "negotiating"
      BY <1>0, <2>3 DEF PeerProceeds, CallRecord
    <3> QED BY <3>1, NotRinging
  <2> QED BY <1>3, <2>1, <2>2, <2>3
<1>4. ASSUME NEW action \in JmiActions, WaitingCallerGone(from, action, sid)
      PROVE  KeepsAnswerable
  BY <1>4, ClearWaitingAnswerable DEF WaitingCallerGone, ForWaiting
<1>5. ASSUME NEW action \in JmiActions, PeerEndsByJmi(from, action, sid)
      PROVE  KeepsAnswerable
  BY <1>5, FinishLocalAnswerable DEF PeerEndsByJmi, Terminal
<1>6. CASE RejectExtraProposal(from, sid) \/ WinTieBreak(from, sid) \/ LateProceed(from, sid)
  <2>1. SameCall /\ window' = window /\ idle' = idle
    BY <1>0, <1>6 DEF RejectExtraProposal, WinTieBreak, LateProceed, Proposal, ForActiveCall,
       callVars, uiVars, CallRecord, SameCall
  <2> QED BY <1>0, <2>1, ClicksStayQueued, StillAnswerable
<1> QED BY <1>1, <1>2, <1>3, <1>4, <1>5, <1>6 DEF JmiStep

\* So does every Jingle IQ.
LEMMA JingleAnswerable ==
    ASSUME CallInvariant,
           NEW from \in Devices, NEW sid \in Sids, JingleStep(from, sid)
    PROVE  KeepsAnswerable
<1>0. TypeOK /\ context \in CallRecord
  BY DEF CallInvariant, TypeOK, CallsTyped
<1>1. CASE WaitingCallerTerminates(from, sid)
  BY <1>1, ClearWaitingAnswerable DEF WaitingCallerTerminates, ForWaiting
<1>2. CASE PeerTerminates(from, sid)
  BY <1>2, FinishLocalAnswerable DEF PeerTerminates, Terminal
<1>3. CASE RingForSession(from, sid) \/ SessionWaits(from, sid)
  BY <1>3, ShownIsAnswerable DEF RingForSession, Ring, SessionWaits, ShowWaiting
<1>4. CASE \/ WaitingCallerInitiates(from, sid) \/ WaitingCallerTrickles(from, sid)
           \/ RejectExtraSession(from, sid) \/ SessionAfterEnd(from, sid)
           \/ SessionInitiated(from, sid) \/ SessionAccepted(from, sid)
           \/ PeerTrickles(from, sid)
  <2>1. SameCall /\ window' = window /\ idle' = idle
    BY <1>0, <1>4 DEF WaitingCallerInitiates, WaitingCallerTrickles, RejectExtraSession,
       SessionAfterEnd, SessionInitiated, SessionAccepted, PeerTrickles, ForActiveSession,
       Claimed, callVars, uiVars, CallRecord, SameCall
  <2> QED BY <1>0, <2>1, ClicksStayQueued, StillAnswerable
<1> QED BY <1>1, <1>2, <1>3, <1>4 DEF JingleStep

\* A call that rings can be answered in the window unless the user has just
\* clicked, also one that waited and was promoted, and unless a connection that was
\* reported too late took its buttons away.
THEOREM RingingCallsCanBeAnswered == Spec => RingingCallCanBeAnswered
<1>1. Init => CallIsAnswerable
  BY DEF Init, CallIsAnswerable, NoCall
<1>2. CallInvariant /\ [Next]_vars
        => [LateConnection \/ CallIsAnswerable' \/ (~CallIsAnswerable /\ SameCall)]_vars
  <2> SUFFICES ASSUME CallInvariant, Next PROVE LateConnection \/ KeepsAnswerable
    BY DEF KeepsAnswerable
  <2> QED BY UserAnswerable, IdleAnswerable, TimerAnswerable, JmiAnswerable, JingleAnswerable
          DEF Next, NetworkStep
<1> QED BY <1>1, <1>2, InvariantHolds, PTL DEF Spec, RingingCallCanBeAnswered

-----------------------------------------------------------------------------
(* A live call can be ended.                                               *)

\* A click that ends a call, or turns one away, waits in the queue.
EndQueued == \E i \in DOMAIN idle : idle[i].what \in {"decline", "hangup"}

\* The toolbar button only offers to start a call beside a live one when the
\* user has clicked, and the click that will end it is still to run.
EndIsOffered == Live(context) /\ toolbar = "start" => EndQueued

\* Such a click stays queued until it runs.
LEMMA EndStaysQueued ==
    ASSUME TypeOK, EndQueued,
           \/ idle' = idle
           \/ \E what : \E source : Queue(what, source)
           \/ \E what : what \notin {"decline", "hangup"} /\ Pop(what)
    PROVE  EndQueued'
<1>0. idle \in Seq(Callbacks)
  BY DEF TypeOK, QueueTyped
<1> PICK i \in DOMAIN idle : idle[i].what \in {"decline", "hangup"}
  BY DEF EndQueued
<1>1. CASE idle' = idle
  BY <1>1 DEF EndQueued
<1>2. ASSUME NEW what, NEW source, Queue(what, source) PROVE EndQueued'
  <2> DEFINE callback == [what |-> what, source |-> source]
  <2>1. idle' = Append(idle, callback)
    BY <1>2 DEF Queue
  <2> HIDE DEF callback
  <2>2. i \in DOMAIN idle' /\ idle'[i] = idle[i]
    BY <1>0, <2>1
  <2> QED BY <2>2 DEF EndQueued
<1>3. ASSUME NEW what, what \notin {"decline", "hangup"}, Pop(what) PROVE EndQueued'
  <2>1. idle # <<>> /\ idle' = Tail(idle) /\ Head(idle).what = what
    BY <1>3 DEF Pop
  <2>2. i # 1
    BY <1>0, <1>3, <2>1
  <2>3. i - 1 \in DOMAIN idle' /\ idle'[i - 1] = idle[i]
    BY <1>0, <2>1, <2>2
  <2> QED BY <2>3 DEF EndQueued
<1> QED BY <1>1, <1>2, <1>3

\* Nothing is asked of the button without a call, or when it does not offer one.
LEMMA Offered == ASSUME ~Live(context)' \/ toolbar' # "start" PROVE EndIsOffered'
BY DEF EndIsOffered

\* A step that begins no call and leaves the button keeps what it offers.
LEMMA SameOffer ==
    ASSUME EndIsOffered, Live(context)' => Live(context), toolbar' = toolbar,
           EndQueued => EndQueued'
    PROVE  EndIsOffered'
BY DEF EndIsOffered

\* The button of a live call behind another is never the one to start a call.
LEMMA IndicatorOffers ==
    \A call : Live(call) => Indicator(call) # "start"
BY DEF Indicator

\* _finish_local offers to end the call it promotes, and else leaves none.
LEMMA FinishLocalOffers ==
    ASSUME CallInvariant, NEW state \in Terminal, NEW win, NEW bar,
           FinishLocal(state, win, bar)
    PROVE  EndIsOffered'
<1>1. CASE waiting # NoCall
  BY <1>1, Offered DEF FinishLocal
<1>2. CASE waiting = NoCall
  <2>1. ~Live(context)'
    BY <1>2 DEF FinishLocal, CallInvariant, TypeOK, CallsTyped, CallRecord, Live, LiveStates,
       Terminal
  <2> QED BY <2>1, Offered
<1> QED BY <1>1, <1>2

\* hangup ends the call.
LEMMA HangupOffers ==
    ASSUME CallInvariant, Hangup
    PROVE  EndIsOffered'
<1>1. CASE Live(context)
  BY <1>1, FinishLocalOffers DEF Hangup, Terminal
<1>2. CASE ~Live(context)
  BY <1>2, Offered DEF Hangup, callVars, Live
<1> QED BY <1>1, <1>2

\* _clear_waiting gives the button back to the active call.
LEMMA ClearWaitingOffers ==
    ASSUME ClearWaiting
    PROVE  EndIsOffered'
BY IndicatorOffers, Offered DEF ClearWaiting, Live

\* A click that sets the button to start a call is queued.
LEMMA UserOffers ==
    ASSUME CallInvariant, EndIsOffered, UserStep
    PROVE  EndIsOffered'
<1>0. TypeOK /\ idle \in Seq(Callbacks)
  BY DEF CallInvariant, TypeOK, QueueTyped
<1>1. ASSUME NEW sid \in OwnSids, StartOutgoing(sid) PROVE EndIsOffered'
  BY <1>1, Offered DEF StartOutgoing
<1>2. CASE ToolbarHangup
  BY <1>2, HangupOffers DEF ToolbarHangup
<1>3. CASE ClickAccept
  BY <1>3, Offered DEF ClickAccept, Click
<1>4. CASE ClickDecline \/ ClickHangup
  <2> PICK what \in {"decline", "hangup"}, source \in {<<Shown, NoJid>>} : Queue(what, source)
    BY <1>4 DEF ClickDecline, ClickHangup, Click
  <2> DEFINE callback == [what |-> what, source |-> source]
  <2>1. idle' = Append(idle, callback) /\ callback.what = what
    BY DEF Queue
  <2> HIDE DEF callback
  <2>2. Len(idle) + 1 \in DOMAIN idle' /\ idle'[Len(idle) + 1] = callback
    BY <1>0, <2>1
  <2> QED BY <2>1, <2>2 DEF EndQueued, EndIsOffered
<1>5. CASE CloseWindow
  <2>1. toolbar' = toolbar /\ context' = context
    BY <1>5 DEF CloseWindow, Click, callVars
  <2>2. EndQueued => EndQueued'
    BY <1>0, <1>5, EndStaysQueued DEF CloseWindow, Click
  <2> QED BY <2>1, <2>2, SameOffer DEF Live
<1>6. CASE Deactivate
  BY <1>6, Offered DEF Deactivate, NoCall, Live, LiveStates
<1> QED BY <1>1, <1>2, <1>3, <1>4, <1>5, <1>6 DEF UserStep

\* Such a click ends the call when it runs, or sets the button right.
LEMMA IdleOffers ==
    ASSUME CallInvariant, EndIsOffered, IdleStep
    PROVE  EndIsOffered'
<1>0. TypeOK
  BY DEF CallInvariant
<1>1. CASE AcceptWaiting \/ AcceptRinging
  BY <1>1, Offered DEF AcceptWaiting, AcceptRinging
<1>2. CASE AcceptNothing \/ LocalDescriptionReady \/ LocalCandidateReady
  <2>1. context' = context /\ toolbar' = toolbar
    BY <1>2 DEF AcceptNothing, LocalDescriptionReady, LocalCandidateReady, callVars, uiVars
  <2>2. EndQueued => EndQueued'
    <3>1. \E what \in {"accept", "description", "candidate"} : Pop(what)
      BY <1>2 DEF AcceptNothing, LocalDescriptionReady, LocalCandidateReady
    <3> QED BY <1>0, <3>1, EndStaysQueued
  <2> QED BY <2>1, <2>2, SameOffer DEF Live
<1>3. CASE Decline
  <2>1. CASE waiting # NoCall
    BY <1>3, <2>1, ClearWaitingOffers DEF Decline, DeclineWaiting
  <2>2. CASE waiting = NoCall /\ context = NoCall
    BY <1>3, <2>2, Offered DEF Decline, callVars, NoCall, Live, LiveStates
  <2>3. CASE waiting = NoCall /\ context # NoCall
    BY <1>3, <2>3, FinishLocalOffers DEF Decline, Terminal
  <2> QED BY <2>1, <2>2, <2>3
<1>4. CASE HangupClicked \/ WindowClosed
  BY <1>4, HangupOffers, ClearWaitingOffers DEF HangupClicked, WindowClosed, DeclineWaiting
<1>5. CASE MediaConnected
  <2>1. CASE Live(context)
    BY <1>5, <2>1, Offered DEF MediaConnected
  <2>2. CASE ~Live(context)
    BY <1>5, <2>2, Offered DEF MediaConnected, Live
  <2> QED BY <2>1, <2>2
<1>6. CASE MediaFailed
  <2>1. CASE Live(context)
    BY <1>6, <2>1, FinishLocalOffers DEF MediaFailed, Terminal
  <2>2. CASE ~Live(context)
    BY <1>6, <2>2, Offered DEF MediaFailed, callVars, Live
  <2> QED BY <2>1, <2>2
<1> QED BY <1>1, <1>2, <1>3, <1>4, <1>5, <1>6 DEF IdleStep

\* Timeouts end calls, and reports are only queued.
LEMMA TimerOffers ==
    ASSUME CallInvariant, EndIsOffered, TimerStep \/ MediaStep
    PROVE  EndIsOffered'
<1>0. TypeOK
  BY DEF CallInvariant
<1>1. CASE PhaseTimeout
  BY <1>1, FinishLocalOffers DEF PhaseTimeout, Terminal, CallInvariant, TimerIsOfCurrentPhase
<1>2. CASE WaitingTimeout
  <2>1. DeclineWaiting
    BY <1>2 DEF WaitingTimeout, CallInvariant, WaitingBehindActive
  <2> QED BY <2>1, ClearWaitingOffers DEF DeclineWaiting
<1>3. CASE MediaStep
  <2>1. context' = context /\ toolbar' = toolbar
    BY <1>3 DEF MediaStep, EngineReports, callVars, uiVars
  <2>2. EndQueued => EndQueued'
    BY <1>0, <1>3, EndStaysQueued DEF MediaStep, EngineReports
  <2> QED BY <2>1, <2>2, SameOffer DEF Live
<1> QED BY <1>1, <1>2, <1>3 DEF TimerStep

\* Every JMI message leaves an offer to end the call, or the call as it was.
LEMMA JmiOffers ==
    ASSUME CallInvariant, EndIsOffered,
           NEW from \in Devices, NEW sid \in Sids, JmiStep(from, sid)
    PROVE  EndIsOffered'
<1>0. TypeOK /\ context \in CallRecord
  BY DEF CallInvariant, TypeOK, CallsTyped
<1>1. CASE \/ MigrateCall(from, sid) \/ LoseTieBreak(from, sid)
           \/ RingForProposal(from, sid) \/ PeerRings(from, sid) \/ PeerProceeds(from, sid)
  BY <1>1, Offered DEF MigrateCall, LoseTieBreak, RingForProposal, Ring, PeerRings, PeerProceeds
<1>2. CASE ProposalWaits(from, sid)
  BY <1>2, IndicatorOffers, Offered DEF ProposalWaits, ShowWaiting, Live
<1>3. ASSUME NEW action \in JmiActions,
             WaitingCallerGone(from, action, sid) \/ PeerEndsByJmi(from, action, sid)
      PROVE  EndIsOffered'
  BY <1>3, ClearWaitingOffers, FinishLocalOffers DEF WaitingCallerGone, PeerEndsByJmi, Terminal
<1>4. CASE RejectExtraProposal(from, sid) \/ WinTieBreak(from, sid) \/ LateProceed(from, sid)
  <2>1. context'.state = context.state /\ toolbar' = toolbar /\ idle' = idle
    BY <1>0, <1>4 DEF RejectExtraProposal, WinTieBreak, LateProceed, Proposal, ForActiveCall,
       callVars, uiVars, CallRecord
  <2> QED BY <1>0, <2>1, EndStaysQueued, SameOffer DEF Live
<1> QED BY <1>1, <1>2, <1>3, <1>4 DEF JmiStep

\* So does every Jingle IQ.
LEMMA JingleOffers ==
    ASSUME CallInvariant, EndIsOffered,
           NEW from \in Devices, NEW sid \in Sids, JingleStep(from, sid)
    PROVE  EndIsOffered'
<1>0. TypeOK /\ context \in CallRecord
  BY DEF CallInvariant, TypeOK, CallsTyped
<1>1. CASE WaitingCallerTerminates(from, sid) \/ PeerTerminates(from, sid)
  BY <1>1, ClearWaitingOffers, FinishLocalOffers DEF WaitingCallerTerminates, PeerTerminates,
     Terminal
<1>2. CASE RingForSession(from, sid)
  BY <1>2, Offered DEF RingForSession, Ring
<1>3. CASE SessionWaits(from, sid)
  BY <1>3, IndicatorOffers, Offered DEF SessionWaits, ShowWaiting, Live
<1>4. CASE \/ WaitingCallerInitiates(from, sid) \/ WaitingCallerTrickles(from, sid)
           \/ RejectExtraSession(from, sid) \/ SessionAfterEnd(from, sid)
           \/ SessionInitiated(from, sid) \/ SessionAccepted(from, sid)
           \/ PeerTrickles(from, sid)
  <2>1. context'.state = context.state /\ toolbar' = toolbar /\ idle' = idle
    BY <1>0, <1>4 DEF WaitingCallerInitiates, WaitingCallerTrickles, RejectExtraSession,
       SessionAfterEnd, SessionInitiated, SessionAccepted, PeerTrickles, ForActiveSession,
       Claimed, callVars, uiVars, CallRecord
  <2> QED BY <1>0, <2>1, EndStaysQueued, SameOffer DEF Live
<1> QED BY <1>1, <1>2, <1>3, <1>4 DEF JingleStep

\* While a call is live the toolbar button offers to end it, unless the user has
\* just clicked: whichever call was turned away, promoted or replaced, and with
\* outcomes of closed engines too.
THEOREM LiveCallsCanBeEnded == Spec => []LiveCallCanBeEnded
<1>1. Init => EndIsOffered
  BY DEF Init, EndIsOffered, NoCall, Live, LiveStates
<1>2. CallInvariant /\ EndIsOffered /\ [Next]_vars => EndIsOffered'
  <2> SUFFICES ASSUME CallInvariant, EndIsOffered, [Next]_vars PROVE EndIsOffered'
    OBVIOUS
  <2>1. CASE Next
    BY <2>1, UserOffers, IdleOffers, TimerOffers, JmiOffers, JingleOffers DEF Next, NetworkStep
  <2>2. CASE UNCHANGED vars
    BY <2>2 DEF vars, callVars, uiVars, EndIsOffered, EndQueued, Live
  <2> QED BY <2>1, <2>2
<1>3. EndIsOffered => LiveCallCanBeEnded
  BY DEF EndIsOffered, EndQueued, LiveCallCanBeEnded, NoClickQueued, Clicks, ButtonClicks
<1> QED BY <1>1, <1>2, <1>3, InvariantHolds, PTL DEF Spec
=============================================================================
