--------------------------- MODULE CallProperties ---------------------------
(***************************************************************************)
(* What the call controller promises.                                      *)
(***************************************************************************)
EXTENDS CallController

WindowStates == [visible: BOOLEAN, controls: {"none", "incoming", "active"},
                 sensitive: BOOLEAN]

TimerStates == [sid: Sids \cup {NoSid}, phase: TimeoutPhases \cup {"none"}]

CallsTyped ==
    /\ context \in CallRecord /\ waiting \in CallRecord
    /\ pendingOffer \in BOOLEAN /\ waitingOffer \in BOOLEAN

MediaTyped ==
    /\ media \in Engines \cup {NoEngine}
    /\ localDescription \in Engines \cup {NoEngine}
    /\ pendingLocal \in Seq(Engines)
    /\ early \subseteq Sids
    /\ engines \in [Engines -> {"none", "open", "closed"}]
    /\ answered \subseteq Engines

TimersTyped == phaseTimer \in TimerStates /\ waitTimer \in Sids \cup {NoSid}

UiTyped ==
    /\ alert \in Sids \cup {NoSid}
    /\ window \in WindowStates
    /\ toolbar \in {"start", "cancel", "hangup"}

NetworkTyped ==
    /\ attached \in BOOLEAN
    /\ openings \subseteq Openings
    /\ sent \in Seq(Stanzas)

QueueTyped == idle \in Seq(Callbacks) /\ reports \subseteq Engines \X Reports

\* Every variable keeps to its type.
TypeOK == /\ CallsTyped /\ MediaTyped /\ TimersTyped
          /\ UiTyped /\ NetworkTyped /\ QueueTyped

-----------------------------------------------------------------------------
(* Call waiting.                                                           *)

\* A second caller is only ever kept waiting behind a call that is going on,
\* under a session id of its own, and always with the timeout armed that will
\* reject it: it is never left behind when the call in front of it ends,
\* fails, times out, is switched or is migrated (call_waiting.py).
WaitingBehindActive ==
    IF waiting = NoCall THEN waitTimer = NoSid /\ ~waitingOffer
    ELSE /\ context.state \in {"negotiating", "connected"}
         /\ waiting.sid # context.sid
         /\ waiting.state = "ringing" /\ waiting.incoming
         /\ waiting.full \in Devices
         /\ waitTimer = waiting.sid
         /\ ~waiting.jmi => waitingOffer

\* The ringtone and the notification are those of the call the user can answer:
\* the waiting call, else the call that rings; with no such call it is silent
\* (the start and stop calls spread over three classes, alerts.py).
AlertIsForRingingCall ==
    alert = IF waiting # NoCall THEN waiting.sid
            ELSE IF context.state = "ringing" THEN context.sid ELSE NoSid

\* Remote candidates are buffered only for a call that still has no engine to
\* give them to, so none outlive their call or wait beside its engine
\* (RemoteCandidateBuffer and its discard calls).
EarlyCandidatesHaveOwner ==
    \A sid \in early : \/ ForWaiting(sid)
                       \/ ForContext(sid) /\ Live(context) /\ media = NoEngine

-----------------------------------------------------------------------------
(* Timeouts.                                                               *)

\* A phase timeout that is armed is the one of the current call in its current
\* phase: no timeout of an ended, switched or migrated call is left to fire on
\* its successor (_arm_phase_timeout and _cancel_phase_timeout).
TimerIsOfCurrentPhase ==
    phaseTimer # NoTimer => /\ phaseTimer.sid = context.sid
                            /\ context.state \in PhaseStates(phaseTimer.phase)

\* What the properties excuse by name: an engine's outcome that runs when the engine
\* is no longer the one the controller holds, so its call is over, and hits the
\* call that is there now (media_engine.py:203-204).
LateConnection == MediaConnected /\ Source # media
LateFailure == MediaFailed /\ Source # media

SameCall == context'.sid = context.sid /\ context'.state = context.state

CallIsTimed ==
    context.state \in {"proposing", "ringing", "negotiating"} => phaseTimer # NoTimer

\* A call that is proposing, ringing or negotiating has its timeout armed, so it
\* cannot stay so for ever.  Only a connection that is reported too late disarms
\* the timeout, and only until there is another call or another phase
\* (controller_runtime.py, _arm_phase_timeout).
TransientCallIsTimed ==
    CallIsTimed /\ [][LateConnection \/ CallIsTimed' \/ (~CallIsTimed /\ SameCall)]_vars

-----------------------------------------------------------------------------
(* Media.                                                                  *)

\* The engine the controller holds was started for its current call, which is
\* negotiating or connected, and has not been closed.
MediaBelongsToCall ==
    media # NoEngine => /\ engines[media] = "open"
                        /\ media[1] = context.sid
                        /\ context.state \in {"negotiating", "connected"}

CallHasMedia ==
    context.state = "connected" => /\ media = <<context.sid, context.full>>
                                   /\ localDescription = media

\* A connected call has an engine that speaks to the selected device and was
\* described to it.  Only a connection that is reported too late makes a call
\* connected that has none (controller.py, _on_media_connected).
ConnectedCallHasMedia ==
    CallHasMedia /\ [][LateConnection \/ CallHasMedia' \/ (~CallHasMedia /\ SameCall)]_vars

\* No engine is left open that the controller does not hold: the microphone is
\* never captured for a call that is not there.
NoEngineLeaks == \A e \in Engines : engines[e] = "open" => e = media

\* A candidate is only sent after the description of the engine it came from,
\* to the device and in the session that description went to.
CandidateFollowsDescription ==
    [][\A i \in DOMAIN sent' : sent'[i].action = "transport-info" =>
          /\ sent'[i].media = localDescription'
          /\ sent'[i].sid = sent'[i].media[1]
          /\ sent'[i].to = sent'[i].media[2]]_vars

-----------------------------------------------------------------------------
(* The user interface.                                                     *)

NoClickQueued == \A i \in DOMAIN idle : idle[i].what \notin Clicks

CallIsAnswerable ==
    NoClickQueued /\ context.state = "ringing" =>
        window.visible /\ window.controls = "incoming" /\ window.sensitive

\* A ringing call can be answered: unless the user has just done something, the
\* window shows it with its buttons.  That includes a call that was waiting and
\* was promoted when the call in front of it ended (_finish_local).  Only a
\* connection that is reported too late takes the buttons of a ringing call away.
RingingCallCanBeAnswered ==
    CallIsAnswerable
        /\ [][LateConnection \/ CallIsAnswerable' \/ (~CallIsAnswerable /\ SameCall)]_vars

\* A live call can always be ended: unless the user has just clicked, the
\* toolbar button hangs up instead of starting another call.
LiveCallCanBeEnded == NoClickQueued /\ Live(context) => toolbar # "start"

-----------------------------------------------------------------------------
(* Action properties.                                                      *)

EndStanza(sid) == \E i \in DOMAIN sent' :
    /\ sent'[i].sid = sid
    /\ sent'[i].action \in {"reject", "retract", "finish", "session-terminate"}

Over(sid) == ~(ForContext(sid) /\ Live(context)) /\ ~ForWaiting(sid)

\* Decline was clicked for a caller who has gone since, and ends the call in front,
\* which this side placed: decline() tells nobody of it (controller.py:248-266).
DeclinesAnother ==
    Decline /\ waiting = NoCall /\ ~context.incoming /\ Source[1] # context.sid

\* Nobody is left hanging: when this side ends a call or turns a waiting caller
\* away, by a click, a timeout, a media failure, a switch, a lost tie-break or
\* a migration, it tells the peer so in the same step.  It does not when decline
\* ends another call than the one it was clicked for, when the failure of another
\* call's engine ends a call that rings without JMI, and when it is deactivated.
PeerIsTold ==
    [][\A sid \in Sids : ~Over(sid) /\ Over(sid)' =>
          \/ EndStanza(sid)
          \/ \E from \in Devices : \/ PeerTerminates(from, sid)
                                   \/ WaitingCallerTerminates(from, sid)
                                   \/ \E action \in JmiActions :
                                         \/ PeerEndsByJmi(from, action, sid)
                                         \/ WaitingCallerGone(from, action, sid)
          \/ DeclinesAnother
          \/ LateFailure /\ context.state = "ringing" /\ ~context.jmi
          \/ Deactivate]_vars
-----------------------------------------------------------------------------
(* The inductive invariant of CallControllerProofs.                        *)

WellFormed(call) ==
    call = NoCall \/ /\ call.sid \in Sids /\ call.peer \in Peers
                     /\ call.state # "none"

\* A call that is not None names a session and a contact, a call that is proposed is
\* outgoing, and one that rings is incoming and names the device that called.
CallsWellFormed ==
    /\ WellFormed(context) /\ WellFormed(waiting)
    /\ context.state = "proposing" => ~context.incoming
    /\ context.state = "ringing" => context.incoming /\ context.full \in Devices

\* A queued report names the engine it comes from.
ReportsNameEngines ==
    \A i \in DOMAIN idle : idle[i].what \in Reports => idle[i].source \in Engines

\* Every call was opened by a proposal, or by a caller that does not send any.
CallsWereOpened ==
    \A call \in {context, waiting} :
        call = NoCall \/ Proposed(call.sid) \/ call.sid \in Direct

CallInvariant ==
    /\ TypeOK /\ ReportsNameEngines
    /\ CallsWellFormed /\ CallsWereOpened
    /\ WaitingBehindActive /\ AlertIsForRingingCall
    /\ TimerIsOfCurrentPhase /\ MediaBelongsToCall

-----------------------------------------------------------------------------
(* The controller implements CallLifecycle: whatever the order in which    *)
(* stanzas, clicks, timeouts and media reports arrive, the calls the user  *)
(* sees move only along its transitions.                                   *)

Phase(sid) == IF ForContext(sid) /\ Live(context) THEN context.state
              ELSE IF ForWaiting(sid) THEN "waiting" ELSE "none"

Lifecycle == INSTANCE CallLifecycle
    WITH phase <- [sid \in Sids |-> Phase(sid)], on <- attached

\* One call at a time with one caller waiting, as in CallLifecycle.
ImplementsLifecycle == Lifecycle!Spec

-----------------------------------------------------------------------------
(* Liveness, under the fairness of FairSpec.                               *)

\* No call stays proposing, ringing or negotiating for ever: it connects or it
\* ends, by the phase timeout if by nothing else (timeout_policy.py).
TransientCallsEnd ==
    \A sid \in Sids, state \in LiveStates \ {"connected"} :
        context.sid = sid /\ context.state = state
            ~> ~(context.sid = sid /\ context.state = state)

\* No caller is kept waiting for ever.
WaitingCallersAreServed == \A sid \in Sids : ForWaiting(sid) ~> ~ForWaiting(sid)

-----------------------------------------------------------------------------
(* What the repository says and the code does not keep.                    *)

\* call_waiting.py: closing the window of a waiting caller is "equivalent to
\* declining the waiting call, not hanging up the active one": a connected call is
\* hung up only if it was the call the window showed when it was closed.
ClosingKeepsActiveCall ==
    [][WindowClosed /\ context.state = "connected" /\ context.sid # Source[1]
         => UNCHANGED context]_vars

\* controller_runtime.py: "Ignoring late media-connected callback for
\* cancelled/ended call" (and late media failures): the report of an engine that
\* was closed with its call changes no call.
LateReportsAreIgnored ==
    [][(MediaConnected \/ MediaFailed) /\ engines[Source] = "closed"
         => UNCHANGED <<context, waiting>>]_vars
=============================================================================
