--------------------------- MODULE CallController ---------------------------
(***************************************************************************)
(* The composed call controller                                            *)
(*   JMIMigrationController(CallWaitingController(                         *)
(*     RuntimeCallController(CallController)))                             *)
(* with the stanza gate of module.py above it, and the call window, the    *)
(* toolbar button and the incoming-call alert it drives below it.          *)
(*                                                                         *)
(* Everything runs on GLib's main loop.  Stanzas, timeouts and GTK events  *)
(* have a higher priority than idle callbacks, so each of them may run     *)
(* between the moment a window button is clicked, or a media engine        *)
(* reports, and the moment the callback queued with idle_add runs: `idle`  *)
(* is that queue, and one handler is one atomic action.                    *)
(*                                                                         *)
(* Contacts keep to their role in the protocols, but from one stanza to    *)
(* the next they may choose any action that is legal for them, and two     *)
(* devices of a contact may answer the same call.  XMPP streams neither    *)
(* duplicate nor reorder, so an opening stanza (propose, proceed,          *)
(* session-initiate) of a device for a session id is delivered once.       *)
(***************************************************************************)
EXTENDS CallSignalling

CONSTANTS
    MaxIdle,      \* bound: clicks and reports waiting in the idle queue
    StaleReports  \* whether the controller may get to hear that an engine it no
                  \* longer holds has connected or failed

ASSUME EnvironmentAssumption == MaxIdle \in Nat /\ StaleReports \in BOOLEAN

VARIABLES
    context,           \* self.context
    waiting,           \* self._waiting_context
    pendingOffer,      \* self._pending_offer is not None
    waitingOffer,      \* self._waiting_offer is not None
    media,             \* self.media
    localDescription,  \* the engine self._local_description came from
    pendingLocal,      \* the engines of self._pending_local_candidates
    early,             \* the session ids in self._early_remote_candidates
    phaseTimer,        \* the armed phase timeout: session id and phase
    waitTimer,         \* the session id of the armed waiting timeout
    alert,             \* IncomingCallAlerts._sid
    window,            \* CallWindow: shown, which controls, sensitive
    toolbar,           \* the toolbar button: _call_active and _call_connected
    idle,              \* callbacks queued with GLib.idle_add
    sent,              \* the stanzas sent by the last step
    attached,          \* module._controller is not None
    engines,           \* each media facade: "none", "open" or "closed"
    answered,          \* engines that were given a remote description
    reports,           \* what each engine has already reported
    openings           \* opening stanzas exchanged so far

callVars == <<context, waiting, pendingOffer, waitingOffer>>
mediaVars == <<media, localDescription, pendingLocal, early, engines, answered>>
timerVars == <<phaseTimer, waitTimer>>
uiVars == <<alert, window, toolbar>>
networkVars == <<attached, openings>>
vars == <<callVars, mediaVars, timerVars, uiVars, networkVars,
          idle, sent, reports>>

-----------------------------------------------------------------------------
NoTimer == [sid |-> NoSid, phase |-> "none"]
Timer(sid, phase) == [sid |-> sid, phase |-> phase]

ButtonClicks == {"accept", "decline", "hangup"}
Clicks == ButtonClicks \cup {"close"}
Outcomes == {"connected", "failed"}
Reports == {"description", "candidate"} \cup Outcomes
Callbacks == [what: Clicks \cup Reports,
              source: (Sids \cup {NoSid}) \X (Devices \cup {NoJid})]
Openings == Sids \X (Devices \cup {NoJid})
                 \X {"propose", "proceed", "session-initiate"}

Init ==
    /\ context = NoCall /\ waiting = NoCall
    /\ pendingOffer = FALSE /\ waitingOffer = FALSE
    /\ media = NoEngine /\ localDescription = NoEngine
    /\ pendingLocal = <<>> /\ early = {}
    /\ engines = [e \in Engines |-> "none"] /\ answered = {}
    /\ phaseTimer = NoTimer /\ waitTimer = NoSid
    /\ alert = NoSid /\ toolbar = "start"
    /\ window = [visible |-> FALSE, controls |-> "none", sensitive |-> TRUE]
    /\ idle = <<>> /\ sent = <<>> /\ reports = {}
    /\ attached = TRUE /\ openings = {}

\* Whether a step other than the queued callbacks may come next.  A report gets
\* stale when a step closes its engine before the report runs.
MayOvertake ==
    StaleReports \/ \A i \in DOMAIN idle : idle[i].what \notin Outcomes

-----------------------------------------------------------------------------
(* The user interface.                                                     *)

\* Mutant: the buttons are not made sensitive again for the next call.
ShowingInsensitive(controls) ==
    [visible |-> TRUE, controls |-> controls, sensitive |-> window.sensitive]

\* show_outgoing and show_incoming
Showing(controls) ==
    [visible |-> TRUE, controls |-> controls, sensitive |-> TRUE]

\* set_status("Connecting...") and set_status("Ringing...")
WithActiveControls(win) ==
    [win EXCEPT !.controls = "active", !.sensitive = TRUE]

\* set_status("Call ended") and set_status("Call declined")
Enabled(win) == [win EXCEPT !.sensitive = TRUE]

Hidden(win) == [win EXCEPT !.visible = FALSE]

\* Mutant: the button forgets the active call behind a waiting one.
IndicatorOfRinging(call) == IF call.state = "ringing" THEN "cancel" ELSE "start"

\* set_call_active as _restore_active_indicator calls it
Indicator(call) == IF call.state = "connected" THEN "hangup"
                   ELSE IF Live(call) THEN "cancel" ELSE "start"

\* Mutant: the alert of another call is taken for this one's.
SilencedOther(sid) == IF alert # sid THEN NoSid ELSE alert

\* IncomingCallAlerts.stop(sid)
Silenced(sid) == IF alert = sid THEN NoSid ELSE alert

\* The session id of the call the window shows to the user.
Shown == IF waiting # NoCall THEN waiting.sid ELSE context.sid

-----------------------------------------------------------------------------
(* Parts of handlers.                                                      *)

JingleStarted == IF context.incoming THEN pendingOffer
                                     ELSE localDescription # NoEngine

\* One transport-info for each queued local candidate.
Candidates(queued) ==
    [i \in DOMAIN queued |->
       Carry(context.full, "transport-info", context.sid, queued[i])]

\* Mutant: the engine is dropped without being closed.
CloseMediaLeaking == media' = NoEngine /\ UNCHANGED engines

\* Mutant: the engine is closed but still held.
CloseMediaHeld ==
    /\ UNCHANGED media
    /\ engines' = IF media = NoEngine THEN engines
                  ELSE [engines EXCEPT ![media] = "closed"]

CloseMedia ==
    /\ media' = NoEngine
    /\ engines' = IF media = NoEngine THEN engines
                  ELSE [engines EXCEPT ![media] = "closed"]

\* Mutant: the ended call's description is taken for its successor's.
RememberDescriptions == UNCHANGED <<localDescription, pendingLocal>>

ForgetDescriptions == localDescription' = NoEngine /\ pendingLocal' = <<>>

\* Mutant: the buffered candidates are not flushed.
StartMediaUnflushed(sid, device, answerer) ==
    /\ media' = <<sid, device>>
    /\ engines' = [engines EXCEPT ![<<sid, device>>] = "open"]
    /\ answered' = IF answerer THEN answered \cup {<<sid, device>>} ELSE answered
    /\ UNCHANGED <<localDescription, pendingLocal, early>>

\* _start_media: an answerer is given the remote offer at once, and the
\* candidates buffered for the call are flushed to the new engine.  The
\* engine that self.media held before is not closed.  Nothing here raises: the facade
\* does its work in a thread of its own, whose failure is a report.
StartMedia(sid, device, answerer) ==
    /\ media' = <<sid, device>>
    /\ engines' = [engines EXCEPT ![<<sid, device>>] = "open"]
    /\ answered' = IF answerer THEN answered \cup {<<sid, device>>} ELSE answered
    /\ early' = early \ {sid}
    /\ UNCHANGED <<localDescription, pendingLocal>>

\* Mutant: the waiting timeout is not cancelled.
NoWaitingButTimed == waiting' = NoCall /\ waitingOffer' = FALSE /\ UNCHANGED waitTimer

NoWaiting == waiting' = NoCall /\ waitingOffer' = FALSE /\ waitTimer' = NoSid

\* _finish_local, with the window and the toolbar as its caller left them: a
\* waiting call is promoted to a normal ringing call.
FinishLocal(state, win, bar) ==
    /\ CloseMedia
    /\ ForgetDescriptions
    /\ early' = early \ {context.sid}
    /\ alert' = Silenced(context.sid)
    /\ NoWaiting
    /\ IF waiting # NoCall
         THEN /\ context' = waiting
              /\ pendingOffer' = waitingOffer
              /\ phaseTimer' = Timer(waiting.sid, "ringing")
              /\ window' = Showing("incoming")
              /\ toolbar' = "cancel"
         ELSE /\ context' = IF Live(context)
                              THEN [context EXCEPT !.state = state] ELSE context
              /\ pendingOffer' = FALSE
              /\ phaseTimer' = NoTimer
              /\ window' = Hidden(win)
              /\ toolbar' = bar
    /\ UNCHANGED answered

\* Mutant: the active call's engine is closed with the waiting call.
ClearWaitingAndMedia ==
    /\ NoWaiting
    /\ CloseMedia
    /\ early' = early \ {waiting.sid}
    /\ alert' = Silenced(waiting.sid)
    /\ window' = Hidden(window)
    /\ toolbar' = Indicator(context)
    /\ UNCHANGED <<context, pendingOffer, phaseTimer, localDescription,
                   pendingLocal, answered>>

\* _clear_waiting
ClearWaiting ==
    /\ NoWaiting
    /\ early' = early \ {waiting.sid}
    /\ alert' = Silenced(waiting.sid)
    /\ window' = Hidden(window)
    /\ toolbar' = Indicator(context)
    /\ UNCHANGED <<context, pendingOffer, phaseTimer, media, localDescription,
                   pendingLocal, engines, answered>>

\* _decline_waiting
DeclineWaiting ==
    /\ sent' = <<Say(waiting.full, IF waiting.jmi THEN "reject"
                                   ELSE "session-terminate", waiting.sid)>>
    /\ ClearWaiting

\* Mutant: no timeout is armed for the ringing call.
RingUntimed(sid, from, jmi) ==
    /\ context' = IncomingCall(sid, from, "ringing", jmi)
    /\ alert' = sid
    /\ window' = Showing("incoming")
    /\ toolbar' = "cancel"
    /\ phaseTimer' = NoTimer

\* A new incoming call rings: handle_jmi's and handle_jingle's last branches.
Ring(sid, from, jmi) ==
    /\ context' = IncomingCall(sid, from, "ringing", jmi)
    /\ alert' = sid
    /\ window' = Showing("incoming")
    /\ toolbar' = "cancel"
    /\ phaseTimer' = Timer(sid, "ringing")

\* Mutant: no timeout is armed for the waiting call.
ShowWaitingUntimed(sid, from, jmi) ==
    /\ waiting' = IncomingCall(sid, from, "ringing", jmi)
    /\ waitingOffer' = ~jmi
    /\ waitTimer' = NoSid
    /\ alert' = sid
    /\ window' = Showing("incoming")
    /\ toolbar' = Indicator(context)
    /\ UNCHANGED <<context, pendingOffer, phaseTimer, mediaVars>>

\* _show_waiting
ShowWaiting(sid, from, jmi) ==
    /\ waiting' = IncomingCall(sid, from, "ringing", jmi)
    /\ waitingOffer' = ~jmi
    /\ waitTimer' = sid
    /\ alert' = sid
    /\ window' = Showing("incoming")
    /\ toolbar' = Indicator(context)
    /\ UNCHANGED <<context, pendingOffer, phaseTimer, mediaVars>>

-----------------------------------------------------------------------------
(* Hanging up.                                                             *)

\* Mutant: a negotiating call whose session was not opened is dropped silently.
HangupStanzasWithoutFinish ==
    CASE context.state = "proposing" ->
           <<Say(context.peer, "retract", context.sid)>>
      [] context.state = "ringing" ->
           <<Say(Target(context), "reject", context.sid)>>
      [] OTHER ->
           When(context.full # NoJid /\ JingleStarted,
                Say(context.full, "session-terminate", context.sid))

HangupStanzas ==
    CASE context.state = "proposing" ->
           <<Say(context.peer, "retract", context.sid)>>
      [] context.state = "ringing" ->
           <<Say(Target(context), "reject", context.sid)>>
      [] context.state = "negotiating" ->
           When(context.full # NoJid /\ JingleStarted,
                Say(context.full, "session-terminate", context.sid))
           \o When(context.jmi, Say(Target(context), "finish", context.sid))
      [] OTHER ->
           <<Say(Target(context), "session-terminate", context.sid),
             Say(Target(context), "finish", context.sid)>>

Hangup ==
    IF Live(context)
      THEN /\ sent' = HangupStanzas
           /\ FinishLocal("ended", window, "start")
      ELSE /\ sent' = <<>>
           /\ alert' = Silenced(context.sid)
           /\ window' = Hidden(window)
           /\ toolbar' = "start"
           /\ UNCHANGED <<callVars, mediaVars, timerVars>>

-----------------------------------------------------------------------------
(* The user.  A button of the window changes the window at once and queues *)
(* the controller's method; the toolbar button calls it directly.          *)

StartOutgoing(sid) ==
    /\ attached /\ MayOvertake
    /\ toolbar = "start"
    /\ <<sid, NoJid, "propose">> \notin openings
    /\ toolbar' = "cancel"
    /\ IF Live(context)   \* "Another call is already active"
         THEN /\ window' = [window EXCEPT !.visible = TRUE]
              /\ sent' = <<>>
              /\ UNCHANGED <<context, phaseTimer, openings>>
         ELSE /\ context' = OutgoingCall(sid)
              /\ window' = Showing("active")
              /\ phaseTimer' = Timer(sid, "ringing")
              /\ sent' = <<Say(Party[sid], "propose", sid)>>
              /\ openings' = openings \cup {<<sid, NoJid, "propose">>}
    /\ UNCHANGED <<waiting, pendingOffer, waitingOffer, mediaVars, waitTimer,
                   alert, idle, reports, attached>>

ToolbarHangup ==
    /\ attached /\ MayOvertake
    /\ toolbar # "start"
    /\ Hangup
    /\ UNCHANGED <<idle, reports, networkVars>>

Queue(what, source) ==
    /\ Len(idle) < MaxIdle
    /\ idle' = Append(idle, [what |-> what, source |-> source])

Click(what, win, bar) ==
    /\ MayOvertake
    /\ window.visible
    /\ window' = win
    /\ toolbar' = bar
    /\ sent' = <<>>
    /\ Queue(what, <<Shown, NoJid>>)
    /\ UNCHANGED <<callVars, mediaVars, timerVars, alert, reports, networkVars>>

ClickAccept ==
    /\ window.controls = "incoming" /\ window.sensitive
    /\ Click("accept", WithActiveControls(window), "cancel")

ClickDecline ==
    /\ window.controls = "incoming" /\ window.sensitive
    /\ Click("decline", [window EXCEPT !.sensitive = FALSE], "start")

ClickHangup ==
    /\ window.controls = "active" /\ window.sensitive
    /\ Click("hangup", [window EXCEPT !.sensitive = FALSE], "start")

CloseWindow == Click("close", Hidden(window), toolbar)

-----------------------------------------------------------------------------
(* The queued window callbacks.                                            *)

Pop(what) ==
    /\ idle # <<>>
    /\ Head(idle).what = what
    /\ idle' = Tail(idle)
    /\ UNCHANGED <<reports, attached>>

\* _end_active_for_switch
SwitchStanzas ==
    CASE context.state = "proposing" ->
           <<Say(context.peer, "retract", context.sid)>>
      [] context.state = "ringing" /\ context.incoming ->
           <<Say(Target(context), IF context.jmi THEN "reject"
                                  ELSE "session-terminate", context.sid)>>
      [] OTHER ->
           When(context.full # NoJid,
                Say(context.full, "session-terminate", context.sid))
           \o When(context.jmi, Say(Target(context), "finish", context.sid))

\* accept() with a caller waiting: the active call is ended and the waiting
\* call takes its place.  `early` loses the active call's candidates here and
\* the accepted call's when its engine starts.
AcceptWaiting ==
    /\ waiting # NoCall
    /\ Pop("accept")
    /\ context' = [waiting EXCEPT !.state = "negotiating"]
    /\ pendingOffer' = waitingOffer
    /\ NoWaiting
    /\ phaseTimer' = Timer(waiting.sid, "negotiating")
    /\ alert' = IF alert \in {waiting.sid, context.sid} THEN NoSid ELSE alert
    /\ ForgetDescriptions
    /\ window' = WithActiveControls(window)
    /\ toolbar' = "cancel"
    /\ IF waitingOffer
         THEN LET engine == <<waiting.sid, waiting.full>> IN
              /\ media' = engine
              /\ engines' = [e \in Engines |->
                               IF e = engine THEN "open"
                               ELSE IF e = media THEN "closed" ELSE engines[e]]
              /\ answered' = answered \cup {engine}
              /\ early' = early \ {context.sid, waiting.sid}
              /\ sent' = SwitchStanzas
              /\ UNCHANGED openings
         ELSE /\ CloseMedia
              /\ early' = early \ {context.sid}
              /\ sent' = SwitchStanzas \o Proceed(waiting.full, waiting.sid)
              /\ openings' = openings
                               \cup {<<waiting.sid, waiting.full, "proceed">>}
              /\ UNCHANGED answered

\* accept() of a ringing call.
AcceptRinging ==
    /\ waiting = NoCall
    /\ context.state = "ringing"
    /\ Pop("accept")
    /\ context' = [context EXCEPT !.state = "negotiating"]
    /\ phaseTimer' = Timer(context.sid, "negotiating")
    /\ alert' = Silenced(context.sid)
    /\ window' = WithActiveControls(window)
    /\ toolbar' = "cancel"
    /\ IF pendingOffer
         THEN /\ StartMedia(context.sid, context.full, TRUE)
              /\ sent' = <<>>
              /\ UNCHANGED openings
         ELSE /\ sent' = Proceed(context.full, context.sid)
              /\ openings' = openings
                               \cup {<<context.sid, context.full, "proceed">>}
              /\ UNCHANGED mediaVars
    /\ UNCHANGED <<waiting, pendingOffer, waitingOffer, waitTimer>>

\* accept() when the caller has gone: a call that is already negotiating has
\* its timeout armed again.
AcceptNothing ==
    /\ waiting = NoCall
    /\ context.state # "ringing"
    /\ Pop("accept")
    /\ phaseTimer' = IF context.state = "negotiating"
                       THEN Timer(context.sid, "negotiating") ELSE phaseTimer
    /\ alert' = Silenced(context.sid)
    /\ sent' = <<>>
    /\ UNCHANGED <<callVars, mediaVars, waitTimer, window, toolbar, openings>>

\* decline()
Decline ==
    /\ Pop("decline")
    /\ IF waiting # NoCall THEN DeclineWaiting
       ELSE IF context = NoCall
         THEN sent' = <<>> /\ UNCHANGED <<callVars, mediaVars, timerVars, uiVars>>
         ELSE /\ sent' = When(context.incoming /\ context.full # NoJid,
                              Say(context.full,
                                  IF pendingOffer THEN "session-terminate"
                                                  ELSE "reject", context.sid))
              /\ FinishLocal("ended", window, toolbar)
    /\ UNCHANGED openings

HangupClicked ==
    /\ Pop("hangup")
    /\ Hangup
    /\ UNCHANGED openings

\* close_call_window()
WindowClosed ==
    /\ Pop("close")
    /\ IF waiting # NoCall THEN DeclineWaiting ELSE Hangup
    /\ UNCHANGED openings

-----------------------------------------------------------------------------
(* The media engine, seen from the main loop.  Its threads queue what they *)
(* have to report; each thing is reported at most once.  The facade drops  *)
(* the descriptions and candidates of a closed engine when the callback    *)
(* runs, but hands on_connected and on_failed to the controller as is.     *)
(* Without StaleReports the instance leaves out outcomes that come late: a *)
(* bound for TLC, not what the code does.                                  *)

EngineReports(e, what) ==
    /\ <<e, what>> \notin reports
    /\ IF what \in Outcomes
         THEN IF StaleReports THEN engines[e] # "none" ELSE e = media /\ idle = <<>>
         ELSE engines[e] = "open"
    /\ what = "connected" => e \in answered /\ <<e, "description">> \in reports
    /\ Queue(what, e)
    /\ reports' = reports \cup {<<e, what>>}
    /\ sent' = <<>>
    /\ UNCHANGED <<callVars, mediaVars, timerVars, uiVars, networkVars>>

Source == Head(idle).source

\* _local_description_ready and _on_local_description
LocalDescriptionReady ==
    /\ Pop("description")
    /\ IF engines[Source] = "closed" \/ ~Live(context)
         THEN UNCHANGED <<localDescription, pendingLocal, openings>> /\ sent' = <<>>
         ELSE /\ localDescription' = Source
              /\ IF context.full = NoJid
                   THEN sent' = <<>> /\ UNCHANGED <<pendingLocal, openings>>
                   ELSE /\ pendingLocal' = <<>>
                        /\ LET action == IF context.incoming THEN "session-accept"
                                         ELSE "session-initiate"
                           IN  sent' = <<Carry(context.full, action,
                                               context.sid, Source)>>
                                       \o Candidates(pendingLocal)
                        /\ openings' =
                             IF context.incoming THEN openings
                             ELSE openings \cup {<<context.sid, context.full,
                                                   "session-initiate">>}
    /\ UNCHANGED <<callVars, timerVars, uiVars, media, early, engines, answered>>

\* _deliver_ice_candidate, _on_ice_candidate and _send_local_candidate
LocalCandidateReady ==
    /\ Pop("candidate")
    /\ IF engines[Source] = "closed"
         THEN sent' = <<>> /\ UNCHANGED pendingLocal
         ELSE IF localDescription = NoEngine
         THEN /\ pendingLocal' = Append(pendingLocal, Source)
              /\ sent' = <<>>
         ELSE /\ sent' = IF Live(context) /\ context.full # NoJid
                           THEN Candidates(<<Source>>) ELSE <<>>
              /\ UNCHANGED pendingLocal
    /\ UNCHANGED <<callVars, timerVars, uiVars, media, localDescription, early,
                   engines, answered, openings>>

\* _on_media_connected
MediaConnected ==
    /\ Pop("connected")
    /\ sent' = <<>>
    /\ IF Live(context)
         THEN /\ phaseTimer' = NoTimer
              /\ context' = IF context.state = "negotiating"
                              THEN [context EXCEPT !.state = "connected"]
                              ELSE context
              /\ window' = [window EXCEPT !.visible = TRUE, !.controls = "active"]
              /\ toolbar' = "hangup"
         ELSE UNCHANGED <<phaseTimer, context, window, toolbar>>
    /\ UNCHANGED <<waiting, pendingOffer, waitingOffer, mediaVars, waitTimer,
                   alert, openings>>

\* _terminate_remote_failure
FailureStanzas ==
    When(context.full # NoJid /\ context.state \in {"negotiating", "connected"},
         Say(context.full, "session-terminate", context.sid))
    \o When(context.jmi, Say(Target(context), "finish", context.sid))

\* _on_media_failed
MediaFailed ==
    /\ Pop("failed")
    /\ IF Live(context)
         THEN /\ sent' = FailureStanzas
              /\ FinishLocal("failed", window, "start")
         ELSE sent' = <<>> /\ UNCHANGED <<callVars, mediaVars, timerVars, uiVars>>
    /\ UNCHANGED openings

-----------------------------------------------------------------------------
(* Timeouts.                                                               *)

\* Mutant: the negotiation's timeout takes the call for a ringing one.
PhaseStatesOfRinging(phase) == {"proposing", "ringing"}

PhaseStates(phase) == IF phase = "ringing" THEN {"proposing", "ringing"}
                                           ELSE {"negotiating"}

\* _on_phase_timeout
PhaseTimeout ==
    /\ MayOvertake
    /\ phaseTimer # NoTimer
    /\ IF context.sid = phaseTimer.sid /\ context.state \in PhaseStates(phaseTimer.phase)
         THEN LET plan == PlanTimeout(phaseTimer.phase, context.incoming,
                                      context.jmi, JingleStarted)
              IN  /\ sent' = When(plan.terminate /\ context.full # NoJid,
                                  Say(context.full, "session-terminate", context.sid))
                             \o When(plan.jmi # "none",
                                     Say(IF plan.jmi = "retract" THEN context.peer
                                         ELSE Target(context), plan.jmi, context.sid))
                  /\ FinishLocal("ended", window, "start")
         ELSE /\ phaseTimer' = NoTimer
              /\ sent' = <<>>
              /\ UNCHANGED <<callVars, mediaVars, waitTimer, uiVars>>
    /\ UNCHANGED <<idle, reports, networkVars>>

\* _on_waiting_timeout
WaitingTimeout ==
    /\ MayOvertake
    /\ waitTimer # NoSid
    /\ IF waiting.sid = waitTimer THEN DeclineWaiting
       ELSE /\ waitTimer' = NoSid
            /\ sent' = <<>>
            /\ UNCHANGED <<callVars, mediaVars, phaseTimer, uiVars>>
    /\ UNCHANGED <<idle, reports, networkVars>>

-----------------------------------------------------------------------------
(* What the contacts may send.                                             *)

Proposed(sid) == \E d \in Devices \cup {NoJid} : <<sid, d, "propose">> \in openings

\* A contact proposes a session id of its own once, withdraws or finishes it
\* later, and answers the proposals it was sent, once per device with proceed.
MaySendJmi(from, action, sid) ==
    /\ attached /\ MayOvertake
    /\ Bare[from] = Party[sid]
    /\ IF action = "propose"
         THEN sid \in PeerSids \ Direct /\ ~Proposed(sid)
         ELSE Proposed(sid)
    /\ action = "proceed" => <<sid, from, "proceed">> \notin openings
    /\ action \in {"ringing", "proceed", "reject"} => sid \in OwnSids
    /\ action = "retract" => sid \in PeerSids

\* One device of the caller opens a session, once: at will when it does not
\* speak JMI, else for a call that was proposed, told to proceed or not (every
\* class keeps an offer that comes early), from that device or another one
\* (peer_validation.py).  A device goes on only in a session it opened or was
\* invited to, except that a caller's candidates may come first, and that a
\* device terminates a session it failed to open (_terminate_remote_failure).
MaySendJingle(from, action, sid) ==
    /\ attached /\ MayOvertake
    /\ Bare[from] = Party[sid]
    /\ IF action = "session-initiate"
         THEN /\ \A d \in Devices : <<sid, d, "session-initiate">> \notin openings
              /\ sid \in PeerSids
              /\ sid \in Direct \/ Proposed(sid)
         ELSE \/ <<sid, from, "session-initiate">> \in openings
              \/ action = "transport-info" /\ sid \in PeerSids /\ Proposed(sid)
              \/ action = "session-terminate" /\ Proposed(sid)
    /\ action = "session-accept" => sid \in OwnSids

Opens(from, action, sid) == openings' = openings \cup {<<sid, from, action>>}

-----------------------------------------------------------------------------
(* JMI messages: handle_jmi, from the outermost class to the innermost.    *)

ForContext(sid) == context # NoCall /\ context.sid = sid
ForWaiting(sid) == waiting # NoCall /\ waiting.sid = sid

\* The condition of _try_jmi_migration
Migrates(from) ==
    /\ context.state \in {"negotiating", "connected"}
    /\ context.jmi
    /\ context.peer = Bare[from]

\* Both sides propose to each other.
Glare(from) == context.state = "proposing" /\ context.peer = Bare[from]

Proposal(from, sid) ==
    /\ MaySendJmi(from, "propose", sid)
    /\ UNCHANGED <<idle, reports, attached>>

\* _try_jmi_migration: the same contact proposes again, so its old session is
\* ended and the new one accepted without asking.
MigrateCall(from, sid) ==
    /\ Proposal(from, sid)
    /\ Migrates(from)
    /\ sent' = When(context.full # NoJid /\ JingleStarted,
                    Say(context.full, "session-terminate", context.sid))
               \o <<Say(Target(context), "finish", context.sid)>>
               \o Proceed(from, sid)
    /\ context' = IncomingCall(sid, from, "negotiating", TRUE)
    /\ pendingOffer' = FALSE
    /\ CloseMedia
    /\ ForgetDescriptions
    /\ early' = early \ {context.sid}
    /\ phaseTimer' = Timer(sid, "negotiating")
    /\ alert' = Silenced(context.sid)
    /\ window' = WithActiveControls(window)
    /\ toolbar' = "cancel"
    /\ openings' = openings \cup {<<sid, from, "propose">>, <<sid, from, "proceed">>}
    /\ UNCHANGED <<waiting, waitingOffer, waitTimer, answered>>

\* _reject_extra_call
RejectExtraProposal(from, sid) ==
    /\ Proposal(from, sid)
    /\ Live(context) /\ ~Migrates(from) /\ ~Glare(from)
    /\ context.state # "connected" \/ waiting # NoCall
    /\ sent' = <<Say(from, "reject", sid)>>
    /\ Opens(from, "propose", sid)
    /\ UNCHANGED <<callVars, mediaVars, timerVars, uiVars>>

ProposalWaits(from, sid) ==
    /\ Proposal(from, sid)
    /\ ~Migrates(from)
    /\ context.state = "connected" /\ waiting = NoCall
    /\ sent' = <<Say(from, "ringing", sid)>>
    /\ ShowWaiting(sid, from, TRUE)
    /\ Opens(from, "propose", sid)

\* The lower session id wins; this side's is lower.
WinTieBreak(from, sid) ==
    /\ Proposal(from, sid)
    /\ Glare(from)
    /\ ~(sid < context.sid)
    /\ sent' = <<Say(from, "reject", sid)>>
    /\ Opens(from, "propose", sid)
    /\ UNCHANGED <<callVars, mediaVars, timerVars, uiVars>>

\* The other side's is lower: the own proposal is retracted, _cleanup drops
\* everything that belonged to it, and the other call rings.
LoseTieBreak(from, sid) ==
    /\ Proposal(from, sid)
    /\ Glare(from)
    /\ sid < context.sid
    /\ sent' = <<Say(context.peer, "retract", context.sid), Say(from, "ringing", sid)>>
    /\ Ring(sid, from, TRUE)
    /\ NoWaiting
    /\ pendingOffer' = FALSE
    /\ CloseMedia
    /\ ForgetDescriptions
    /\ early' = {}
    /\ Opens(from, "propose", sid)
    /\ UNCHANGED answered

RingForProposal(from, sid) ==
    /\ Proposal(from, sid)
    /\ ~Live(context)
    /\ sent' = <<Say(from, "ringing", sid)>>
    /\ Ring(sid, from, TRUE)
    /\ Opens(from, "propose", sid)
    /\ UNCHANGED <<waiting, pendingOffer, waitingOffer, waitTimer, mediaVars>>

Ending(action) == action \in {"reject", "retract", "finish"}

WaitingCallerGone(from, action, sid) ==
    /\ MaySendJmi(from, action, sid)
    /\ ForWaiting(sid) /\ JmiSenderAllowed(waiting, from)
    /\ Ending(action)
    /\ sent' = <<>>
    /\ ClearWaiting
    /\ UNCHANGED <<idle, reports, networkVars>>

\* The sender check of RuntimeCallController.handle_jmi
ForActiveCall(from, action, sid) ==
    /\ MaySendJmi(from, action, sid)
    /\ ForContext(sid) /\ JmiSenderAllowed(context, from)
    /\ ~ForWaiting(sid)
    /\ UNCHANGED <<idle, reports, attached>>

PeerRings(from, sid) ==
    /\ ForActiveCall(from, "ringing", sid)
    /\ context.state = "proposing"
    /\ window' = WithActiveControls(window)
    /\ toolbar' = "cancel"
    /\ sent' = <<>>
    /\ UNCHANGED <<callVars, mediaVars, timerVars, alert, openings>>

\* Mutant: the ringing timeout goes on into the negotiation.
PeerProceedsRinging(from, sid) ==
    /\ ForActiveCall(from, "proceed", sid)
    /\ ~context.incoming
    /\ CanTransition(context, "negotiating")
    /\ context' = [context EXCEPT !.full = from, !.state = "negotiating"]
    /\ window' = WithActiveControls(window)
    /\ toolbar' = "cancel"
    /\ StartMedia(sid, from, FALSE)
    /\ sent' = <<>>
    /\ Opens(from, "proceed", sid)
    /\ UNCHANGED <<waiting, pendingOffer, waitingOffer, timerVars, alert>>

\* A device of the contact answers: it is selected and the offer is started.
PeerProceeds(from, sid) ==
    /\ ForActiveCall(from, "proceed", sid)
    /\ ~context.incoming
    /\ CanTransition(context, "negotiating")
    /\ context' = [context EXCEPT !.full = from, !.state = "negotiating"]
    /\ window' = WithActiveControls(window)
    /\ toolbar' = "cancel"
    /\ StartMedia(sid, from, FALSE)
    /\ phaseTimer' = Timer(sid, "negotiating")
    /\ sent' = <<>>
    /\ Opens(from, "proceed", sid)
    /\ UNCHANGED <<waiting, pendingOffer, waitingOffer, waitTimer, alert>>

\* The same, in a state that may not go to NEGOTIATING: InvalidTransition
\* leaves the handler after the device was already written to the context.
LateProceed(from, sid) ==
    /\ ForActiveCall(from, "proceed", sid)
    /\ ~context.incoming
    /\ ~CanTransition(context, "negotiating")
    /\ context' = [context EXCEPT !.full = from]
    /\ sent' = <<>>
    /\ Opens(from, "proceed", sid)
    /\ UNCHANGED <<waiting, pendingOffer, waitingOffer, mediaVars, timerVars, uiVars>>

PeerEndsByJmi(from, action, sid) ==
    /\ ForActiveCall(from, action, sid)
    /\ Ending(action)
    /\ sent' = <<>>
    /\ FinishLocal("ended", Enabled(window), "start")
    /\ UNCHANGED openings

-----------------------------------------------------------------------------
(* Jingle IQs: the gate of _on_jingle_iq, then handle_jingle, from the     *)
(* outermost class to the innermost.                                       *)

\* owns_sid
Owns(sid) == (Live(context) /\ context.sid = sid) \/ ForWaiting(sid)

\* accepts_jingle_sender
AcceptsSender(from, action, sid) ==
    IF ForWaiting(sid) THEN JingleSenderAllowed(waiting, from, action)
    ELSE /\ ForContext(sid) /\ Live(context)
         /\ JingleSenderAllowed(context, from, action)

\* A claimed IQ is acknowledged before the controller sees it.
Claimed(from, action, sid) ==
    /\ MaySendJingle(from, action, sid)
    /\ IF Owns(sid) THEN AcceptsSender(from, action, sid)
                    ELSE action = "session-initiate"
    /\ openings' = IF action = "session-initiate"
                     THEN openings \cup {<<sid, from, action>>} ELSE openings
    /\ UNCHANGED <<idle, reports, attached>>

Ack(from, sid) == <<Say(from, "result", sid)>>

\* The waiting caller's IQs are kept for the moment it is accepted.
WaitingCallerInitiates(from, sid) ==
    /\ Claimed(from, "session-initiate", sid)
    /\ ForWaiting(sid)
    /\ waiting' = [waiting EXCEPT !.full = from]
    /\ waitingOffer' = TRUE
    /\ sent' = Ack(from, sid)
    /\ UNCHANGED <<context, pendingOffer, mediaVars, timerVars, uiVars>>

WaitingCallerTrickles(from, sid) ==
    /\ Claimed(from, "transport-info", sid)
    /\ ForWaiting(sid)
    /\ early' = early \cup {sid}
    /\ sent' = Ack(from, sid)
    /\ UNCHANGED <<callVars, media, localDescription, pendingLocal, engines,
                   answered, timerVars, uiVars>>

WaitingCallerTerminates(from, sid) ==
    /\ Claimed(from, "session-terminate", sid)
    /\ ForWaiting(sid)
    /\ sent' = Ack(from, sid)
    /\ ClearWaiting

RejectExtraSession(from, sid) ==
    /\ Claimed(from, "session-initiate", sid)
    /\ ~Owns(sid) /\ Live(context)
    /\ context.state # "connected" \/ waiting # NoCall
    /\ sent' = Ack(from, sid) \o <<Say(from, "session-terminate", sid)>>
    /\ UNCHANGED <<callVars, mediaVars, timerVars, uiVars>>

SessionWaits(from, sid) ==
    /\ Claimed(from, "session-initiate", sid)
    /\ ~Owns(sid)
    /\ context.state = "connected" /\ waiting = NoCall
    /\ sent' = Ack(from, sid)
    /\ ShowWaiting(sid, from, FALSE)

\* A session for the call that has just ended is acknowledged and dropped.
SessionAfterEnd(from, sid) ==
    /\ Claimed(from, "session-initiate", sid)
    /\ ForContext(sid) /\ ~Live(context)
    /\ sent' = Ack(from, sid)
    /\ UNCHANGED <<callVars, mediaVars, timerVars, uiVars>>

\* The direct-Jingle fallback.
RingForSession(from, sid) ==
    /\ Claimed(from, "session-initiate", sid)
    /\ ~ForContext(sid) /\ ~Live(context)
    /\ Ring(sid, from, FALSE)
    /\ pendingOffer' = TRUE
    /\ sent' = Ack(from, sid)
    /\ UNCHANGED <<waiting, waitingOffer, waitTimer, mediaVars>>

ForActiveSession(from, action, sid) ==
    /\ Claimed(from, action, sid)
    /\ Owns(sid) /\ ~ForWaiting(sid)
    /\ sent' = Ack(from, sid)

\* session-initiate of the active call: the sending device becomes the peer,
\* and an accepted call starts its answer.
SessionInitiated(from, sid) ==
    /\ ForActiveSession(from, "session-initiate", sid)
    /\ context' = [context EXCEPT !.full = from]
    /\ pendingOffer' = TRUE
    /\ IF context.state = "negotiating" THEN StartMedia(sid, from, TRUE)
                                        ELSE UNCHANGED mediaVars
    /\ phaseTimer' = IF context.state \in TimeoutPhases
                       THEN Timer(sid, context.state) ELSE phaseTimer
    /\ alert' = IF context.state = "ringing" THEN sid ELSE alert
    /\ UNCHANGED <<waiting, waitingOffer, waitTimer, window, toolbar>>

SessionAccepted(from, sid) ==
    /\ ForActiveSession(from, "session-accept", sid)
    /\ answered' = IF media = NoEngine THEN answered ELSE answered \cup {media}
    /\ UNCHANGED <<callVars, media, localDescription, pendingLocal, early,
                   engines, timerVars, uiVars>>

PeerTrickles(from, sid) ==
    /\ ForActiveSession(from, "transport-info", sid)
    /\ early' = IF media = NoEngine THEN early \cup {sid} ELSE early
    /\ UNCHANGED <<callVars, media, localDescription, pendingLocal, engines,
                   answered, timerVars, uiVars>>

PeerTerminates(from, sid) ==
    /\ ForActiveSession(from, "session-terminate", sid)
    /\ FinishLocal("ended", Enabled(window), "start")

-----------------------------------------------------------------------------
\* plugin.deactivate: the alert is stopped, shutdown() cleans up without a
\* word to the peer, and the module loses its controller.
Deactivate ==
    /\ attached /\ MayOvertake
    /\ attached' = FALSE
    /\ context' = NoCall /\ pendingOffer' = FALSE
    /\ NoWaiting
    /\ phaseTimer' = NoTimer
    /\ CloseMedia
    /\ ForgetDescriptions
    /\ early' = {}
    /\ alert' = NoSid
    /\ window' = Hidden(window)
    /\ sent' = <<>>
    /\ UNCHANGED <<toolbar, answered, idle, reports, openings>>

-----------------------------------------------------------------------------
UserStep ==
    \/ \E sid \in OwnSids : StartOutgoing(sid)
    \/ ToolbarHangup
    \/ ClickAccept
    \/ ClickDecline
    \/ ClickHangup
    \/ CloseWindow
    \/ Deactivate

IdleStep ==
    \/ AcceptWaiting
    \/ AcceptRinging
    \/ AcceptNothing
    \/ Decline
    \/ HangupClicked
    \/ WindowClosed
    \/ LocalDescriptionReady
    \/ LocalCandidateReady
    \/ MediaConnected
    \/ MediaFailed

JmiStep(from, sid) ==
    \/ MigrateCall(from, sid)
    \/ RejectExtraProposal(from, sid)
    \/ ProposalWaits(from, sid)
    \/ WinTieBreak(from, sid)
    \/ LoseTieBreak(from, sid)
    \/ RingForProposal(from, sid)
    \/ PeerRings(from, sid)
    \/ PeerProceeds(from, sid)
    \/ LateProceed(from, sid)
    \/ \E action \in JmiActions : \/ WaitingCallerGone(from, action, sid)
                                 \/ PeerEndsByJmi(from, action, sid)

JingleStep(from, sid) ==
    \/ WaitingCallerInitiates(from, sid)
    \/ WaitingCallerTrickles(from, sid)
    \/ WaitingCallerTerminates(from, sid)
    \/ RejectExtraSession(from, sid)
    \/ SessionWaits(from, sid)
    \/ SessionAfterEnd(from, sid)
    \/ RingForSession(from, sid)
    \/ SessionInitiated(from, sid)
    \/ SessionAccepted(from, sid)
    \/ PeerTrickles(from, sid)
    \/ PeerTerminates(from, sid)

TimerStep == PhaseTimeout \/ WaitingTimeout

NetworkStep ==
    \E from \in Devices, sid \in Sids : JmiStep(from, sid) \/ JingleStep(from, sid)

MediaStep == \E e \in Engines, what \in Reports : EngineReports(e, what)

Next ==
    \/ UserStep
    \/ IdleStep
    \/ TimerStep
    \/ NetworkStep
    \/ MediaStep

Spec == Init /\ [][Next]_vars

\* GLib runs every callback that stays queued and every timeout that stays armed.
FairSpec == Spec /\ WF_vars(IdleStep) /\ WF_vars(PhaseTimeout) /\ WF_vars(WaitingTimeout)
=============================================================================
