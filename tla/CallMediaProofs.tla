--------------------------- MODULE CallMediaProofs ---------------------------
(***************************************************************************)
(* The engines of CallController, for every value of the constants: whose  *)
(* they are, that none is left open, that a connected call has one, and    *)
(* that candidates follow its description.  Where it is assumed that each  *)
(* contact has one device, a theorem says so: with two, a second one that  *)
(* proceeds is given an engine beside the first.                           *)
(***************************************************************************)
EXTENDS CallControllerProofs

-----------------------------------------------------------------------------
(* Whose calls these are.                                                  *)

\* The session id of a call is drawn by the side that placed it; an incoming call
\* names a device, an outgoing one was proposed; and the device is its party's.
OfItsSide(call) ==
    call # NoCall =>
        /\ IF call.incoming THEN call.sid \in PeerSids /\ call.full \in Devices
                            ELSE call.sid \in OwnSids /\ call.jmi
        /\ call.full # NoJid => Bare[call.full] = Party[call.sid]

\* A device sent or was sent this opening stanza.
WasOpened(sid, action) == \E d \in Devices : <<sid, d, action>> \in openings

\* An offer that is kept came with a session-initiate, and a live call without JMI
\* has one.
OffersAreKept ==
    /\ Live(context) /\ ~context.jmi => pendingOffer
    /\ pendingOffer => Live(context) /\ WasOpened(context.sid, "session-initiate")
    /\ waitingOffer => WasOpened(waiting.sid, "session-initiate")

\* All this holds of the two calls.
SidesAreKnown == OfItsSide(context) /\ OfItsSide(waiting) /\ OffersAreKept

\* Calls are created as calls of their side.
LEMMA NewCallsSides ==
    /\ OfItsSide(NoCall)
    /\ \A sid \in OwnSids : OfItsSide(OutgoingCall(sid))
    /\ \A sid \in PeerSids, from \in Devices : \A state, jmi :
          Bare[from] = Party[sid] => OfItsSide(IncomingCall(sid, from, state, jmi))
BY DEF OfItsSide, OutgoingCall, IncomingCall

\* Nothing changes if the calls do not.
LEMMA SameSides ==
    ASSUME SidesAreKnown, openings \subseteq openings', UNCHANGED callVars
    PROVE  SidesAreKnown'
BY DEF SidesAreKnown, OfItsSide, OffersAreKept, WasOpened, Live, callVars

\* _finish_local ends a call or promotes one, which brings its offer.
LEMMA FinishLocalSides ==
    ASSUME CallInvariant, SidesAreKnown, openings \subseteq openings',
           NEW state \in Terminal, NEW win, NEW bar, FinishLocal(state, win, bar)
    PROVE  SidesAreKnown'
<1>0. context \in CallRecord /\ waiting \in CallRecord
  BY DEF CallInvariant, TypeOK, CallsTyped
<1>1. OfItsSide(waiting)'
  BY DEF FinishLocal, NoWaiting, OfItsSide
<1>9. ~waitingOffer'
  BY DEF FinishLocal, NoWaiting
<1>2. CASE waiting # NoCall
  <2>1. context' = waiting /\ pendingOffer' = waitingOffer
    BY <1>2 DEF FinishLocal
  <2>2. Live(waiting) /\ (~waiting.jmi => waitingOffer)
    BY <1>2 DEF CallInvariant, WaitingBehindActive, Live, LiveStates
  <2> QED BY <1>1, <1>9, <2>1, <2>2 DEF SidesAreKnown, OfItsSide, OffersAreKept, WasOpened, Live
<1>3. CASE waiting = NoCall
  <2>1. context' = IF Live(context) THEN [context EXCEPT !.state = state] ELSE context
    BY <1>3 DEF FinishLocal
  <2>2. ~Live(context)' /\ ~pendingOffer'
    BY <1>0, <1>3, <2>1 DEF FinishLocal, CallRecord, Live, LiveStates, Terminal
  <2>3. OfItsSide(context)'
    <3>1. CASE Live(context)
      <4>1. context # NoCall
        BY <3>1 DEF Live, LiveStates, NoCall
      <4>2. /\ context'.incoming = context.incoming /\ context'.sid = context.sid
            /\ context'.full = context.full /\ context'.jmi = context.jmi
        BY <1>0, <2>1, <3>1 DEF CallRecord
      <4> QED BY <4>1, <4>2 DEF SidesAreKnown, OfItsSide
    <3>2. CASE ~Live(context)
      BY <2>1, <3>2 DEF SidesAreKnown, OfItsSide
    <3> QED BY <3>1, <3>2
  <2> QED BY <1>1, <1>9, <2>2, <2>3 DEF SidesAreKnown, OffersAreKept
<1> QED BY <1>2, <1>3

\* So does hangup.
LEMMA HangupSides ==
    ASSUME CallInvariant, SidesAreKnown, openings \subseteq openings', Hangup
    PROVE  SidesAreKnown'
BY FinishLocalSides, SameSides DEF Hangup, Terminal

\* _clear_waiting leaves the active call.
LEMMA ClearWaitingSides ==
    ASSUME SidesAreKnown, openings \subseteq openings', ClearWaiting
    PROVE  SidesAreKnown'
BY DEF ClearWaiting, NoWaiting, SidesAreKnown, OfItsSide, OffersAreKept, WasOpened, Live

\* A new state, or the device that speaks, leaves a call with its side.
LEMMA UpdatedSides ==
    ASSUME SidesAreKnown, openings \subseteq openings', Live(context), Live(context)',
           context'.incoming = context.incoming, context'.sid = context.sid,
           context'.jmi = context.jmi,
           \/ context'.full = context.full
           \/ context'.full \in Devices /\ Bare[context'.full] = Party[context.sid],
           waiting' = waiting, waitingOffer' = waitingOffer,
           \/ pendingOffer' = pendingOffer
           \/ pendingOffer' /\ WasOpened(context.sid, "session-initiate")'
    PROVE  SidesAreKnown'
<1>1. context # NoCall
  BY DEF Live, LiveStates, NoCall
<1>2. OfItsSide(context)' /\ OfItsSide(waiting)'
  BY <1>1 DEF SidesAreKnown, OfItsSide
<1>3. OffersAreKept'
  BY DEF SidesAreKnown, OffersAreKept, WasOpened
<1> QED BY <1>2, <1>3 DEF SidesAreKnown

\* What a handler leaves of a call when it writes a state or a device.
LEMMA Written ==
    ASSUME NEW call \in CallRecord, NEW value
    PROVE  /\ LET new == [call EXCEPT !.state = value]
              IN  /\ new.incoming = call.incoming /\ new.sid = call.sid
                  /\ new.full = call.full /\ new.jmi = call.jmi /\ new.state = value
           /\ LET new == [call EXCEPT !.full = value]
              IN  /\ new.incoming = call.incoming /\ new.sid = call.sid
                  /\ new.full = value /\ new.jmi = call.jmi /\ new.state = call.state
BY DEF CallRecord

\* A call that rings for the first time, or is placed, is a call of its side; no offer
\* is left from the one before.
LEMMA BeginSides ==
    ASSUME SidesAreKnown, openings \subseteq openings', NEW call, OfItsSide(call),
           context' = call, Live(call),
           \/ waiting' = waiting /\ waitingOffer' = waitingOffer
           \/ waiting' = NoCall /\ ~waitingOffer',
           \/ call.jmi /\ ~pendingOffer'
           \/ pendingOffer' /\ WasOpened(context.sid, "session-initiate")'
    PROVE  SidesAreKnown'
<1>1. OfItsSide(context)' /\ OfItsSide(waiting)'
  BY DEF SidesAreKnown, OfItsSide
<1>2. OffersAreKept'
  BY DEF SidesAreKnown, OffersAreKept, WasOpened, Live
<1> QED BY <1>1, <1>2 DEF SidesAreKnown

\* What the user does keeps them.
LEMMA UserSides ==
    ASSUME CallInvariant, SidesAreKnown, openings \subseteq openings', UserStep
    PROVE  SidesAreKnown'
<1>1. ASSUME NEW sid \in OwnSids, StartOutgoing(sid) PROVE SidesAreKnown'
  <2>1. CASE Live(context)
    BY <1>1, <2>1, SameSides DEF StartOutgoing, callVars
  <2>2. CASE ~Live(context)
    <3>1. /\ context' = OutgoingCall(sid) /\ waiting' = waiting /\ waitingOffer' = waitingOffer
          /\ OutgoingCall(sid).jmi /\ Live(OutgoingCall(sid)) /\ ~pendingOffer'
      BY <1>1, <2>2 DEF StartOutgoing, OutgoingCall, SidesAreKnown, OffersAreKept, Live, LiveStates
    <3> QED BY <3>1, NewCallsSides, BeginSides
  <2> QED BY <2>1, <2>2
<1>2. CASE ToolbarHangup
  BY <1>2, HangupSides DEF ToolbarHangup
<1>3. CASE ClickAccept \/ ClickDecline \/ ClickHangup \/ CloseWindow
  BY <1>3, SameSides DEF ClickAccept, ClickDecline, ClickHangup, CloseWindow, Click
<1>4. CASE Deactivate
  BY <1>4 DEF Deactivate, NoWaiting, SidesAreKnown, OfItsSide, OffersAreKept, Live, LiveStates,
     NoCall
<1> QED BY <1>1, <1>2, <1>3, <1>4 DEF UserStep

\* The queued callbacks keep them; an accepted caller brings its offer.
LEMMA IdleSides ==
    ASSUME CallInvariant, SidesAreKnown, openings \subseteq openings', IdleStep
    PROVE  SidesAreKnown'
<1>0. context \in CallRecord /\ waiting \in CallRecord
  BY DEF CallInvariant, TypeOK, CallsTyped
<1>1. CASE AcceptWaiting
  <2>1. /\ waiting # NoCall /\ waiting' = NoCall /\ pendingOffer' = waitingOffer
        /\ ~waitingOffer' /\ context' = [waiting EXCEPT !.state = "negotiating"]
    BY <1>1 DEF AcceptWaiting, NoWaiting
  <2>2. /\ context'.incoming = waiting.incoming /\ context'.sid = waiting.sid
        /\ context'.full = waiting.full /\ context'.jmi = waiting.jmi
        /\ context'.state = "negotiating"
    BY <1>0, <2>1, Written
  <2>3. ~waiting.jmi => waitingOffer
    BY <2>1 DEF CallInvariant, WaitingBehindActive
  <2>4. OfItsSide(context)' /\ OfItsSide(waiting)'
    BY <2>1, <2>2 DEF SidesAreKnown, OfItsSide
  <2>5. OffersAreKept'
    BY <2>1, <2>2, <2>3 DEF SidesAreKnown, OffersAreKept, WasOpened, Live, LiveStates
  <2> QED BY <2>4, <2>5 DEF SidesAreKnown
<1>2. CASE AcceptRinging
  <2>1. /\ context.state = "ringing" /\ waiting' = waiting /\ pendingOffer' = pendingOffer
        /\ waitingOffer' = waitingOffer /\ context' = [context EXCEPT !.state = "negotiating"]
    BY <1>2 DEF AcceptRinging
  <2>2. context'.state = "negotiating"
    BY <1>0, <2>1, Written
  <2> QED BY <1>0, <2>1, <2>2, Written, UpdatedSides DEF Live, LiveStates
<1>3. CASE AcceptNothing \/ LocalDescriptionReady \/ LocalCandidateReady
  BY <1>3, SameSides DEF AcceptNothing, LocalDescriptionReady, LocalCandidateReady
<1>4. CASE Decline
  BY <1>4, ClearWaitingSides, FinishLocalSides, SameSides DEF Decline, DeclineWaiting, Terminal
<1>5. CASE HangupClicked \/ WindowClosed
  BY <1>5, HangupSides, ClearWaitingSides DEF HangupClicked, WindowClosed, DeclineWaiting
<1>6. CASE MediaConnected
  <2>1. CASE Live(context) /\ context.state = "negotiating"
    <3>1. /\ waiting' = waiting /\ pendingOffer' = pendingOffer /\ waitingOffer' = waitingOffer
          /\ context' = [context EXCEPT !.state = "connected"]
      BY <1>6, <2>1 DEF MediaConnected
    <3>2. context'.state = "connected"
      BY <1>0, <3>1, Written
    <3> QED BY <1>0, <2>1, <3>1, <3>2, Written, UpdatedSides DEF Live, LiveStates
  <2>2. CASE ~(Live(context) /\ context.state = "negotiating")
    BY <1>6, <2>2, SameSides DEF MediaConnected, callVars
  <2> QED BY <2>1, <2>2
<1>7. CASE MediaFailed
  BY <1>7, FinishLocalSides, SameSides DEF MediaFailed, Terminal
<1> QED BY <1>1, <1>2, <1>3, <1>4, <1>5, <1>6, <1>7 DEF IdleStep

\* Timeouts end calls, reports change none.
LEMMA TimerSides ==
    ASSUME CallInvariant, SidesAreKnown, openings \subseteq openings', TimerStep \/ MediaStep
    PROVE  SidesAreKnown'
<1>1. CASE PhaseTimeout
  BY <1>1, FinishLocalSides, SameSides DEF PhaseTimeout, Terminal
<1>2. CASE WaitingTimeout
  BY <1>2, ClearWaitingSides, SameSides DEF WaitingTimeout, DeclineWaiting
<1>3. CASE MediaStep
  BY <1>3, SameSides DEF MediaStep, EngineReports
<1> QED BY <1>1, <1>2, <1>3 DEF TimerStep

\* A caller that is shown behind the active call is one of the other side's.
LEMMA ShowWaitingSides ==
    ASSUME SidesAreKnown, openings \subseteq openings', NEW sid \in PeerSids,
           NEW from \in Devices, Bare[from] = Party[sid], NEW jmi, ShowWaiting(sid, from, jmi),
           ~jmi => WasOpened(sid, "session-initiate")'
    PROVE  SidesAreKnown'
<1>1. /\ waiting' = IncomingCall(sid, from, "ringing", jmi) /\ waitingOffer' = ~jmi
      /\ context' = context /\ pendingOffer' = pendingOffer
  BY DEF ShowWaiting
<1>2. waiting'.sid = sid
  BY <1>1 DEF IncomingCall
<1>3. OfItsSide(context)' /\ OfItsSide(waiting)'
  BY <1>1, NewCallsSides DEF SidesAreKnown, OfItsSide
<1>4. WasOpened(waiting.sid, "session-initiate")' \/ ~waitingOffer'
  BY <1>1, <1>2 DEF WasOpened
<1>5. OffersAreKept'
  BY <1>1, <1>4 DEF SidesAreKnown, OffersAreKept, WasOpened, Live
<1> QED BY <1>3, <1>5 DEF SidesAreKnown

\* Every JMI message keeps them.
LEMMA JmiSides ==
    ASSUME CallInvariant, SidesAreKnown, openings \subseteq openings',
           NEW from \in Devices, NEW sid \in Sids, JmiStep(from, sid)
    PROVE  SidesAreKnown'
<1>0. context \in CallRecord
  BY DEF CallInvariant, TypeOK, CallsTyped
<1>1. CASE MigrateCall(from, sid) \/ LoseTieBreak(from, sid) \/ RingForProposal(from, sid)
  <2>1. sid \in PeerSids /\ Bare[from] = Party[sid]
    BY <1>1 DEF MigrateCall, LoseTieBreak, RingForProposal, Proposal, MaySendJmi
  <2>2. PICK state \in LiveStates : context' = IncomingCall(sid, from, state, TRUE)
    BY <1>1 DEF MigrateCall, LoseTieBreak, RingForProposal, Ring, LiveStates
  <2>3. \/ waiting' = waiting /\ waitingOffer' = waitingOffer
        \/ waiting' = NoCall /\ ~waitingOffer'
    BY <1>1 DEF MigrateCall, LoseTieBreak, RingForProposal, NoWaiting
  <2>4. ~pendingOffer'
    BY <1>1 DEF MigrateCall, LoseTieBreak, RingForProposal, SidesAreKnown, OffersAreKept
  <2>5. IncomingCall(sid, from, state, TRUE).jmi /\ Live(IncomingCall(sid, from, state, TRUE))
    BY DEF IncomingCall, Live
  <2> QED BY <2>1, <2>2, <2>3, <2>4, <2>5, NewCallsSides, BeginSides
<1>2. CASE \/ RejectExtraProposal(from, sid) \/ WinTieBreak(from, sid) \/ PeerRings(from, sid)
  BY <1>2, SameSides DEF RejectExtraProposal, WinTieBreak, PeerRings
<1>3. CASE ProposalWaits(from, sid)
  <2>1. sid \in PeerSids /\ Bare[from] = Party[sid]
    BY <1>3 DEF ProposalWaits, Proposal, MaySendJmi
  <2> QED BY <1>3, <2>1, ShowWaitingSides DEF ProposalWaits
<1>4. ASSUME NEW action \in JmiActions,
             WaitingCallerGone(from, action, sid) \/ PeerEndsByJmi(from, action, sid)
      PROVE  SidesAreKnown'
  BY <1>4, ClearWaitingSides, FinishLocalSides DEF WaitingCallerGone, PeerEndsByJmi, Terminal
<1>5. CASE PeerProceeds(from, sid)
  <2>1. /\ ForContext(sid) /\ CanTransition(context, "negotiating") /\ waiting' = waiting
        /\ pendingOffer' = pendingOffer /\ waitingOffer' = waitingOffer
        /\ Bare[from] = Party[sid]
        /\ context' = [context EXCEPT !.full = from, !.state = "negotiating"]
    BY <1>5 DEF PeerProceeds, ForActiveCall, MaySendJmi
  <2>2. /\ context'.incoming = context.incoming /\ context'.sid = context.sid
        /\ context'.full = from /\ context'.jmi = context.jmi /\ context'.state = "negotiating"
    BY <1>0, <2>1 DEF CallRecord
  <2>3. Live(context)
    BY <1>0, <2>1 DEF CanTransition, Allowed, CallRecord, CallStates, Live, LiveStates, Terminal
  <2> QED BY <2>1, <2>2, <2>3, UpdatedSides DEF Live, LiveStates, ForContext
<1>6. CASE LateProceed(from, sid)
  <2>1. /\ ForContext(sid) /\ waiting' = waiting /\ Bare[from] = Party[sid]
        /\ pendingOffer' = pendingOffer /\ waitingOffer' = waitingOffer
        /\ context' = [context EXCEPT !.full = from] /\ ~context.incoming
    BY <1>6 DEF LateProceed, ForActiveCall, MaySendJmi
  <2>2. /\ context'.incoming = context.incoming /\ context'.sid = context.sid
        /\ context'.full = from /\ context'.jmi = context.jmi /\ context'.state = context.state
    BY <1>0, <2>1, Written
  <2>3. OfItsSide(context)' /\ OfItsSide(waiting)'
    BY <2>1, <2>2 DEF SidesAreKnown, OfItsSide, ForContext
  <2>4. OffersAreKept'
    BY <2>1, <2>2 DEF SidesAreKnown, OffersAreKept, WasOpened, Live
  <2> QED BY <2>3, <2>4 DEF SidesAreKnown
<1> QED BY <1>1, <1>2, <1>3, <1>4, <1>5, <1>6 DEF JmiStep

\* So does every Jingle IQ; the one that opens a session brings its offer.
LEMMA JingleSides ==
    ASSUME CallInvariant, SidesAreKnown, openings \subseteq openings',
           NEW from \in Devices, NEW sid \in Sids, JingleStep(from, sid)
    PROVE  SidesAreKnown'
<1>0. context \in CallRecord /\ waiting \in CallRecord
  BY DEF CallInvariant, TypeOK, CallsTyped
<1>9. Claimed(from, "session-initiate", sid) =>
        sid \in PeerSids /\ Bare[from] = Party[sid] /\ WasOpened(sid, "session-initiate")'
  BY DEF Claimed, MaySendJingle, WasOpened
<1>1. CASE WaitingCallerTerminates(from, sid) \/ PeerTerminates(from, sid)
  BY <1>1, ClearWaitingSides, FinishLocalSides DEF WaitingCallerTerminates, PeerTerminates,
     Terminal
<1>2. CASE RingForSession(from, sid)
  <2>1. /\ context' = IncomingCall(sid, from, "ringing", FALSE) /\ pendingOffer'
        /\ waiting' = waiting /\ waitingOffer' = waitingOffer
        /\ sid \in PeerSids /\ Bare[from] = Party[sid] /\ WasOpened(sid, "session-initiate")'
    BY <1>2, <1>9 DEF RingForSession, Ring
  <2>2. context'.sid = sid /\ Live(IncomingCall(sid, from, "ringing", FALSE))
    BY <2>1 DEF IncomingCall, Live, LiveStates
  <2>3. WasOpened(context.sid, "session-initiate")'
    BY <2>1, <2>2 DEF WasOpened
  <2> QED BY <2>1, <2>2, <2>3, NewCallsSides, BeginSides
<1>3. CASE SessionWaits(from, sid)
  BY <1>3, <1>9, ShowWaitingSides DEF SessionWaits
<1>4. CASE \/ WaitingCallerTrickles(from, sid) \/ RejectExtraSession(from, sid)
           \/ SessionAfterEnd(from, sid) \/ SessionAccepted(from, sid)
           \/ PeerTrickles(from, sid)
  BY <1>4, SameSides DEF WaitingCallerTrickles, RejectExtraSession, SessionAfterEnd,
     SessionAccepted, PeerTrickles
<1>5. CASE WaitingCallerInitiates(from, sid)
  <2>1. /\ ForWaiting(sid) /\ waiting' = [waiting EXCEPT !.full = from]
        /\ context' = context /\ pendingOffer' = pendingOffer
        /\ Bare[from] = Party[sid] /\ WasOpened(sid, "session-initiate")'
    BY <1>5, <1>9 DEF WaitingCallerInitiates
  <2>2. /\ waiting'.incoming = waiting.incoming /\ waiting'.sid = waiting.sid
        /\ waiting'.full = from /\ waiting'.jmi = waiting.jmi
    BY <1>0, <2>1, Written
  <2>3. OfItsSide(context)' /\ OfItsSide(waiting)'
    BY <2>1, <2>2 DEF SidesAreKnown, OfItsSide, ForWaiting
  <2>4. OffersAreKept'
    BY <2>1, <2>2 DEF SidesAreKnown, OffersAreKept, WasOpened, Live, ForWaiting
  <2> QED BY <2>3, <2>4 DEF SidesAreKnown
<1>6. CASE SessionInitiated(from, sid)
  <2>1. /\ waiting' = waiting /\ waitingOffer' = waitingOffer /\ pendingOffer' /\ Live(context)
        /\ context' = [context EXCEPT !.full = from] /\ context.sid = sid
        /\ Bare[from] = Party[sid] /\ WasOpened(sid, "session-initiate")'
    BY <1>6, <1>9 DEF SessionInitiated, ForActiveSession, Owns
  <2>2. /\ context'.incoming = context.incoming /\ context'.sid = context.sid
        /\ context'.full = from /\ context'.jmi = context.jmi /\ context'.state = context.state
    BY <1>0, <2>1, Written
  <2>3. WasOpened(context.sid, "session-initiate")' /\ Live(context)'
    BY <2>1, <2>2 DEF WasOpened, Live
  <2> QED BY <2>1, <2>2, <2>3, UpdatedSides
<1> QED BY <1>1, <1>2, <1>3, <1>4, <1>5, <1>6 DEF JingleStep

\* Every step keeps calls with their side.
LEMMA NextSides ==
    ASSUME CallInvariant, SidesAreKnown, Next
    PROVE  SidesAreKnown'
BY OpeningsGrow, UserSides, IdleSides, TimerSides, JmiSides, JingleSides DEF Next, NetworkStep

-----------------------------------------------------------------------------
(* Which engines there are, where each contact has one device.             *)

\* No contact answers from a second device: see the run "forked" for one that does.
OneDevicePerContact == \A d, e \in Devices : Bare[d] = Bare[e] => d = e

\* Only the engine the controller holds is open; it speaks to the selected device,
\* which opened the session; the descriptions and candidates kept are its own.
EnginesAreCurrent ==
    /\ NoEngineLeaks
    /\ media # NoEngine =>
          /\ media[2] = context.full
          /\ IF context.incoming THEN WasOpened(context.sid, "session-initiate")
             ELSE <<context.sid, context.full, "proceed">> \in openings
    /\ localDescription \in {NoEngine, media}
    /\ \A i \in DOMAIN pendingLocal : pendingLocal[i] = media /\ media # NoEngine

Unstarted(sid) == \A d \in Devices : engines[<<sid, d>>] = "none"

\* An engine is started for what opened it, and so only once; there is none for a
\* call that rings or waits.
EnginesStartOnce ==
    /\ \A sid \in Sids, d \in Devices :
          engines[<<sid, d>>] # "none" =>
              IF sid \in OwnSids THEN <<sid, d, "proceed">> \in openings
                                 ELSE WasOpened(sid, "session-initiate")
    /\ \A sid \in PeerSids :
          WasOpened(sid, "session-initiate") => sid \in Direct \/ Proposed(sid)
    /\ context.state = "ringing" => Unstarted(context.sid)
    /\ waiting # NoCall => Unstarted(waiting.sid)

\* What engines report, and what is queued of it, comes from engines that were started.
ReportsAreOfStarted ==
    /\ \A i \in DOMAIN idle : idle[i].what \in Reports => engines[idle[i].source] # "none"
    /\ \A e \in Engines, what \in Reports : <<e, what>> \in reports => engines[e] # "none"

EngineInvariant ==
    CallInvariant /\ SidesAreKnown /\ EnginesAreCurrent /\ EnginesStartOnce
    /\ ReportsAreOfStarted

(* What a step may do to the engines.                                      *)

MediaKept ==
    /\ UNCHANGED <<media, engines, localDescription, pendingLocal>>
    /\ media # NoEngine =>
          /\ context'.sid = context.sid /\ context'.full = context.full
          /\ context'.incoming = context.incoming
    /\ context'.state = "connected" => SameCall \/ MediaConnected

MediaDropped == CloseMedia /\ ForgetDescriptions /\ context'.state # "connected"

MediaOpened ==
    /\ media' \in Engines /\ media' = <<context'.sid, context'.full>>
    /\ engines[media'] = "none"
    /\ engines' = [e \in Engines |-> IF e = media' THEN "open"
                                     ELSE IF e = media THEN "closed" ELSE engines[e]]
    /\ localDescription' = NoEngine /\ pendingLocal' = <<>>
    /\ context'.state = "negotiating"
    /\ IF context'.incoming THEN WasOpened(context.sid, "session-initiate")'
       ELSE <<context'.sid, context'.full, "proceed">> \in openings'

MediaDescribed ==
    /\ UNCHANGED <<media, engines, context>>
    /\ \/ localDescription' = localDescription
       \/ media # NoEngine /\ localDescription' = media
    /\ \/ pendingLocal' \in {pendingLocal, <<>>}
       \/ media # NoEngine /\ pendingLocal' = Append(pendingLocal, media)

MediaGoes == MediaKept \/ MediaDropped \/ MediaOpened \/ MediaDescribed

\* _finish_local drops the engine.
LEMMA FinishLocalDrops ==
    ASSUME CallInvariant, NEW state \in Terminal, NEW win, NEW bar,
           FinishLocal(state, win, bar)
    PROVE  MediaDropped
<1>1. context'.state # "connected"
  BY DEF FinishLocal, CallInvariant, TypeOK, CallsTyped, CallRecord, WaitingBehindActive, Live,
     LiveStates, Terminal
<1> QED BY <1>1 DEF FinishLocal, MediaDropped

\* What leaves the active call leaves its engine.
LEMMA SameMedia ==
    ASSUME context' = context, UNCHANGED mediaVars
    PROVE  MediaKept
BY DEF MediaKept, SameCall, mediaVars

\* _clear_waiting is such a step.
LEMMA ClearWaitingKeeps == ASSUME ClearWaiting PROVE MediaKept
BY DEF ClearWaiting, MediaKept, SameCall

\* hangup drops the engine or there is none.
LEMMA HangupDrops ==
    ASSUME CallInvariant, Hangup
    PROVE  MediaGoes
BY FinishLocalDrops, SameMedia DEF Hangup, MediaGoes, callVars, Terminal

\* Without a live call there is no engine.
LEMMA NoMedia ==
    ASSUME CallInvariant, context.state \notin {"negotiating", "connected"}
    PROVE  media = NoEngine
BY DEF CallInvariant, MediaBelongsToCall

\* _start_media opens one where there was none.
LEMMA StartMediaOpens ==
    ASSUME EngineInvariant, media = NoEngine, NEW sid \in Sids, NEW device \in Devices,
           NEW answerer, StartMedia(sid, device, answerer),
           context'.sid = sid, context'.full = device, context'.state = "negotiating",
           engines[<<sid, device>>] = "none",
           IF context'.incoming THEN WasOpened(context.sid, "session-initiate")'
           ELSE <<sid, device, "proceed">> \in openings'
    PROVE  MediaOpened
<1>1. /\ media' = <<sid, device>> /\ localDescription' = localDescription
      /\ engines' = [engines EXCEPT ![<<sid, device>>] = "open"] /\ pendingLocal' = pendingLocal
  BY DEF StartMedia
<1>2. engines \in [Engines -> {"none", "open", "closed"}] /\ <<sid, device>> \in Engines
  BY DEF EngineInvariant, CallInvariant, TypeOK, MediaTyped, Engines
<1>3. engines' = [e \in Engines |-> IF e = media' THEN "open"
                                   ELSE IF e = media THEN "closed" ELSE engines[e]]
  BY <1>1, <1>2, Constants
<1>4. localDescription' = NoEngine
  BY <1>1 DEF EngineInvariant, EnginesAreCurrent
<1>5. pendingLocal' = <<>>
  <2>1. pendingLocal \in Seq(Engines) /\ DOMAIN pendingLocal = {}
    BY DEF EngineInvariant, CallInvariant, TypeOK, MediaTyped, EnginesAreCurrent
  <2> QED BY <1>1, <2>1
<1> QED BY <1>1, <1>2, <1>3, <1>4, <1>5 DEF MediaOpened

\* What the user does.
LEMMA UserMedia ==
    ASSUME EngineInvariant, UserStep
    PROVE  MediaGoes
<1>0. CallInvariant
  BY DEF EngineInvariant
<1>1. ASSUME NEW sid \in OwnSids, StartOutgoing(sid) PROVE MediaGoes
  <2>1. CASE Live(context)
    BY <1>1, <2>1, SameMedia DEF StartOutgoing, MediaGoes
  <2>2. CASE ~Live(context)
    <3>1. media = NoEngine
      BY <1>0, <2>2, NoMedia DEF Live, LiveStates
    <3> QED BY <1>1, <2>2, <3>1 DEF StartOutgoing, OutgoingCall, mediaVars, MediaKept, MediaGoes
  <2> QED BY <2>1, <2>2
<1>2. CASE ToolbarHangup
  BY <1>0, <1>2, HangupDrops DEF ToolbarHangup
<1>3. CASE ClickAccept \/ ClickDecline \/ ClickHangup \/ CloseWindow
  BY <1>3, SameMedia DEF ClickAccept, ClickDecline, ClickHangup, CloseWindow, Click, callVars,
     MediaGoes
<1>4. CASE Deactivate
  BY <1>4 DEF Deactivate, MediaDropped, MediaGoes, NoCall
<1> QED BY <1>1, <1>2, <1>3, <1>4 DEF UserStep

\* A description or a candidate that is not dropped is from the engine the controller
\* holds.
LEMMA ReadyIsCurrent ==
    ASSUME EngineInvariant, NEW what \in {"description", "candidate"}, Pop(what),
           engines[Source] # "closed"
    PROVE  Source = media /\ media \in Engines
<1>1. idle \in Seq(Callbacks) /\ idle # <<>> /\ Head(idle).what = what
  BY DEF EngineInvariant, CallInvariant, TypeOK, QueueTyped, Pop
<1>2. 1 \in DOMAIN idle /\ idle[1] = Head(idle)
  BY <1>1
<1>3. Source \in Engines /\ engines[Source] # "none"
  BY <1>1, <1>2 DEF EngineInvariant, CallInvariant, ReportsNameEngines, ReportsAreOfStarted,
     Reports, Outcomes, Source
<1>4. engines[Source] = "open"
  BY <1>3 DEF EngineInvariant, CallInvariant, TypeOK, MediaTyped
<1> QED BY <1>3, <1>4 DEF EngineInvariant, EnginesAreCurrent, NoEngineLeaks

\* What the queue brings.
LEMMA IdleMedia ==
    ASSUME EngineInvariant, IdleStep, openings \subseteq openings'
    PROVE  MediaGoes
<1>0. CallInvariant /\ context \in CallRecord /\ waiting \in CallRecord
  BY DEF EngineInvariant, CallInvariant, TypeOK, CallsTyped
<1>1. CASE AcceptWaiting
  <2>1. waiting # NoCall /\ context' = [waiting EXCEPT !.state = "negotiating"]
    BY <1>1 DEF AcceptWaiting
  <2>2. /\ waiting.incoming /\ waiting.full \in Devices /\ waiting.sid \in Sids
    BY <1>0, <2>1 DEF CallInvariant, WaitingBehindActive, CallsWellFormed, WellFormed
  <2>3. /\ context'.sid = waiting.sid /\ context'.full = waiting.full
        /\ context'.incoming = waiting.incoming /\ context'.state = "negotiating"
    BY <1>0, <2>1, Written
  <2>4. CASE waitingOffer
    <3>1. WasOpened(context.sid, "session-initiate")'
      BY <2>3, <2>4 DEF EngineInvariant, SidesAreKnown, OffersAreKept, WasOpened
    <3>2. engines[<<waiting.sid, waiting.full>>] = "none"
      BY <2>1, <2>2 DEF EngineInvariant, EnginesStartOnce, Unstarted
    <3>3. <<waiting.sid, waiting.full>> \in Engines
      BY <2>2 DEF Engines
    <3>4. /\ media' = <<waiting.sid, waiting.full>>
          /\ engines' = [e \in Engines |-> IF e = <<waiting.sid, waiting.full>> THEN "open"
                                           ELSE IF e = media THEN "closed" ELSE engines[e]]
          /\ localDescription' = NoEngine /\ pendingLocal' = <<>>
      BY <1>1, <2>4 DEF AcceptWaiting, ForgetDescriptions
    <3> QED BY <2>2, <2>3, <3>1, <3>2, <3>3, <3>4 DEF MediaOpened, MediaGoes
  <2>5. CASE ~waitingOffer
    BY <1>1, <2>3, <2>5 DEF AcceptWaiting, MediaDropped, MediaGoes
  <2> QED BY <2>4, <2>5
<1>2. CASE AcceptRinging
  <2>1. context.state = "ringing" /\ context' = [context EXCEPT !.state = "negotiating"]
    BY <1>2 DEF AcceptRinging
  <2>2. /\ media = NoEngine /\ context.incoming /\ context.full \in Devices
        /\ context.sid \in Sids
    BY <1>0, <2>1, NoMedia, LiveIsWellFormed DEF CallInvariant, CallsWellFormed, Live, LiveStates
  <2>3. /\ context'.sid = context.sid /\ context'.full = context.full
        /\ context'.incoming = context.incoming /\ context'.state = "negotiating"
    BY <1>0, <2>1, Written
  <2>4. CASE pendingOffer
    <3>1. WasOpened(context.sid, "session-initiate")'
      BY <2>3, <2>4 DEF EngineInvariant, SidesAreKnown, OffersAreKept, WasOpened
    <3>2. engines[<<context.sid, context.full>>] = "none"
      BY <2>1, <2>2 DEF EngineInvariant, EnginesStartOnce, Unstarted
    <3>3. StartMedia(context.sid, context.full, TRUE)
      BY <1>2, <2>4 DEF AcceptRinging
    <3> QED BY <2>2, <2>3, <3>1, <3>2, <3>3, StartMediaOpens DEF MediaGoes
  <2>5. CASE ~pendingOffer
    BY <1>2, <2>3, <2>5 DEF AcceptRinging, mediaVars, MediaKept, MediaGoes
  <2> QED BY <2>4, <2>5
<1>3. CASE AcceptNothing
  BY <1>3, SameMedia DEF AcceptNothing, callVars, MediaGoes
<1>4. CASE Decline
  BY <1>0, <1>4, ClearWaitingKeeps, FinishLocalDrops, SameMedia DEF Decline, DeclineWaiting,
     callVars, Terminal, MediaGoes
<1>5. CASE HangupClicked \/ WindowClosed
  BY <1>0, <1>5, HangupDrops, ClearWaitingKeeps DEF HangupClicked, WindowClosed, DeclineWaiting,
     MediaGoes
<1>6. CASE LocalDescriptionReady
  <2>1. UNCHANGED <<media, engines, context>>
    BY <1>6 DEF LocalDescriptionReady, callVars
  <2>2. CASE engines[Source] = "closed" \/ ~Live(context)
    BY <1>6, <2>1, <2>2 DEF LocalDescriptionReady, MediaDescribed, MediaGoes
  <2>3. CASE ~(engines[Source] = "closed" \/ ~Live(context))
    <3>1. Pop("description") /\ localDescription' = Source /\ pendingLocal' \in {pendingLocal, <<>>}
      BY <1>6, <2>3 DEF LocalDescriptionReady
    <3>2. Source = media /\ media \in Engines
      BY <2>3, <3>1, ReadyIsCurrent
    <3> QED BY <2>1, <3>1, <3>2, Constants DEF MediaDescribed, MediaGoes
  <2> QED BY <2>2, <2>3
<1>7. CASE LocalCandidateReady
  <2>1. UNCHANGED <<media, engines, context, localDescription>>
    BY <1>7 DEF LocalCandidateReady, callVars
  <2>2. CASE pendingLocal' = pendingLocal
    BY <2>1, <2>2 DEF MediaDescribed, MediaGoes
  <2>3. CASE pendingLocal' # pendingLocal
    <3>1. Pop("candidate") /\ engines[Source] # "closed" /\ pendingLocal' = Append(pendingLocal, Source)
      BY <1>7, <2>3 DEF LocalCandidateReady
    <3>2. Source = media /\ media \in Engines
      BY <3>1, ReadyIsCurrent
    <3> QED BY <2>1, <3>1, <3>2, Constants DEF MediaDescribed, MediaGoes
  <2> QED BY <2>2, <2>3
<1>8. CASE MediaConnected
  <2>1. UNCHANGED <<media, engines, localDescription, pendingLocal>>
    BY <1>8 DEF MediaConnected, mediaVars
  <2>2. context' = context \/ context' = [context EXCEPT !.state = "connected"]
    BY <1>8 DEF MediaConnected
  <2>3. /\ context'.sid = context.sid /\ context'.full = context.full
        /\ context'.incoming = context.incoming
    <3>1. CASE context' = context
      BY <3>1
    <3>2. CASE context' = [context EXCEPT !.state = "connected"]
      BY <1>0, <3>2, Written
    <3> QED BY <2>2, <3>1, <3>2
  <2> QED BY <1>8, <2>1, <2>3 DEF MediaKept, MediaGoes
<1>9. CASE MediaFailed
  BY <1>0, <1>9, FinishLocalDrops, SameMedia DEF MediaFailed, callVars, Terminal, MediaGoes
<1> QED BY <1>1, <1>2, <1>3, <1>4, <1>5, <1>6, <1>7, <1>8, <1>9 DEF IdleStep

\* What timeouts and the reports of engines bring.
LEMMA TimerMedia ==
    ASSUME EngineInvariant, TimerStep \/ MediaStep
    PROVE  MediaGoes
<1>0. CallInvariant
  BY DEF EngineInvariant
<1>1. CASE PhaseTimeout
  BY <1>0, <1>1, FinishLocalDrops, SameMedia DEF PhaseTimeout, callVars, Terminal, MediaGoes
<1>2. CASE WaitingTimeout
  BY <1>2, ClearWaitingKeeps, SameMedia DEF WaitingTimeout, DeclineWaiting, callVars, MediaGoes
<1>3. CASE MediaStep
  BY <1>3, SameMedia DEF MediaStep, EngineReports, callVars, MediaGoes
<1> QED BY <1>1, <1>2, <1>3 DEF TimerStep

\* A device proceeds once, so if the contact has one device only there is no engine
\* for the call yet.
LEMMA ProceedIsFirst ==
    ASSUME EngineInvariant, OneDevicePerContact, NEW from \in Devices, NEW sid \in Sids,
           ForActiveCall(from, "proceed", sid), ~context.incoming
    PROVE  media = NoEngine /\ engines[<<sid, from>>] = "none"
<1>1. /\ sid \in OwnSids /\ <<sid, from, "proceed">> \notin openings
      /\ Bare[from] = Party[sid] /\ context.sid = sid /\ context # NoCall
  BY DEF ForActiveCall, MaySendJmi, ForContext
<1>2. ASSUME media # NoEngine PROVE FALSE
  <2>1. media \in Engines /\ context.full = media[2] /\ <<sid, context.full, "proceed">> \in openings
    BY <1>1, <1>2 DEF EngineInvariant, EnginesAreCurrent, CallInvariant, TypeOK, MediaTyped
  <2>2. context.full \in Devices
    BY <2>1 DEF Engines
  <2>3. Bare[context.full] = Party[sid]
    BY <1>1, <2>2, Constants DEF EngineInvariant, SidesAreKnown, OfItsSide
  <2>4. context.full = from
    BY <1>1, <2>2, <2>3 DEF OneDevicePerContact
  <2> QED BY <1>1, <2>1, <2>4
<1>3. engines[<<sid, from>>] = "none"
  BY <1>1 DEF EngineInvariant, EnginesStartOnce
<1> QED BY <1>2, <1>3

\* One device opens a session, once, so there is no engine for the call yet.
LEMMA InitiateIsFirst ==
    ASSUME EngineInvariant, NEW from \in Devices, NEW sid \in Sids,
           Claimed(from, "session-initiate", sid)
    PROVE  /\ sid \in PeerSids /\ ~WasOpened(sid, "session-initiate") /\ Unstarted(sid)
           /\ context # NoCall /\ context.sid = sid => media = NoEngine
<1>1. sid \in PeerSids /\ ~WasOpened(sid, "session-initiate")
  BY DEF Claimed, MaySendJingle, WasOpened
<1>2. sid \notin OwnSids
  BY <1>1, SidAssumption
<1>3. Unstarted(sid)
  BY <1>1, <1>2 DEF EngineInvariant, EnginesStartOnce, Unstarted
<1>4. ASSUME context # NoCall, context.sid = sid, media # NoEngine PROVE FALSE
  <2>1. context.incoming
    BY <1>2, <1>4 DEF EngineInvariant, SidesAreKnown, OfItsSide
  <2> QED BY <1>1, <1>4, <2>1 DEF EngineInvariant, EnginesAreCurrent
<1> QED BY <1>1, <1>3, <1>4

\* What JMI messages bring.
LEMMA JmiMedia ==
    ASSUME EngineInvariant, OneDevicePerContact, NEW from \in Devices, NEW sid \in Sids,
           JmiStep(from, sid)
    PROVE  MediaGoes
<1>0. CallInvariant /\ context \in CallRecord
  BY DEF EngineInvariant, CallInvariant, TypeOK, CallsTyped
<1>1. CASE MigrateCall(from, sid) \/ LoseTieBreak(from, sid)
  BY <1>1 DEF MigrateCall, LoseTieBreak, Ring, IncomingCall, MediaDropped, MediaGoes
<1>2. CASE RingForProposal(from, sid)
  BY <1>0, <1>2, NoMedia DEF RingForProposal, Ring, IncomingCall, Live, LiveStates, mediaVars,
     MediaKept, MediaGoes
<1>3. CASE \/ RejectExtraProposal(from, sid) \/ WinTieBreak(from, sid)
           \/ PeerRings(from, sid) \/ ProposalWaits(from, sid)
  BY <1>3, SameMedia DEF RejectExtraProposal, WinTieBreak, PeerRings, ProposalWaits,
     ShowWaiting, callVars, MediaGoes
<1>4. ASSUME NEW action \in JmiActions,
             WaitingCallerGone(from, action, sid) \/ PeerEndsByJmi(from, action, sid)
      PROVE  MediaGoes
  BY <1>0, <1>4, ClearWaitingKeeps, FinishLocalDrops DEF WaitingCallerGone, PeerEndsByJmi,
     Terminal, MediaGoes
<1>5. CASE PeerProceeds(from, sid)
  <2>1. /\ ForActiveCall(from, "proceed", sid) /\ ~context.incoming /\ context.sid = sid
        /\ context' = [context EXCEPT !.full = from, !.state = "negotiating"]
        /\ StartMedia(sid, from, FALSE) /\ <<sid, from, "proceed">> \in openings'
    BY <1>5 DEF PeerProceeds, ForActiveCall, ForContext, Opens
  <2>2. /\ context'.sid = sid /\ context'.full = from /\ ~context'.incoming
        /\ context'.state = "negotiating"
    BY <1>0, <2>1 DEF CallRecord
  <2>3. media = NoEngine /\ engines[<<sid, from>>] = "none"
    BY <2>1, ProceedIsFirst
  <2> QED BY <2>1, <2>2, <2>3, StartMediaOpens DEF MediaGoes
<1>6. CASE LateProceed(from, sid)
  <2>1. media = NoEngine
    BY <1>6, ProceedIsFirst DEF LateProceed
  <2> QED BY <1>0, <1>6, <2>1 DEF LateProceed, CallRecord, mediaVars, MediaKept, SameCall, MediaGoes
<1> QED BY <1>1, <1>2, <1>3, <1>4, <1>5, <1>6 DEF JmiStep

\* What Jingle IQs bring.
LEMMA JingleMedia ==
    ASSUME EngineInvariant, NEW from \in Devices, NEW sid \in Sids, JingleStep(from, sid)
    PROVE  MediaGoes
<1>0. CallInvariant /\ context \in CallRecord
  BY DEF EngineInvariant, CallInvariant, TypeOK, CallsTyped
<1>1. CASE WaitingCallerTerminates(from, sid) \/ PeerTerminates(from, sid)
  BY <1>0, <1>1, ClearWaitingKeeps, FinishLocalDrops DEF WaitingCallerTerminates,
     PeerTerminates, Terminal, MediaGoes
<1>2. CASE RingForSession(from, sid)
  BY <1>0, <1>2, NoMedia DEF RingForSession, Ring, IncomingCall, Live, LiveStates, mediaVars,
     MediaKept, MediaGoes
<1>3. CASE \/ WaitingCallerInitiates(from, sid) \/ RejectExtraSession(from, sid)
           \/ SessionWaits(from, sid) \/ SessionAfterEnd(from, sid)
  BY <1>3, SameMedia DEF WaitingCallerInitiates, RejectExtraSession, SessionWaits,
     ShowWaiting, SessionAfterEnd, callVars, MediaGoes
<1>4. CASE \/ WaitingCallerTrickles(from, sid) \/ SessionAccepted(from, sid)
           \/ PeerTrickles(from, sid)
  BY <1>4 DEF WaitingCallerTrickles, SessionAccepted, PeerTrickles, callVars, MediaKept,
     SameCall, MediaGoes
<1>5. CASE SessionInitiated(from, sid)
  <2>1. /\ Claimed(from, "session-initiate", sid) /\ Live(context) /\ context.sid = sid
        /\ context' = [context EXCEPT !.full = from]
        /\ <<sid, from, "session-initiate">> \in openings'
    BY <1>5 DEF SessionInitiated, ForActiveSession, Owns, Claimed
  <2>2. /\ context'.sid = sid /\ context'.full = from /\ context'.incoming = context.incoming
        /\ context'.state = context.state
    BY <1>0, <2>1, Written
  <2>3. /\ sid \in PeerSids /\ Unstarted(sid) /\ media = NoEngine
    BY <2>1, InitiateIsFirst DEF Live, LiveStates, NoCall
  <2>4. CASE context.state = "negotiating"
    <3>1. StartMedia(sid, from, TRUE)
      BY <1>5, <2>4 DEF SessionInitiated
    <3>2. engines[<<sid, from>>] = "none"
      BY <2>3 DEF Unstarted
    <3>3. WasOpened(context.sid, "session-initiate")'
      BY <2>1, <2>2 DEF WasOpened
    <3>4. context.incoming
      BY <2>1, <2>3, SidAssumption DEF EngineInvariant, SidesAreKnown, OfItsSide, Live,
         LiveStates, NoCall
    <3> QED BY <2>2, <2>3, <2>4, <3>1, <3>2, <3>3, <3>4, StartMediaOpens DEF MediaGoes
  <2>5. CASE context.state # "negotiating"
    BY <1>5, <2>2, <2>3, <2>5 DEF SessionInitiated, mediaVars, MediaKept, SameCall, MediaGoes
  <2> QED BY <2>4, <2>5
<1> QED BY <1>1, <1>2, <1>3, <1>4, <1>5 DEF JingleStep

\* Every step keeps the engine, drops it, starts the one of its call, or hears of its
\* description or a candidate.
LEMMA NextMedia ==
    ASSUME EngineInvariant, OneDevicePerContact, Next
    PROVE  MediaGoes
BY OpeningsGrow, UserMedia, IdleMedia, TimerMedia, JmiMedia, JingleMedia DEF Next, NetworkStep

-----------------------------------------------------------------------------
(* The invariant is inductive.                                             *)

\* An engine that was started was; only a step that opens one starts one.
LEMMA StartedStay ==
    ASSUME EngineInvariant, MediaGoes
    PROVE  \A e \in Engines :
              /\ engines[e] # "none" => engines'[e] # "none"
              /\ engines'[e] # "none" => engines[e] # "none" \/ (MediaOpened /\ e = media')
              /\ engines'[e] = "open" => engines[e] = "open" \/ (MediaOpened /\ e = media')
<1>0. /\ engines \in [Engines -> {"none", "open", "closed"}] /\ media \in Engines \cup {NoEngine}
      /\ media # NoEngine => engines[media] = "open"
  BY DEF EngineInvariant, CallInvariant, TypeOK, MediaTyped, MediaBelongsToCall
<1>1. CASE MediaKept \/ MediaDescribed
  BY <1>1 DEF MediaKept, MediaDescribed
<1>2. CASE MediaDropped
  <2>1. engines' = IF media = NoEngine THEN engines ELSE [engines EXCEPT ![media] = "closed"]
    BY <1>2 DEF MediaDropped, CloseMedia
  <2>2. CASE media = NoEngine
    BY <2>1, <2>2
  <2>3. CASE media # NoEngine
    <3>1. media \in Engines /\ engines' = [engines EXCEPT ![media] = "closed"]
      BY <1>0, <2>1, <2>3
    <3> QED BY <1>0, <2>3, <3>1
  <2> QED BY <2>2, <2>3
<1>3. CASE MediaOpened
  <2>1. /\ media' \in Engines
        /\ engines' = [e \in Engines |-> IF e = media' THEN "open"
                                         ELSE IF e = media THEN "closed" ELSE engines[e]]
    BY <1>3 DEF MediaOpened
  <2> DEFINE opened == [e \in Engines |-> IF e = media' THEN "open"
                                         ELSE IF e = media THEN "closed" ELSE engines[e]]
  <2>2. \A e \in Engines : /\ e = media' => opened[e] = "open"
                           /\ e # media' /\ e = media => opened[e] = "closed"
                           /\ e # media' /\ e # media => opened[e] = engines[e]
    OBVIOUS
  <2>3. engines' = opened
    BY <2>1
  <2> HIDE DEF opened
  <2> SUFFICES ASSUME NEW e \in Engines, e # media'
               PROVE  /\ engines[e] # "none" => engines'[e] # "none"
                      /\ engines'[e] # "none" => engines[e] # "none"
                      /\ engines'[e] = "open" => engines[e] = "open"
    BY <1>3, <2>2, <2>3
  <2>4. CASE e = media
    BY <1>0, <2>2, <2>3, <2>4, Constants
  <2>5. CASE e # media
    BY <2>2, <2>3, <2>5
  <2> QED BY <2>4, <2>5
<1> QED BY <1>1, <1>2, <1>3 DEF MediaGoes

\* What is open is the controller's.
LEMMA CurrentPreserved ==
    ASSUME EngineInvariant, MediaGoes, openings \subseteq openings'
    PROVE  EnginesAreCurrent'
<1>0. /\ engines \in [Engines -> {"none", "open", "closed"}] /\ media \in Engines \cup {NoEngine}
      /\ pendingLocal \in Seq(Engines) /\ EnginesAreCurrent
  BY DEF EngineInvariant, CallInvariant, TypeOK, MediaTyped
<1>1. CASE MediaKept
  BY <1>0, <1>1 DEF MediaKept, EnginesAreCurrent, NoEngineLeaks, WasOpened
<1>2. CASE MediaDropped
  <2>1. /\ media' = NoEngine /\ localDescription' = NoEngine /\ pendingLocal' = <<>>
        /\ engines' = IF media = NoEngine THEN engines ELSE [engines EXCEPT ![media] = "closed"]
    BY <1>2 DEF MediaDropped, CloseMedia, ForgetDescriptions
  <2>2. NoEngineLeaks'
    BY <1>0, <2>1 DEF EnginesAreCurrent, NoEngineLeaks
  <2> QED BY <2>1, <2>2 DEF EnginesAreCurrent
<1>3. CASE MediaOpened
  <2>1. NoEngineLeaks'
    BY <1>0, <1>3 DEF MediaOpened, EnginesAreCurrent, NoEngineLeaks
  <2>2. /\ media'[2] = context'.full /\ media'[1] = context'.sid
        /\ localDescription' = NoEngine /\ pendingLocal' = <<>>
    BY <1>3 DEF MediaOpened
  <2>3. IF context'.incoming THEN WasOpened(context.sid, "session-initiate")'
        ELSE <<context'.sid, context'.full, "proceed">> \in openings'
    BY <1>3 DEF MediaOpened
  <2> QED BY <2>1, <2>2, <2>3 DEF EnginesAreCurrent
<1>4. CASE MediaDescribed
  <2>1. UNCHANGED <<media, engines, context>> /\ localDescription' \in {NoEngine, media}
    BY <1>0, <1>4 DEF MediaDescribed, EnginesAreCurrent
  <2>2. \A i \in DOMAIN pendingLocal' : pendingLocal'[i] = media /\ media # NoEngine
    <3>1. CASE pendingLocal' \in {pendingLocal, <<>>}
      BY <1>0, <3>1 DEF EnginesAreCurrent
    <3>2. CASE media # NoEngine /\ pendingLocal' = Append(pendingLocal, media)
      BY <1>0, <3>2 DEF EnginesAreCurrent
    <3> QED BY <1>4, <3>1, <3>2 DEF MediaDescribed
  <2> QED BY <1>0, <2>1, <2>2 DEF EnginesAreCurrent, NoEngineLeaks, WasOpened
<1> QED BY <1>1, <1>2, <1>3, <1>4 DEF MediaGoes

\* The session of a contact is opened after its proposal, or by a caller who makes
\* none; what this side opens are its own.
LEMMA InitiatesAreProposed ==
    ASSUME EngineInvariant, Next, NEW sid \in PeerSids
    PROVE  WasOpened(sid, "session-initiate")' =>
              WasOpened(sid, "session-initiate") \/ sid \in Direct \/ Proposed(sid)
<1> DEFINE Permitted == sid \in Direct \/ Proposed(sid)
           NewInitiates == \A d : <<sid, d, "session-initiate">> \in openings' =>
                              <<sid, d, "session-initiate">> \in openings \/ Permitted
<1> SUFFICES NewInitiates
  BY DEF WasOpened
<1>0. ASSUME NEW t \in Sids, NEW e \in Devices \cup {NoJid}, NEW f \in Devices \cup {NoJid},
             NEW action \in {"propose", "proceed"},
             openings' \subseteq openings \cup {<<t, e, action>>, <<t, f, "proceed">>}
      PROVE  NewInitiates
  <2>1. \A d : /\ <<sid, d, "session-initiate">> # <<t, e, action>>
               /\ <<sid, d, "session-initiate">> # <<t, f, "proceed">>
    OBVIOUS
  <2> QED BY <1>0, <2>1
<1> DEFINE Speaks == \E t \in Sids : \E e, f \in Devices \cup {NoJid} :
                       \E action \in {"propose", "proceed"} :
              openings' \subseteq openings \cup {<<t, e, action>>, <<t, f, "proceed">>}
<1>9. Speaks => NewInitiates
  BY <1>0
<1>8. openings' = openings => NewInitiates
  OBVIOUS
<1>7. /\ context # NoCall => context.sid \in Sids /\ context.full \in Devices \cup {NoJid}
      /\ waiting # NoCall => waiting.sid \in Sids /\ waiting.full \in Devices \cup {NoJid}
  BY DEF EngineInvariant, CallInvariant, TypeOK, CallsTyped, CallRecord, CallsWellFormed,
     WellFormed
<1>1. CASE UserStep
  <2>1. ASSUME NEW s \in OwnSids, StartOutgoing(s) PROVE Speaks \/ openings' = openings
    BY <2>1 DEF StartOutgoing, Sids
  <2>2. CASE ~\E s \in OwnSids : StartOutgoing(s)
    BY <1>1, <2>2 DEF UserStep, ToolbarHangup, ClickAccept, ClickDecline, ClickHangup,
       CloseWindow, Click, Deactivate, networkVars
  <2> QED BY <1>8, <1>9, <2>1, <2>2
<1>2. CASE IdleStep
  <2>1. CASE LocalDescriptionReady
    <3>1. CASE openings' = openings
      BY <3>1
    <3>2. CASE openings' # openings
      <4>1. /\ Live(context) /\ ~context.incoming
            /\ openings' = openings \cup {<<context.sid, context.full, "session-initiate">>}
        BY <2>1, <3>2 DEF LocalDescriptionReady
      <4>2. context.sid # sid
        BY <4>1, SidAssumption DEF EngineInvariant, SidesAreKnown, OfItsSide, Live, LiveStates,
           NoCall
      <4> QED BY <4>1, <4>2
    <3> QED BY <3>1, <3>2
  <2>2. CASE AcceptWaiting \/ AcceptRinging
    <3>1. \/ openings' = openings
          \/ /\ waiting # NoCall
             /\ openings' = openings \cup {<<waiting.sid, waiting.full, "proceed">>}
          \/ /\ context # NoCall
             /\ openings' = openings \cup {<<context.sid, context.full, "proceed">>}
      <4>1. CASE AcceptWaiting
        BY <4>1 DEF AcceptWaiting
      <4>2. CASE AcceptRinging
        <5>1. context # NoCall
          BY <4>2 DEF AcceptRinging, NoCall
        <5> QED BY <4>2, <5>1 DEF AcceptRinging
      <4> QED BY <2>2, <4>1, <4>2
    <3>2. CASE \/ /\ waiting # NoCall
                 /\ openings' = openings \cup {<<waiting.sid, waiting.full, "proceed">>}
              \/ /\ context # NoCall
                 /\ openings' = openings \cup {<<context.sid, context.full, "proceed">>}
      <4>1. \E t \in Sids : \E e \in Devices \cup {NoJid} :
               openings' = openings \cup {<<t, e, "proceed">>}
        BY <1>7, <3>2
      <4>2. Speaks
        BY <4>1
      <4> QED BY <1>9, <4>2
    <3> QED BY <1>8, <3>1, <3>2
  <2>3. CASE openings' = openings
    BY <2>3
  <2> QED BY <1>2, <2>1, <2>2, <2>3 DEF IdleStep, AcceptNothing, Decline, HangupClicked,
         WindowClosed, LocalCandidateReady, MediaConnected, MediaFailed
<1>3. CASE TimerStep \/ MediaStep
  BY <1>3 DEF TimerStep, PhaseTimeout, WaitingTimeout, MediaStep, EngineReports, networkVars
<1>4. ASSUME NEW from \in Devices, NEW s \in Sids, JmiStep(from, s) PROVE NewInitiates
  <2>1. \/ openings' = openings
        \/ openings' = openings \cup {<<s, from, "propose">>}
        \/ openings' = openings \cup {<<s, from, "proceed">>}
        \/ openings' = openings \cup {<<s, from, "propose">>, <<s, from, "proceed">>}
    BY <1>4 DEF JmiStep, MigrateCall, RejectExtraProposal, ProposalWaits, WinTieBreak,
       LoseTieBreak, RingForProposal, WaitingCallerGone, PeerRings, PeerProceeds, LateProceed,
       PeerEndsByJmi, Opens, networkVars
  <2> QED BY <1>8, <1>9, <2>1
<1>5. ASSUME NEW from \in Devices, NEW s \in Sids, JingleStep(from, s) PROVE NewInitiates
  <2>1. PICK action \in JingleActions : Claimed(from, action, s)
    BY <1>5 DEF JingleStep, WaitingCallerInitiates, WaitingCallerTrickles,
       WaitingCallerTerminates, RejectExtraSession, SessionWaits, SessionAfterEnd,
       RingForSession, SessionInitiated, SessionAccepted, PeerTrickles, PeerTerminates,
       ForActiveSession, JingleActions
  <2> QED BY <2>1 DEF Claimed, MaySendJingle
<1> QED BY <1>1, <1>2, <1>3, <1>4, <1>5 DEF Next, NetworkStep

\* A call of the next state that rings or waits has no engine yet.
FreshNext == /\ context'.state = "ringing" => Unstarted(context'.sid)
             /\ waiting' # NoCall => Unstarted(waiting'.sid)

\* So it is if it is a call of this state, or a fresh one.
LEMMA FreshCalls ==
    ASSUME EngineInvariant,
           \/ context'.state # "ringing"
           \/ context'.state = context.state /\ context'.sid = context.sid
           \/ waiting # NoCall /\ context' = waiting
           \/ Unstarted(context'.sid),
           \/ waiting' = NoCall
           \/ waiting # NoCall /\ waiting'.sid = waiting.sid
           \/ Unstarted(waiting'.sid)
    PROVE  FreshNext
BY DEF EngineInvariant, EnginesStartOnce, FreshNext

\* _finish_local leaves such calls.
LEMMA FinishLocalFresh ==
    ASSUME EngineInvariant, NEW state \in Terminal, NEW win, NEW bar,
           FinishLocal(state, win, bar)
    PROVE  FreshNext
<1>0. context \in CallRecord
  BY DEF EngineInvariant, CallInvariant, TypeOK, CallsTyped
<1>1. waiting' = NoCall
  BY DEF FinishLocal, NoWaiting
<1>2. CASE waiting # NoCall
  <2>1. context' = waiting
    BY <1>2 DEF FinishLocal
  <2> QED BY <1>1, <1>2, <2>1, FreshCalls
<1>3. CASE waiting = NoCall
  <2>1. context' = IF Live(context) THEN [context EXCEPT !.state = state] ELSE context
    BY <1>3 DEF FinishLocal
  <2>2. context'.state # "ringing"
    BY <1>0, <2>1 DEF CallRecord, Live, LiveStates, Terminal
  <2> QED BY <1>1, <2>2, FreshCalls
<1> QED BY <1>2, <1>3

\* So does what leaves the calls.
LEMMA SameFresh ==
    ASSUME EngineInvariant, UNCHANGED <<context, waiting>>
    PROVE  FreshNext
BY FreshCalls

LEMMA ClearWaitingFresh == ASSUME EngineInvariant, ClearWaiting PROVE FreshNext
BY FreshCalls DEF ClearWaiting, NoWaiting

LEMMA HangupFresh == ASSUME EngineInvariant, Hangup PROVE FreshNext
BY FinishLocalFresh, SameFresh DEF Hangup, callVars, Terminal

\* A proposal is for a session id without an engine.
LEMMA ProposalIsFresh ==
    ASSUME EngineInvariant, NEW from \in Devices, NEW sid \in Sids, Proposal(from, sid)
    PROVE  Unstarted(sid)
<1>1. sid \in PeerSids \ Direct /\ ~Proposed(sid)
  BY DEF Proposal, MaySendJmi
<1>2. sid \notin OwnSids /\ ~WasOpened(sid, "session-initiate")
  BY <1>1, SidAssumption DEF EngineInvariant, EnginesStartOnce
<1> QED BY <1>1, <1>2 DEF EngineInvariant, EnginesStartOnce, Unstarted

\* Every step leaves such calls.
LEMMA NextFresh ==
    ASSUME EngineInvariant, Next
    PROVE  FreshNext
<1>0. context \in CallRecord /\ waiting \in CallRecord
  BY DEF EngineInvariant, CallInvariant, TypeOK, CallsTyped
<1>1. CASE UserStep
  <2>1. ASSUME NEW sid \in OwnSids, StartOutgoing(sid) PROVE FreshNext
    BY <2>1, FreshCalls, SameFresh DEF StartOutgoing, OutgoingCall
  <2>2. CASE ToolbarHangup
    BY <2>2, HangupFresh DEF ToolbarHangup
  <2>3. CASE ClickAccept \/ ClickDecline \/ ClickHangup \/ CloseWindow
    BY <2>3, SameFresh DEF ClickAccept, ClickDecline, ClickHangup, CloseWindow, Click, callVars
  <2>4. CASE Deactivate
    BY <2>4, FreshCalls DEF Deactivate, NoWaiting, NoCall
  <2> QED BY <1>1, <2>1, <2>2, <2>3, <2>4 DEF UserStep
<1>2. CASE IdleStep
  <2>1. CASE AcceptWaiting
    <3>1. waiting' = NoCall /\ context' = [waiting EXCEPT !.state = "negotiating"]
      BY <2>1 DEF AcceptWaiting, NoWaiting
    <3>2. context'.state = "negotiating"
      BY <1>0, <3>1, Written
    <3> QED BY <3>1, <3>2, FreshCalls
  <2>2. CASE AcceptRinging
    <3>1. waiting' = waiting /\ context' = [context EXCEPT !.state = "negotiating"]
      BY <2>2 DEF AcceptRinging
    <3>2. context'.state = "negotiating"
      BY <1>0, <3>1, Written
    <3> QED BY <3>1, <3>2, FreshCalls
  <2>3. CASE AcceptNothing \/ LocalDescriptionReady \/ LocalCandidateReady
    BY <2>3, SameFresh DEF AcceptNothing, LocalDescriptionReady, LocalCandidateReady, callVars
  <2>4. CASE Decline
    BY <2>4, ClearWaitingFresh, FinishLocalFresh, SameFresh DEF Decline, DeclineWaiting,
       callVars, Terminal
  <2>5. CASE HangupClicked \/ WindowClosed
    BY <2>5, HangupFresh, ClearWaitingFresh DEF HangupClicked, WindowClosed, DeclineWaiting
  <2>6. CASE MediaConnected
    <3>1. CASE context' = context
      BY <2>6, <3>1, SameFresh DEF MediaConnected
    <3>2. CASE context' = [context EXCEPT !.state = "connected"]
      <4>1. context'.state = "connected"
        BY <1>0, <3>2, Written
      <4> QED BY <2>6, <4>1, FreshCalls DEF MediaConnected
    <3> QED BY <2>6, <3>1, <3>2 DEF MediaConnected
  <2>7. CASE MediaFailed
    BY <2>7, FinishLocalFresh, SameFresh DEF MediaFailed, callVars, Terminal
  <2> QED BY <1>2, <2>1, <2>2, <2>3, <2>4, <2>5, <2>6, <2>7 DEF IdleStep
<1>3. CASE TimerStep \/ MediaStep
  BY <1>3, FinishLocalFresh, ClearWaitingFresh, SameFresh DEF TimerStep, PhaseTimeout,
     WaitingTimeout, DeclineWaiting, MediaStep, EngineReports, callVars, Terminal
<1>4. ASSUME NEW from \in Devices, NEW sid \in Sids, JmiStep(from, sid) PROVE FreshNext
  <2>1. CASE MigrateCall(from, sid) \/ LoseTieBreak(from, sid) \/ RingForProposal(from, sid)
    <3>1. Unstarted(sid) /\ context'.sid = sid
      BY <2>1, ProposalIsFresh DEF MigrateCall, LoseTieBreak, RingForProposal, Ring, IncomingCall
    <3> QED BY <2>1, <3>1, FreshCalls DEF MigrateCall, LoseTieBreak, RingForProposal, NoWaiting
  <2>2. CASE ProposalWaits(from, sid)
    <3>1. Unstarted(sid) /\ waiting'.sid = sid /\ context' = context
      BY <2>2, ProposalIsFresh DEF ProposalWaits, ShowWaiting, IncomingCall
    <3> QED BY <3>1, FreshCalls
  <2>3. CASE RejectExtraProposal(from, sid) \/ WinTieBreak(from, sid) \/ PeerRings(from, sid)
    BY <2>3, SameFresh DEF RejectExtraProposal, WinTieBreak, PeerRings, callVars
  <2>4. ASSUME NEW action \in JmiActions,
               WaitingCallerGone(from, action, sid) \/ PeerEndsByJmi(from, action, sid)
        PROVE  FreshNext
    BY <2>4, ClearWaitingFresh, FinishLocalFresh DEF WaitingCallerGone, PeerEndsByJmi, Terminal
  <2>5. CASE PeerProceeds(from, sid)
    <3>1. /\ context' = [context EXCEPT !.full = from, !.state = "negotiating"]
          /\ waiting' = waiting
      BY <2>5 DEF PeerProceeds
    <3>2. context'.state = "negotiating"
      BY <1>0, <3>1 DEF CallRecord
    <3> QED BY <3>1, <3>2, FreshCalls
  <2>6. CASE LateProceed(from, sid)
    <3>1. context' = [context EXCEPT !.full = from] /\ waiting' = waiting
      BY <2>6 DEF LateProceed
    <3> QED BY <1>0, <3>1, Written, FreshCalls
  <2> QED BY <1>4, <2>1, <2>2, <2>3, <2>4, <2>5, <2>6 DEF JmiStep
<1>5. ASSUME NEW from \in Devices, NEW sid \in Sids, JingleStep(from, sid) PROVE FreshNext
  <2>1. CASE WaitingCallerTerminates(from, sid) \/ PeerTerminates(from, sid)
    BY <2>1, ClearWaitingFresh, FinishLocalFresh DEF WaitingCallerTerminates, PeerTerminates,
       Terminal
  <2>2. CASE RingForSession(from, sid)
    <3>1. Unstarted(sid) /\ context'.sid = sid /\ waiting' = waiting
      BY <2>2, InitiateIsFirst DEF RingForSession, Ring, IncomingCall
    <3> QED BY <3>1, FreshCalls
  <2>3. CASE SessionWaits(from, sid)
    <3>1. Unstarted(sid) /\ waiting'.sid = sid /\ context' = context
      BY <2>3, InitiateIsFirst DEF SessionWaits, ShowWaiting, IncomingCall
    <3> QED BY <3>1, FreshCalls
  <2>4. CASE WaitingCallerInitiates(from, sid)
    <3>1. /\ waiting # NoCall /\ waiting' = [waiting EXCEPT !.full = from]
          /\ context' = context
      BY <2>4 DEF WaitingCallerInitiates, ForWaiting
    <3> QED BY <1>0, <3>1, Written, FreshCalls
  <2>5. CASE SessionInitiated(from, sid)
    <3>1. context' = [context EXCEPT !.full = from] /\ waiting' = waiting
      BY <2>5 DEF SessionInitiated
    <3> QED BY <1>0, <3>1, Written, FreshCalls
  <2>6. CASE \/ WaitingCallerTrickles(from, sid) \/ RejectExtraSession(from, sid)
             \/ SessionAfterEnd(from, sid) \/ SessionAccepted(from, sid)
             \/ PeerTrickles(from, sid)
    BY <2>6, SameFresh DEF WaitingCallerTrickles, RejectExtraSession, SessionAfterEnd,
       SessionAccepted, PeerTrickles, callVars
  <2> QED BY <1>5, <2>1, <2>2, <2>3, <2>4, <2>5, <2>6 DEF JingleStep
<1> QED BY <1>1, <1>2, <1>3, <1>4, <1>5 DEF Next, NetworkStep

\* No engine is started twice, nor before its call is answered.
LEMMA StartOncePreserved ==
    ASSUME EngineInvariant, MediaGoes, Next, CallInvariant', SidesAreKnown'
    PROVE  EnginesStartOnce'
<1>1. openings \subseteq openings'
  BY OpeningsGrow
<1>2. ASSUME NEW sid \in Sids, NEW d \in Devices, engines'[<<sid, d>>] # "none"
      PROVE  IF sid \in OwnSids THEN <<sid, d, "proceed">> \in openings'
             ELSE WasOpened(sid, "session-initiate")'
  <2>1. <<sid, d>> \in Engines
    BY DEF Engines
  <2>2. CASE engines[<<sid, d>>] # "none"
    BY <1>1, <2>2 DEF EngineInvariant, EnginesStartOnce, WasOpened
  <2>3. CASE engines[<<sid, d>>] = "none"
    <3>1. MediaOpened /\ media' = <<sid, d>>
      BY <1>2, <2>1, <2>3, StartedStay
    <3>2. context'.sid = sid /\ context'.full = d /\ context' # NoCall
      BY <3>1, Constants DEF MediaOpened, NoCall
    <3>3. IF context'.incoming THEN sid \in PeerSids ELSE sid \in OwnSids
      BY <3>2 DEF SidesAreKnown, OfItsSide
    <3>4. IF context'.incoming THEN WasOpened(sid, "session-initiate")'
          ELSE <<sid, d, "proceed">> \in openings'
      BY <3>1, <3>2 DEF MediaOpened, WasOpened
    <3> QED BY <3>3, <3>4, SidAssumption
  <2> QED BY <2>2, <2>3
<1>3. ASSUME NEW sid \in PeerSids, WasOpened(sid, "session-initiate")'
      PROVE  sid \in Direct \/ Proposed(sid)'
  BY <1>1, <1>3, InitiatesAreProposed DEF EngineInvariant, EnginesStartOnce, Proposed
<1>4. ASSUME NEW sid, sid \in Sids, Unstarted(sid),
             MediaOpened => context'.sid # sid
      PROVE  Unstarted(sid)'
  <2> SUFFICES ASSUME NEW d \in Devices PROVE engines'[<<sid, d>>] = "none"
    BY DEF Unstarted
  <2>1. <<sid, d>> \in Engines /\ engines[<<sid, d>>] = "none"
    BY <1>4 DEF Engines, Unstarted
  <2>2. MediaOpened => media' # <<sid, d>>
    BY <1>4 DEF MediaOpened
  <2> QED BY <2>1, <2>2, StartedStay
<1>5. MediaOpened => context'.state = "negotiating"
  BY DEF MediaOpened
<1>6. /\ context'.state = "ringing" => context'.sid \in Sids
      /\ waiting' # NoCall => waiting'.sid \in Sids /\ waiting'.sid # context'.sid
  BY DEF CallInvariant, CallsWellFormed, WellFormed, WaitingBehindActive, NoCall
<1>7. (context.state = "ringing" => Unstarted(context.sid))'
  <2> SUFFICES ASSUME context'.state = "ringing" PROVE Unstarted(context.sid)'
    OBVIOUS
  <2>1. Unstarted(context'.sid)
    BY NextFresh DEF FreshNext
  <2> QED BY <1>4, <1>5, <1>6, <2>1 DEF Unstarted
<1>8. (waiting # NoCall => Unstarted(waiting.sid))'
  <2> SUFFICES ASSUME waiting' # NoCall PROVE Unstarted(waiting.sid)'
    OBVIOUS
  <2>1. Unstarted(waiting'.sid)
    BY NextFresh DEF FreshNext
  <2> QED BY <1>4, <1>6, <2>1 DEF Unstarted
<1> QED BY <1>2, <1>3, <1>7, <1>8 DEF EnginesStartOnce

\* What a step may do to the queue: nothing or a click if nothing is ahead of it that
\* must run first, else it takes the first callback or adds a report.
QueueGoes ==
    \/ MayOvertake /\ UNCHANGED <<idle, reports>>
    \/ /\ MayOvertake /\ reports' = reports
       /\ \E what \in Clicks : \E source : Queue(what, source)
    \/ \E what \in (Clicks \cup Reports) \ {"description"} : Pop(what)
    \/ LocalDescriptionReady
    \/ \E e \in Engines, what \in Reports : EngineReports(e, what)

\* Every step does so.
LEMMA NextQueue == ASSUME Next PROVE QueueGoes
<1>1. CASE UserStep
  BY <1>1 DEF UserStep, StartOutgoing, ToolbarHangup, ClickAccept, ClickDecline, ClickHangup,
     CloseWindow, Click, Clicks, ButtonClicks, Deactivate, QueueGoes
<1>2. CASE IdleStep
  BY <1>2 DEF IdleStep, AcceptWaiting, AcceptRinging, AcceptNothing, Decline, HangupClicked,
     WindowClosed, LocalCandidateReady, MediaConnected, MediaFailed, Clicks, ButtonClicks,
     Reports, Outcomes, QueueGoes
<1>3. CASE TimerStep \/ MediaStep
  BY <1>3 DEF TimerStep, PhaseTimeout, WaitingTimeout, MediaStep, QueueGoes
<1>4. ASSUME NEW from \in Devices, NEW sid \in Sids, JmiStep(from, sid) PROVE QueueGoes
  BY <1>4 DEF JmiStep, MigrateCall, RejectExtraProposal, ProposalWaits, WinTieBreak,
     LoseTieBreak, RingForProposal, Proposal, WaitingCallerGone, PeerRings, PeerProceeds,
     LateProceed, PeerEndsByJmi, ForActiveCall, MaySendJmi, QueueGoes
<1>5. ASSUME NEW from \in Devices, NEW sid \in Sids, JingleStep(from, sid) PROVE QueueGoes
  BY <1>5 DEF JingleStep, WaitingCallerInitiates, WaitingCallerTrickles,
     WaitingCallerTerminates, RejectExtraSession, SessionWaits, SessionAfterEnd,
     RingForSession, SessionInitiated, SessionAccepted, PeerTrickles, PeerTerminates,
     ForActiveSession, Claimed, MaySendJingle, QueueGoes
<1> QED BY <1>1, <1>2, <1>3, <1>4, <1>5 DEF Next, NetworkStep

\* Only engines that were started report.
LEMMA ReportsPreserved ==
    ASSUME EngineInvariant, MediaGoes, QueueGoes
    PROVE  ReportsAreOfStarted'
<1>0. idle \in Seq(Callbacks) /\ ReportsNameEngines /\ ReportsAreOfStarted
  BY DEF EngineInvariant, CallInvariant, TypeOK, QueueTyped
<1>1. \A e \in Engines : engines[e] # "none" => engines'[e] # "none"
  BY StartedStay
<1> DEFINE Meant(callback) == callback.what \in Reports =>
                                callback.source \in Engines /\ engines[callback.source] # "none"
<1>2. \A i \in DOMAIN idle : Meant(idle[i])
  BY <1>0 DEF ReportsNameEngines, ReportsAreOfStarted
<1>3. SUFFICES /\ \A i \in DOMAIN idle' : Meant(idle'[i])
               /\ \A e \in Engines, what \in Reports :
                     <<e, what>> \in reports' => engines[e] # "none"
  BY <1>1 DEF ReportsAreOfStarted
<1>4. CASE UNCHANGED <<idle, reports>>
  BY <1>0, <1>2, <1>4 DEF ReportsAreOfStarted
<1>5. ASSUME NEW what \in Clicks, NEW source, Queue(what, source), reports' = reports
      PROVE  /\ \A i \in DOMAIN idle' : Meant(idle'[i])
             /\ \A e \in Engines, r \in Reports : <<e, r>> \in reports' => engines[e] # "none"
  <2> DEFINE callback == [what |-> what, source |-> source]
  <2>1. idle' = Append(idle, callback) /\ callback.what \notin Reports
    BY <1>5 DEF Queue, Clicks, ButtonClicks, Reports, Outcomes
  <2> HIDE DEF callback
  <2>2. \A i \in DOMAIN idle' : \/ i \in DOMAIN idle /\ idle'[i] = idle[i]
                               \/ idle'[i] = callback
    BY <1>0, <2>1
  <2> QED BY <1>0, <1>2, <1>5, <2>1, <2>2 DEF ReportsAreOfStarted
<1>6. ASSUME NEW what, Pop(what)
      PROVE  /\ \A i \in DOMAIN idle' : Meant(idle'[i])
             /\ \A e \in Engines, r \in Reports : <<e, r>> \in reports' => engines[e] # "none"
  <2>1. idle # <<>> /\ idle' = Tail(idle) /\ reports' = reports
    BY <1>6 DEF Pop
  <2>2. \A i \in DOMAIN idle' : i + 1 \in DOMAIN idle /\ idle'[i] = idle[i + 1]
    BY <1>0, <2>1
  <2> QED BY <1>0, <1>2, <2>1, <2>2 DEF ReportsAreOfStarted
<1>7. ASSUME NEW e \in Engines, NEW what \in Reports, EngineReports(e, what)
      PROVE  /\ \A i \in DOMAIN idle' : Meant(idle'[i])
             /\ \A f \in Engines, r \in Reports : <<f, r>> \in reports' => engines[f] # "none"
  <2> DEFINE callback == [what |-> what, source |-> e]
  <2>1. idle' = Append(idle, callback) /\ reports' = reports \cup {<<e, what>>}
    BY <1>7 DEF EngineReports, Queue
  <2>2. engines[e] # "none"
    BY <1>7, Constants DEF EngineReports, EngineInvariant, CallInvariant, MediaBelongsToCall
  <2>3. Meant(callback)
    BY <2>2
  <2> HIDE DEF callback
  <2>4. \A i \in DOMAIN idle' : \/ i \in DOMAIN idle /\ idle'[i] = idle[i]
                               \/ idle'[i] = callback
    BY <1>0, <2>1
  <2>5. \A f \in Engines, r \in Reports : <<f, r>> \in reports' => engines[f] # "none"
    BY <1>0, <2>1, <2>2 DEF ReportsAreOfStarted
  <2> QED BY <1>2, <2>3, <2>4, <2>5
<1>8. LocalDescriptionReady => Pop("description")
  BY DEF LocalDescriptionReady
<1> QED BY <1>4, <1>5, <1>6, <1>7, <1>8 DEF QueueGoes

\* Where each contact has one device the engines are what EngineInvariant says.
LEMMA NextEngines ==
    ASSUME OneDevicePerContact, EngineInvariant, [Next]_vars
    PROVE  EngineInvariant'
<1>1. CallInvariant'
  BY NextInvariant DEF EngineInvariant
<1>2. CASE Next
  <2>1. SidesAreKnown'
    BY <1>2, NextSides DEF EngineInvariant
  <2>2. MediaGoes /\ QueueGoes /\ openings \subseteq openings'
    BY <1>2, NextMedia, NextQueue, OpeningsGrow
  <2> QED BY <1>1, <1>2, <2>1, <2>2, CurrentPreserved, StartOncePreserved, ReportsPreserved
       DEF EngineInvariant
<1>3. CASE UNCHANGED vars
  BY <1>1, <1>3 DEF vars, callVars, mediaVars, networkVars, EngineInvariant, SidesAreKnown,
     OfItsSide, OffersAreKept, Live, WasOpened, EnginesAreCurrent, NoEngineLeaks,
     EnginesStartOnce, Unstarted, Proposed, ReportsAreOfStarted
<1> QED BY <1>2, <1>3

LEMMA InitEngines == Init => EngineInvariant
BY InitInvariant DEF Init, EngineInvariant, SidesAreKnown, OfItsSide, OffersAreKept, Live,
   LiveStates, NoCall, WasOpened, EnginesAreCurrent, NoEngineLeaks, EnginesStartOnce,
   Unstarted, Engines, ReportsAreOfStarted

LEMMA EnginesHold == OneDevicePerContact => (Spec => []EngineInvariant)
<1> SUFFICES ASSUME OneDevicePerContact PROVE Spec => []EngineInvariant
  OBVIOUS
<1>1. EngineInvariant /\ [Next]_vars => EngineInvariant'
  BY NextEngines
<1> QED BY <1>1, InitEngines, PTL DEF Spec

\* No engine is left open that the controller does not hold, if each contact has one
\* device: a second one that proceeds with a call is given an engine of its own, and
\* nobody closes the first (controller.py, _start_media).
THEOREM EnginesDoNotLeak == OneDevicePerContact => (Spec => []NoEngineLeaks)
<1> SUFFICES ASSUME OneDevicePerContact PROVE Spec => []NoEngineLeaks
  OBVIOUS
<1>1. EngineInvariant => NoEngineLeaks
  BY DEF EngineInvariant, EnginesAreCurrent
<1> QED BY <1>1, EnginesHold, PTL

-----------------------------------------------------------------------------
(* A connected call has its engine.                                        *)

\* A description that the controller's engine has reported is there or on its way.
DescriptionIsComing ==
    media # NoEngine /\ <<media, "description">> \in reports =>
        \/ localDescription = media
        \/ \E i \in DOMAIN idle : idle[i].what = "description" /\ idle[i].source = media

Described(i) ==
    \/ localDescription = media
    \/ \E j \in DOMAIN idle : j < i /\ idle[j].what = "description" /\ idle[j].source = media

\* When the controller's engine is heard to have connected its description was taken.
ConnectionsAreDescribed ==
    \A i \in DOMAIN idle :
        media # NoEngine /\ idle[i].what = "connected" /\ idle[i].source = media => Described(i)

\* An engine starts without reports, and the description it reports is kept.
LEMMA ComingPreserved ==
    ASSUME EngineInvariant, MediaGoes, QueueGoes, DescriptionIsComing
    PROVE  DescriptionIsComing'
<1>0. idle \in Seq(Callbacks) /\ media \in Engines \cup {NoEngine} /\ ReportsAreOfStarted
  BY DEF EngineInvariant, CallInvariant, TypeOK, QueueTyped, MediaTyped
<1> DEFINE IsIt(callback) == callback.what = "description" /\ callback.source = media
<1> SUFFICES ASSUME media' # NoEngine, <<media', "description">> \in reports',
                    localDescription' # media'
             PROVE  \E i \in DOMAIN idle' :
                       idle'[i].what = "description" /\ idle'[i].source = media'
  BY DEF DescriptionIsComing
<1>1. media' = media /\ localDescription # media
  <2>1. ~MediaDropped
    BY DEF MediaDropped, CloseMedia
  <2>2. ASSUME MediaOpened PROVE FALSE
    <3>1. media' \in Engines /\ engines[media'] = "none"
      BY <2>2 DEF MediaOpened
    <3>2. <<media', "description">> \notin reports
      BY <1>0, <3>1 DEF ReportsAreOfStarted, Reports
    <3>3. PICK e \in Engines, what \in Reports : EngineReports(e, what)
      BY <3>2 DEF QueueGoes, Pop, LocalDescriptionReady
    <3>4. media' = media
      BY <3>3 DEF EngineReports, mediaVars
    <3> QED BY <3>1, <3>4 DEF EngineInvariant, CallInvariant, MediaBelongsToCall
  <2>3. media' = media /\ (localDescription' = localDescription \/ localDescription' = media)
    BY <2>1, <2>2 DEF MediaGoes, MediaKept, MediaDescribed
  <2> QED BY <2>3
<1>2. SUFFICES \E i \in DOMAIN idle' : IsIt(idle'[i])
  BY <1>1
<1>3. <<media, "description">> \in reports => \E i \in DOMAIN idle : IsIt(idle[i])
  BY <1>1 DEF DescriptionIsComing
<1>4. CASE UNCHANGED <<idle, reports>>
  BY <1>1, <1>3, <1>4
<1>5. ASSUME NEW callback, idle' = Append(idle, callback),
             <<media, "description">> \in reports \/ IsIt(callback)
      PROVE  \E i \in DOMAIN idle' : IsIt(idle'[i])
  <2>1. /\ \A i \in DOMAIN idle : i \in DOMAIN idle' /\ idle'[i] = idle[i]
        /\ Len(idle) + 1 \in DOMAIN idle' /\ idle'[Len(idle) + 1] = callback
    BY <1>0, <1>5
  <2> QED BY <1>3, <1>5, <2>1
<1>6. ASSUME NEW what \in Clicks, NEW source, Queue(what, source), reports' = reports
      PROVE  \E i \in DOMAIN idle' : IsIt(idle'[i])
  BY <1>1, <1>5, <1>6 DEF Queue
<1>7. ASSUME NEW e \in Engines, NEW what \in Reports, EngineReports(e, what)
      PROVE  \E i \in DOMAIN idle' : IsIt(idle'[i])
  <2> DEFINE callback == [what |-> what, source |-> e]
  <2>1. idle' = Append(idle, callback) /\ reports' = reports \cup {<<e, what>>}
    BY <1>7 DEF EngineReports, Queue
  <2>2. <<media, "description">> \in reports \/ IsIt(callback)
    BY <1>1, <2>1
  <2> QED BY <1>5, <2>1, <2>2
<1>8. ASSUME NEW what, Pop(what), what = "description" => Source # media
      PROVE  \E i \in DOMAIN idle' : IsIt(idle'[i])
  <2>1. idle # <<>> /\ idle' = Tail(idle) /\ Head(idle).what = what /\ reports' = reports
    BY <1>8 DEF Pop
  <2>2. ~IsIt(Head(idle))
    BY <1>8, <2>1 DEF Source
  <2>3. ASSUME NEW i \in DOMAIN idle
        PROVE  \/ i = 1 /\ idle[i] = Head(idle)
               \/ i - 1 \in DOMAIN idle' /\ idle[i] = idle'[i - 1]
    <3>1. idle' = Tail(idle) /\ idle # <<>>
      BY <2>1
    <3> QED BY <1>0, <3>1
  <2>4. PICK i \in DOMAIN idle : IsIt(idle[i])
    BY <1>1, <1>3, <2>1
  <2>5. i - 1 \in DOMAIN idle' /\ idle[i] = idle'[i - 1]
    BY <2>2, <2>3, <2>4
  <2> QED BY <2>4, <2>5
<1>9. ASSUME LocalDescriptionReady, Source = media PROVE FALSE
  <2>1. engines[media] # "closed" /\ Live(context)
    BY <1>1 DEF EngineInvariant, CallInvariant, MediaBelongsToCall, Live, LiveStates
  <2> QED BY <1>1, <1>9, <2>1 DEF LocalDescriptionReady
<1>10. LocalDescriptionReady => Pop("description")
  BY DEF LocalDescriptionReady
<1> QED BY <1>4, <1>6, <1>7, <1>8, <1>9, <1>10 DEF QueueGoes

\* An engine reports that it has connected after its description, and the queue keeps
\* that order.
LEMMA ConnectionsPreserved ==
    ASSUME EngineInvariant, MediaGoes, QueueGoes, DescriptionIsComing,
           ConnectionsAreDescribed
    PROVE  ConnectionsAreDescribed'
<1>0. idle \in Seq(Callbacks) /\ media \in Engines \cup {NoEngine} /\ ReportsAreOfStarted
  BY DEF EngineInvariant, CallInvariant, TypeOK, QueueTyped, MediaTyped
<1> SUFFICES ASSUME media' # NoEngine, localDescription' # media',
                    NEW i \in DOMAIN idle', idle'[i].what = "connected",
                    idle'[i].source = media'
             PROVE  \E j \in DOMAIN idle' : /\ j < i /\ idle'[j].what = "description"
                                            /\ idle'[j].source = media'
  BY DEF ConnectionsAreDescribed, Described
<1>1. \/ \E k \in DOMAIN idle : idle[k] = idle'[i]
      \/ \E e \in Engines, what \in Reports : EngineReports(e, what)
  <2>1. ASSUME MayOvertake, NEW what \in Clicks, NEW source, Queue(what, source)
        PROVE  \E k \in DOMAIN idle : idle[k] = idle'[i]
    <3> DEFINE callback == [what |-> what, source |-> source]
    <3>1. idle' = Append(idle, callback) /\ callback.what # "connected"
      BY <2>1 DEF Queue, Clicks, ButtonClicks
    <3> HIDE DEF callback
    <3> QED BY <1>0, <3>1
  <2>2. ASSUME NEW what, Pop(what) PROVE \E k \in DOMAIN idle : idle[k] = idle'[i]
    <3>1. idle' = Tail(idle) /\ idle # <<>>
      BY <2>2 DEF Pop
    <3>2. i + 1 \in DOMAIN idle /\ idle'[i] = idle[i + 1]
      BY <1>0, <3>1
    <3> QED BY <3>2
  <2>3. LocalDescriptionReady => Pop("description")
    BY DEF LocalDescriptionReady
  <2> QED BY <2>1, <2>2, <2>3 DEF QueueGoes
<1>2. media' = media /\ localDescription # media
  <2>1. ~MediaDropped
    BY DEF MediaDropped, CloseMedia
  <2>2. ASSUME MediaOpened PROVE FALSE
    <3>1. media' \in Engines /\ engines[media'] = "none"
      BY <2>2 DEF MediaOpened
    <3>2. ~\E k \in DOMAIN idle : idle[k] = idle'[i]
      BY <1>0, <3>1 DEF ReportsAreOfStarted, Reports, Outcomes
    <3>3. media' = media
      BY <1>1, <3>2 DEF EngineReports, mediaVars
    <3> QED BY <3>1, <3>3 DEF EngineInvariant, CallInvariant, MediaBelongsToCall
  <2>3. media' = media /\ (localDescription' = localDescription \/ localDescription' = media)
    BY <2>1, <2>2 DEF MediaGoes, MediaKept, MediaDescribed
  <2> QED BY <2>3
<1> DEFINE IsIt(callback) == callback.what = "description" /\ callback.source = media
<1>3. SUFFICES \E j \in DOMAIN idle' : j < i /\ IsIt(idle'[j])
  BY <1>2
<1>4. ASSUME NEW k \in DOMAIN idle, idle[k] = idle'[i]
      PROVE  \E j \in DOMAIN idle : j < k /\ IsIt(idle[j])
  BY <1>2, <1>4 DEF ConnectionsAreDescribed, Described
<1>5. CASE UNCHANGED idle
  BY <1>4, <1>5
<1>6. ASSUME NEW callback, idle' = Append(idle, callback),
             callback.what = "connected" /\ callback.source = media
                => \E j \in DOMAIN idle : IsIt(idle[j])
      PROVE  \E j \in DOMAIN idle' : j < i /\ IsIt(idle'[j])
  <2>1. /\ \A j \in DOMAIN idle : j \in DOMAIN idle' /\ idle'[j] = idle[j]
        /\ \/ i \in DOMAIN idle /\ idle'[i] = idle[i]
           \/ i = Len(idle) + 1 /\ idle'[i] = callback
    BY <1>0, <1>6
  <2>2. CASE i \in DOMAIN idle
    <3>1. PICK j \in DOMAIN idle : j < i /\ IsIt(idle[j])
      BY <1>4, <2>1, <2>2
    <3> QED BY <2>1, <3>1
  <2>3. CASE i = Len(idle) + 1 /\ idle'[i] = callback
    <3>1. PICK j \in DOMAIN idle : IsIt(idle[j])
      BY <1>2, <1>6, <2>3
    <3>2. j < i
      BY <1>0, <2>3
    <3> QED BY <2>1, <3>1, <3>2
  <2> QED BY <2>1, <2>2, <2>3
<1>7. ASSUME NEW what \in Clicks, NEW source, Queue(what, source)
      PROVE  \E j \in DOMAIN idle' : j < i /\ IsIt(idle'[j])
  BY <1>6, <1>7 DEF Queue, Clicks, ButtonClicks
<1>8. ASSUME NEW e \in Engines, NEW what \in Reports, EngineReports(e, what)
      PROVE  \E j \in DOMAIN idle' : j < i /\ IsIt(idle'[j])
  <2> DEFINE callback == [what |-> what, source |-> e]
  <2>1. idle' = Append(idle, callback) /\ callback.what = what /\ callback.source = e
    BY <1>8 DEF Queue, EngineReports
  <2>2. what = "connected" /\ e = media => \E j \in DOMAIN idle : IsIt(idle[j])
    BY <1>2, <1>8 DEF EngineReports, DescriptionIsComing
  <2> HIDE DEF callback
  <2> QED BY <1>6, <2>1, <2>2
<1>9. ASSUME NEW what, Pop(what), what = "description" => Source # media
      PROVE  \E j \in DOMAIN idle' : j < i /\ IsIt(idle'[j])
  <2>1. idle # <<>> /\ idle' = Tail(idle) /\ Head(idle).what = what
    BY <1>9 DEF Pop
  <2>2. ~IsIt(Head(idle)) /\ Head(idle) = idle[1]
    BY <1>0, <1>9, <2>1 DEF Source
  <2>3. i \in Nat /\ i + 1 \in DOMAIN idle /\ idle'[i] = idle[i + 1]
    BY <1>0, <2>1
  <2>4. PICK j \in DOMAIN idle : j < i + 1 /\ IsIt(idle[j])
    BY <1>4, <2>3
  <2>5. j # 1
    BY <2>2, <2>4
  <2>6. j - 1 \in DOMAIN idle' /\ idle'[j - 1] = idle[j] /\ j - 1 < i
    BY <1>0, <2>1, <2>3, <2>4, <2>5
  <2> QED BY <2>4, <2>6
<1>10. ASSUME LocalDescriptionReady, Source = media PROVE FALSE
  <2>1. engines[media] # "closed" /\ Live(context)
    BY <1>2 DEF EngineInvariant, CallInvariant, MediaBelongsToCall, Live, LiveStates
  <2> QED BY <1>2, <1>10, <2>1 DEF LocalDescriptionReady
<1>11. LocalDescriptionReady => Pop("description")
  BY DEF LocalDescriptionReady
<1> QED BY <1>5, <1>7, <1>8, <1>9, <1>10, <1>11 DEF QueueGoes

\* A call connects with the engine that connected, and keeps it; what connects without
\* it goes on so.
KeepsMedia == CallHasMedia' \/ (~CallHasMedia /\ SameCall)

LEMMA ConnectedPreserved ==
    ASSUME EngineInvariant, MediaGoes, ConnectionsAreDescribed, ~LateConnection
    PROVE  KeepsMedia
<1>0. TypeOK /\ ReportsNameEngines /\ media \in Engines \cup {NoEngine}
  BY DEF EngineInvariant, CallInvariant, TypeOK, MediaTyped
<1> SUFFICES ASSUME context'.state = "connected", ~(~CallHasMedia /\ SameCall)
             PROVE  media' = <<context'.sid, context'.full>> /\ localDescription' = media'
  BY DEF KeepsMedia, CallHasMedia
<1>1. CASE MediaDescribed /\ ~MediaKept
  BY <1>1 DEF MediaDescribed, CallHasMedia, SameCall
<1>2. CASE MediaKept
  <2>1. media # NoEngine /\ media = <<context.sid, context.full>> /\ localDescription = media
    <3>1. CASE context.state = "connected" /\ CallHasMedia
      <4>1. context.sid \in Sids
        BY <3>1 DEF EngineInvariant, CallInvariant, CallsWellFormed, WellFormed, NoCall
      <4> QED BY <3>1, <4>1, Constants DEF CallHasMedia, NoEngine
    <3>2. CASE MediaConnected
      <4>1. Pop("connected") /\ Source = media
        BY <3>2 DEF MediaConnected, LateConnection
      <4>2. media \in Engines /\ media # NoEngine
        BY <1>0, <4>1, PopTypes, Constants DEF Reports, Outcomes
      <4>3. media[1] = context.sid /\ media[2] = context.full
        BY <4>2 DEF EngineInvariant, CallInvariant, MediaBelongsToCall, EnginesAreCurrent
      <4>4. 1 \in DOMAIN idle /\ idle[1].what = "connected" /\ idle[1].source = media
        BY <1>0, <4>1 DEF Pop, Source, TypeOK, QueueTyped
      <4>5. media = <<media[1], media[2]>>
        BY <4>2 DEF Engines
      <4>6. Described(1)
        BY <4>2, <4>4 DEF ConnectionsAreDescribed
      <4>7. \A j \in DOMAIN idle : ~(j < 1)
        BY <1>0 DEF TypeOK, QueueTyped
      <4> QED BY <4>2, <4>3, <4>5, <4>6, <4>7 DEF Described
    <3>3. SameCall => context.state = "connected"
      BY DEF SameCall
    <3> QED BY <1>2, <3>1, <3>2, <3>3 DEF MediaKept
  <2> QED BY <1>2, <2>1 DEF MediaKept
<1>3. ~MediaDropped /\ ~MediaOpened
  BY DEF MediaDropped, MediaOpened
<1> QED BY <1>1, <1>2, <1>3 DEF MediaGoes

\* A connected call has an engine, that of the selected device, and its description, if
\* each contact has one device: a connection that is reported too late is all that
\* makes one connected without.
THEOREM ConnectedCallsHaveMedia ==
    OneDevicePerContact => (Spec => ConnectedCallHasMedia)
<1> SUFFICES ASSUME OneDevicePerContact PROVE Spec => ConnectedCallHasMedia
  OBVIOUS
<1> DEFINE Connects == DescriptionIsComing /\ ConnectionsAreDescribed
<1>1. Init => Connects /\ CallHasMedia
  BY DEF Init, DescriptionIsComing, ConnectionsAreDescribed, CallHasMedia, NoCall
<1>2. EngineInvariant /\ Connects /\ [Next]_vars => Connects'
  <2> SUFFICES ASSUME EngineInvariant, Connects, [Next]_vars PROVE Connects'
    OBVIOUS
  <2>1. CASE Next
    <3>1. MediaGoes /\ QueueGoes
      BY <2>1, NextMedia, NextQueue
    <3> QED BY <3>1, ComingPreserved, ConnectionsPreserved
  <2>2. CASE UNCHANGED vars
    BY <2>2 DEF vars, callVars, mediaVars, DescriptionIsComing, ConnectionsAreDescribed,
       Described
  <2> QED BY <2>1, <2>2
<1>3. EngineInvariant /\ Connects /\ [Next]_vars
         => [LateConnection \/ CallHasMedia' \/ (~CallHasMedia /\ SameCall)]_vars
  <2> SUFFICES ASSUME EngineInvariant, Connects, Next, ~LateConnection PROVE KeepsMedia
    BY DEF KeepsMedia
  <2> QED BY NextMedia, ConnectedPreserved
<1> QED BY <1>1, <1>2, <1>3, EnginesHold, PTL DEF Spec, ConnectedCallHasMedia

-----------------------------------------------------------------------------
(* Who gets the candidates.                                                *)

\* The stanzas that carry a description or a candidate, and the sequences without any.
Carriers == {"session-initiate", "session-accept", "transport-info"}

Plain(stanzas) ==
    \E set : stanzas \in Seq(set) /\ \A stanza \in set : stanza.action \notin Carriers

LEMMA PlainOf ==
    ASSUME NEW set, NEW s \in Seq(set), \A stanza \in set : stanza.action \notin Carriers
    PROVE  Plain(s)
BY DEF Plain

LEMMA PlainParts ==
    /\ Plain(<<>>)
    /\ \A a : a.action \notin Carriers => Plain(<<a>>)
    /\ \A a, b : a.action \notin Carriers /\ b.action \notin Carriers => Plain(<<a, b>>)
<1>1. Plain(<<>>)
  <2> DEFINE none == {}
  <2>1. <<>> \in Seq(none) /\ \A stanza \in none : stanza.action \notin Carriers
    OBVIOUS
  <2> HIDE DEF none
  <2> QED BY <2>1, PlainOf
<1>2. ASSUME NEW a, NEW b, a.action \notin Carriers, b.action \notin Carriers
      PROVE  Plain(<<a>>) /\ Plain(<<a, b>>)
  <2> DEFINE set == {a, b}
  <2>1. \A stanza \in set : stanza.action \notin Carriers
    BY <1>2
  <2>2. <<a>> \in Seq(set) /\ <<a, b>> \in Seq(set)
    OBVIOUS
  <2> HIDE DEF set
  <2> QED BY <2>1, <2>2, PlainOf
<1> QED BY <1>1, <1>2

LEMMA PlainAppended ==
    ASSUME NEW s, NEW t, Plain(s), Plain(t)
    PROVE  Plain(s \o t)
<1>1. PICK one : s \in Seq(one) /\ \A stanza \in one : stanza.action \notin Carriers
  BY DEF Plain
<1>2. PICK two : t \in Seq(two) /\ \A stanza \in two : stanza.action \notin Carriers
  BY DEF Plain
<1>3. s \in Seq(one \cup two) /\ t \in Seq(one \cup two)
  BY <1>1, <1>2
<1>4. s \o t \in Seq(one \cup two)
  BY <1>3, ConcatProperties
<1> QED BY <1>1, <1>2, <1>4 DEF Plain

LEMMA PlainSays ==
    /\ \A to, action, sid : action \notin Carriers => Plain(<<Say(to, action, sid)>>)
    /\ \A condition, to, action, sid :
          action \notin Carriers => Plain(When(condition, Say(to, action, sid)))
    /\ \A to, sid : Plain(Proceed(to, sid))
<1>1. \A to, action, sid : Say(to, action, sid).action = action
  BY DEF Say
<1> QED BY <1>1, PlainParts DEF When, Proceed, Carriers

\* What ends a call is plain.
LEMMA PlainEnds ==
    Plain(HangupStanzas) /\ Plain(SwitchStanzas) /\ Plain(FailureStanzas)
<1>1. \A to, action, sid : Say(to, action, sid).action = action
  BY DEF Say
<1>2. Plain(HangupStanzas)
  BY <1>1, PlainParts, PlainSays, PlainAppended DEF HangupStanzas, Carriers
<1>3. Plain(SwitchStanzas)
  BY PlainSays, PlainAppended DEF SwitchStanzas, Carriers
<1>4. Plain(FailureStanzas)
  BY PlainSays, PlainAppended DEF FailureStanzas, Carriers
<1> QED BY <1>2, <1>3, <1>4

LEMMA PlainHandlers ==
    /\ Hangup => Plain(sent')
    /\ DeclineWaiting => Plain(sent')
    /\ PhaseTimeout => Plain(sent')
<1>1. Hangup => Plain(sent')
  BY PlainEnds, PlainParts DEF Hangup
<1>2. DeclineWaiting => Plain(sent')
  BY PlainSays DEF DeclineWaiting, Carriers
<1>3. ASSUME PhaseTimeout PROVE Plain(sent')
  <2> DEFINE plan == PlanTimeout(phaseTimer.phase, context.incoming, context.jmi, JingleStarted)
             other == IF plan.jmi = "retract" THEN context.peer ELSE Target(context)
  <2>1. \/ sent' = <<>>
        \/ sent' = When(plan.terminate /\ context.full # NoJid,
                        Say(context.full, "session-terminate", context.sid))
                   \o When(plan.jmi # "none", Say(other, plan.jmi, context.sid))
    BY <1>3 DEF PhaseTimeout
  <2>2. plan.jmi \notin Carriers /\ "session-terminate" \notin Carriers
    BY DEF PlanTimeout, Carriers
  <2> HIDE DEF plan, other
  <2> QED BY <2>1, <2>2, PlainParts, PlainSays, PlainAppended
<1> QED BY <1>1, <1>2, <1>3

\* Only an engine's description or candidate is sent on with candidates.
LEMMA NextPlain ==
    ASSUME Next, ~LocalDescriptionReady, ~LocalCandidateReady
    PROVE  Plain(sent')
<1>1. CASE UserStep
  BY <1>1, PlainParts, PlainSays, PlainHandlers DEF UserStep, StartOutgoing, ToolbarHangup,
     ClickAccept, ClickDecline, ClickHangup, CloseWindow, Click, Deactivate, Carriers
<1>2. CASE AcceptWaiting
  <2>1. \/ sent' = SwitchStanzas
        \/ sent' = SwitchStanzas \o Proceed(waiting.full, waiting.sid)
    BY <1>2 DEF AcceptWaiting
  <2> QED BY <2>1, PlainEnds, PlainSays, PlainAppended
<1>3. CASE AcceptRinging \/ AcceptNothing
  BY <1>3, PlainParts, PlainSays DEF AcceptRinging, AcceptNothing
<1>4. CASE Decline
  BY <1>4, PlainParts, PlainSays, PlainHandlers DEF Decline, Carriers
<1>5. CASE HangupClicked \/ WindowClosed
  BY <1>5, PlainHandlers DEF HangupClicked, WindowClosed
<1>6. CASE MediaConnected \/ MediaFailed
  BY <1>6, PlainParts, PlainEnds DEF MediaConnected, MediaFailed
<1>7. CASE TimerStep \/ MediaStep
  BY <1>7, PlainParts, PlainHandlers DEF TimerStep, WaitingTimeout, MediaStep, EngineReports
<1>8. ASSUME NEW from \in Devices, NEW sid \in Sids, JmiStep(from, sid) PROVE Plain(sent')
  <2>1. CASE MigrateCall(from, sid)
    <3> DEFINE first == When(context.full # NoJid /\ JingleStarted,
                             Say(context.full, "session-terminate", context.sid))
               second == <<Say(Target(context), "finish", context.sid)>>
               third == Proceed(from, sid)
    <3>1. Plain(first) /\ Plain(second) /\ Plain(third)
      BY PlainSays DEF Carriers
    <3>2. sent' = first \o second \o third
      BY <2>1 DEF MigrateCall
    <3> HIDE DEF first, second, third
    <3>3. Plain(first \o second)
      BY <3>1, PlainAppended
    <3> QED BY <3>1, <3>2, <3>3, PlainAppended
  <2>2. CASE LoseTieBreak(from, sid)
    <3>1. \A to, action, id : Say(to, action, id).action = action
      BY DEF Say
    <3> QED BY <2>2, <3>1, PlainParts DEF LoseTieBreak, Carriers
  <2>3. CASE ~MigrateCall(from, sid) /\ ~LoseTieBreak(from, sid)
    BY <1>8, <2>3, PlainParts, PlainSays DEF JmiStep, RejectExtraProposal, ProposalWaits,
       WinTieBreak, RingForProposal, PeerRings, PeerProceeds, LateProceed, WaitingCallerGone,
       PeerEndsByJmi, Carriers
  <2> QED BY <2>1, <2>2, <2>3
<1>9. ASSUME NEW from \in Devices, NEW sid \in Sids, JingleStep(from, sid) PROVE Plain(sent')
  <2>1. Plain(Ack(from, sid)) /\ Plain(<<Say(from, "session-terminate", sid)>>)
    BY PlainSays DEF Ack, Carriers
  <2>2. \/ sent' = Ack(from, sid)
        \/ sent' = Ack(from, sid) \o <<Say(from, "session-terminate", sid)>>
    BY <1>9 DEF JingleStep, WaitingCallerInitiates, WaitingCallerTrickles,
       WaitingCallerTerminates, RejectExtraSession, SessionWaits, SessionAfterEnd,
       RingForSession, SessionInitiated, SessionAccepted, PeerTrickles, PeerTerminates,
       ForActiveSession
  <2> QED BY <2>1, <2>2, PlainAppended
<1> QED BY <1>1, <1>2, <1>3, <1>4, <1>5, <1>6, <1>7, <1>8, <1>9 DEF Next, IdleStep, NetworkStep

\* Candidates are addressed as those of the engine the controller holds.
Current(stanza) == /\ stanza.media = media /\ stanza.sid = media[1] /\ stanza.to = media[2]

LEMMA CandidatesAreCurrent ==
    ASSUME EngineInvariant, NEW queued \in Seq(Engines), media \in Engines,
           \A i \in DOMAIN queued : queued[i] = media
    PROVE  /\ Candidates(queued) \in Seq(Stanzas)
           /\ \A i \in DOMAIN Candidates(queued) : Current(Candidates(queued)[i])
<1>1. media # NoEngine /\ media[1] = context.sid /\ media[2] = context.full
  BY Constants DEF EngineInvariant, CallInvariant, MediaBelongsToCall, EnginesAreCurrent
<1>2. context.sid \in Sids /\ context.full \in Devices
  BY <1>1 DEF Engines
<1>3. DOMAIN Candidates(queued) = 1..Len(queued) /\ Len(queued) \in Nat
  BY DEF Candidates
<1>4. ASSUME NEW i \in 1..Len(queued)
      PROVE  Candidates(queued)[i] = Carry(context.full, "transport-info", context.sid, media)
  BY <1>4 DEF Candidates
<1>5. Carry(context.full, "transport-info", context.sid, media) \in Stanzas
  BY <1>2 DEF Carry, Stanzas, JingleActions
<1>6. Current(Carry(context.full, "transport-info", context.sid, media))
  BY <1>1 DEF Carry, Current
<1> HIDE DEF Current
<1>7. Candidates(queued) = [i \in 1..Len(queued) |-> Candidates(queued)[i]]
  BY <1>3 DEF Candidates
<1> QED BY <1>3, <1>4, <1>5, <1>6, <1>7

\* A candidate is only sent after the description of its engine, to the device and in
\* the session that description went to, if each contact has one device.
THEOREM CandidatesFollowDescriptions ==
    OneDevicePerContact => (Spec => CandidateFollowsDescription)
<1> SUFFICES ASSUME OneDevicePerContact PROVE Spec => CandidateFollowsDescription
  OBVIOUS
<1> DEFINE Follows == \A i \in DOMAIN sent' : sent'[i].action = "transport-info" =>
                          /\ sent'[i].media = localDescription'
                          /\ sent'[i].sid = sent'[i].media[1]
                          /\ sent'[i].to = sent'[i].media[2]
<1>1. EngineInvariant /\ [Next]_vars => [Follows]_vars
  <2> SUFFICES ASSUME EngineInvariant, Next PROVE Follows
    OBVIOUS
  <2>1. CASE Plain(sent')
    <3>1. PICK set : sent' \in Seq(set) /\ \A s \in set : s.action \notin Carriers
      BY <2>1 DEF Plain
    <3>2. \A i \in DOMAIN sent' : sent'[i] \in set
      BY <3>1
    <3> QED BY <3>1, <3>2 DEF Carriers
  <2>2. CASE LocalDescriptionReady /\ sent' # <<>>
    <3>1. Pop("description") /\ engines[Source] # "closed" /\ localDescription' = Source
      BY <2>2 DEF LocalDescriptionReady
    <3>2. Source = media /\ media \in Engines
      BY <3>1, ReadyIsCurrent
    <3> DEFINE opening == Carry(context.full, IF context.incoming THEN "session-accept"
                                              ELSE "session-initiate", context.sid, Source)
    <3>3. sent' = <<opening>> \o Candidates(pendingLocal)
      BY <2>2 DEF LocalDescriptionReady
    <3>4. opening.action # "transport-info"
      BY DEF Carry
    <3>5. /\ Candidates(pendingLocal) \in Seq(Stanzas)
          /\ \A i \in DOMAIN Candidates(pendingLocal) : Current(Candidates(pendingLocal)[i])
      <4>1. pendingLocal \in Seq(Engines) /\ \A i \in DOMAIN pendingLocal : pendingLocal[i] = media
        BY DEF EngineInvariant, CallInvariant, TypeOK, MediaTyped, EnginesAreCurrent
      <4> QED BY <3>2, <4>1, CandidatesAreCurrent
    <3> DEFINE rest == Candidates(pendingLocal)
    <3> HIDE DEF opening, rest
    <3>6. rest \in Seq(Stanzas) /\ sent' = <<opening>> \o rest
      BY <3>3, <3>5 DEF rest
    <3>7. \A i \in DOMAIN sent' : \/ sent'[i] = opening
                                  \/ \E j \in DOMAIN rest : sent'[i] = rest[j]
      BY <3>6
    <3>8. \A j \in DOMAIN rest : Current(rest[j])
      BY <3>5 DEF rest
    <3> QED BY <3>1, <3>2, <3>4, <3>7, <3>8 DEF Current
  <2>3. CASE LocalCandidateReady /\ sent' # <<>>
    <3>1. /\ Pop("candidate") /\ engines[Source] # "closed" /\ localDescription # NoEngine
          /\ localDescription' = localDescription
          /\ sent' = Candidates(<<Source>>)
      BY <2>3 DEF LocalCandidateReady
    <3>2. Source = media /\ media \in Engines
      BY <3>1, ReadyIsCurrent
    <3>3. localDescription = media
      BY <3>1 DEF EngineInvariant, EnginesAreCurrent
    <3>4. \A i \in DOMAIN sent' : Current(sent'[i])
      <4>1. <<Source>> \in Seq(Engines) /\ \A i \in DOMAIN <<Source>> : <<Source>>[i] = media
        BY <3>2
      <4>2. \A i \in DOMAIN Candidates(<<Source>>) : Current(Candidates(<<Source>>)[i])
        BY <3>2, <4>1, CandidatesAreCurrent
      <4> QED BY <3>1, <4>2
    <3> QED BY <3>1, <3>3, <3>4 DEF Current
  <2>4. sent' = <<>> => Plain(sent')
    BY PlainParts
  <2> QED BY <2>1, <2>2, <2>3, <2>4, NextPlain
<1> QED BY <1>1, EnginesHold, PTL DEF Spec, CandidateFollowsDescription
=============================================================================
