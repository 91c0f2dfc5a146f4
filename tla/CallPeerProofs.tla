---------------------------- MODULE CallPeerProofs ----------------------------
(***************************************************************************)
(* What the other end can rely on, for every value of the constants.       *)
(* Nobody is left hanging: a step of CallController that ends a call tells *)
(* the peer, but for the exceptions that PeerIsTold names.                 *)
(* And where each contact has one device, a client keeps to its role in    *)
(* all it says, if the other does, and moves a call as it says: what       *)
(* PartyProofs builds on.                                                  *)
(***************************************************************************)
EXTENDS CallEndpoint, CallMediaProofs

-----------------------------------------------------------------------------
(* Which call a click on Decline is for.                                   *)

\* The buttons to answer may outlive a waiting caller, but only in a window that is
\* hidden and stays so: the toolbar button does not show it by starting a call.
StaleButtonsAreHidden ==
    Live(context) /\ context.state # "ringing" /\ waiting = NoCall
        /\ window.controls = "incoming" => ~window.visible /\ toolbar # "start"

\* Every click on Decline that is queued was made for a call of the other side.
DeclinesAreForCallers ==
    \A i \in DOMAIN idle : idle[i].what = "decline" => idle[i].source[1] \in PeerSids

\* Nothing is asked of a window that has other buttons, or a call to answer.
LEMMA ButtonsAreRight ==
    ASSUME \/ ~Live(context)' \/ context'.state = "ringing" \/ waiting' # NoCall
           \/ window'.controls # "incoming"
    PROVE  StaleButtonsAreHidden'
BY DEF StaleButtonsAreHidden

\* Nothing changes if the calls' states and the window do not.
LEMMA SameButtons ==
    ASSUME StaleButtonsAreHidden, context'.state = context.state,
           waiting' = NoCall => waiting = NoCall, window' = window, toolbar' = toolbar
    PROVE  StaleButtonsAreHidden'
BY DEF StaleButtonsAreHidden, Live

\* _finish_local leaves a ringing call or none.
LEMMA FinishLocalButtons ==
    ASSUME CallInvariant, NEW state \in Terminal, NEW win, NEW bar,
           FinishLocal(state, win, bar)
    PROVE  StaleButtonsAreHidden'
<1>0. context \in CallRecord
  BY DEF CallInvariant, TypeOK, CallsTyped
<1>1. CASE waiting # NoCall
  BY <1>1, ButtonsAreRight DEF FinishLocal, CallInvariant, WaitingBehindActive
<1>2. CASE waiting = NoCall
  <2>1. ~Live(context)'
    BY <1>0, <1>2 DEF FinishLocal, CallRecord, Live, LiveStates, Terminal
  <2> QED BY <2>1, ButtonsAreRight
<1> QED BY <1>1, <1>2

\* So does hangup.
LEMMA HangupButtons ==
    ASSUME CallInvariant, Hangup
    PROVE  StaleButtonsAreHidden'
<1>1. CASE Live(context)
  BY <1>1, FinishLocalButtons DEF Hangup, Terminal
<1>2. CASE ~Live(context)
  BY <1>2, ButtonsAreRight DEF Hangup, callVars, Live
<1> QED BY <1>1, <1>2

\* _clear_waiting hides the window and has the toolbar button end the call.
LEMMA ClearWaitingButtons ==
    ASSUME CallInvariant, ClearWaiting
    PROVE  StaleButtonsAreHidden'
BY WindowTyped, IndicatorOffers DEF ClearWaiting, StaleButtonsAreHidden, Live

\* What the user does keeps such buttons hidden.
LEMMA UserButtons ==
    ASSUME CallInvariant, StaleButtonsAreHidden, UserStep
    PROVE  StaleButtonsAreHidden'
<1>0. window \in WindowStates
  BY DEF CallInvariant, TypeOK, UiTyped
<1>1. ASSUME NEW sid \in OwnSids, StartOutgoing(sid) PROVE StaleButtonsAreHidden'
  <2>1. CASE Live(context)
    <3>1. /\ context' = context /\ waiting' = waiting /\ toolbar = "start"
          /\ window'.controls = window.controls
      BY <1>0, <1>1, <2>1 DEF StartOutgoing, WindowStates
    <3> QED BY <3>1 DEF StaleButtonsAreHidden, Live
  <2>2. CASE ~Live(context)
    BY <1>1, <2>2, ButtonsAreRight DEF StartOutgoing, Showing
  <2> QED BY <2>1, <2>2
<1>2. CASE ToolbarHangup
  BY <1>2, HangupButtons DEF ToolbarHangup
<1>3. CASE ClickAccept \/ ClickHangup \/ ClickDecline \/ CloseWindow
  <2>1. context' = context /\ waiting' = waiting /\ window.visible
    BY <1>3 DEF ClickAccept, ClickHangup, ClickDecline, CloseWindow, Click, callVars
  <2>2. window'.controls \in {window.controls, "active"}
    BY <1>0, <1>3 DEF ClickAccept, ClickHangup, ClickDecline, CloseWindow, Click,
       WithActiveControls, Hidden, WindowStates
  <2> QED BY <2>1, <2>2 DEF StaleButtonsAreHidden, Live
<1>4. CASE Deactivate
  BY <1>4, ButtonsAreRight DEF Deactivate, NoCall, Live, LiveStates
<1> QED BY <1>1, <1>2, <1>3, <1>4 DEF UserStep

\* The queued callbacks keep them hidden.
LEMMA IdleButtons ==
    ASSUME CallInvariant, StaleButtonsAreHidden, IdleStep
    PROVE  StaleButtonsAreHidden'
<1>0. context \in CallRecord /\ window \in WindowStates
  BY DEF CallInvariant, TypeOK, CallsTyped, UiTyped
<1>1. CASE AcceptWaiting \/ AcceptRinging
  <2>1. window'.controls = "active"
    BY <1>0, <1>1 DEF AcceptWaiting, AcceptRinging, WithActiveControls, WindowStates
  <2> QED BY <2>1, ButtonsAreRight
<1>2. CASE AcceptNothing \/ LocalDescriptionReady \/ LocalCandidateReady
  BY <1>2, SameButtons DEF AcceptNothing, LocalDescriptionReady, LocalCandidateReady, callVars,
     uiVars
<1>3. CASE Decline
  BY <1>3, ClearWaitingButtons, FinishLocalButtons, SameButtons DEF Decline, DeclineWaiting,
     callVars, uiVars, Terminal
<1>4. CASE HangupClicked \/ WindowClosed
  BY <1>4, HangupButtons, ClearWaitingButtons DEF HangupClicked, WindowClosed, DeclineWaiting
<1>5. CASE MediaConnected
  <2>1. CASE Live(context)
    <3>1. window'.controls = "active"
      BY <1>0, <1>5, <2>1 DEF MediaConnected, WindowStates
    <3> QED BY <3>1, ButtonsAreRight
  <2>2. CASE ~Live(context)
    BY <1>5, <2>2, SameButtons DEF MediaConnected
  <2> QED BY <2>1, <2>2
<1>6. CASE MediaFailed
  BY <1>6, FinishLocalButtons, SameButtons DEF MediaFailed, callVars, uiVars, Terminal
<1> QED BY <1>1, <1>2, <1>3, <1>4, <1>5, <1>6 DEF IdleStep

\* So do the timeouts and the reports.
LEMMA TimerButtons ==
    ASSUME CallInvariant, StaleButtonsAreHidden, TimerStep \/ MediaStep
    PROVE  StaleButtonsAreHidden'
<1>1. CASE PhaseTimeout
  BY <1>1, FinishLocalButtons, SameButtons DEF PhaseTimeout, callVars, uiVars, Terminal
<1>2. CASE WaitingTimeout
  BY <1>2, ClearWaitingButtons, SameButtons DEF WaitingTimeout, DeclineWaiting, callVars, uiVars
<1>3. CASE MediaStep
  BY <1>3, SameButtons DEF MediaStep, EngineReports, callVars, uiVars
<1> QED BY <1>1, <1>2, <1>3 DEF TimerStep

\* And what the contacts send.
LEMMA NetworkButtons ==
    ASSUME CallInvariant, StaleButtonsAreHidden,
           NEW from \in Devices, NEW sid \in Sids, JmiStep(from, sid) \/ JingleStep(from, sid)
    PROVE  StaleButtonsAreHidden'
<1>0. context \in CallRecord /\ waiting \in CallRecord /\ window \in WindowStates
  BY DEF CallInvariant, TypeOK, CallsTyped, UiTyped
<1>1. CASE MigrateCall(from, sid) \/ PeerRings(from, sid) \/ PeerProceeds(from, sid)
  <2>1. window'.controls = "active"
    BY <1>0, <1>1 DEF MigrateCall, PeerRings, PeerProceeds, WithActiveControls, WindowStates
  <2> QED BY <2>1, ButtonsAreRight
<1>2. CASE \/ LoseTieBreak(from, sid) \/ RingForProposal(from, sid)
           \/ RingForSession(from, sid)
  BY <1>2, ButtonsAreRight DEF LoseTieBreak, RingForProposal, RingForSession, Ring, IncomingCall
<1>3. CASE ProposalWaits(from, sid) \/ SessionWaits(from, sid)
  <2>1. waiting'.incoming
    BY <1>3 DEF ProposalWaits, SessionWaits, ShowWaiting, IncomingCall
  <2> QED BY <2>1, ButtonsAreRight DEF NoCall
<1>4. CASE \/ WaitingCallerTerminates(from, sid) \/ PeerTerminates(from, sid)
           \/ \E action \in JmiActions : \/ WaitingCallerGone(from, action, sid)
                                          \/ PeerEndsByJmi(from, action, sid)
  BY <1>4, ClearWaitingButtons, FinishLocalButtons DEF WaitingCallerTerminates, PeerTerminates,
     WaitingCallerGone, PeerEndsByJmi, Terminal
<1>5. CASE LateProceed(from, sid) \/ SessionInitiated(from, sid)
  <2>1. /\ context' = [context EXCEPT !.full = from] /\ waiting' = waiting
        /\ window' = window /\ toolbar' = toolbar
    BY <1>5 DEF LateProceed, SessionInitiated, uiVars
  <2> QED BY <1>0, <2>1, Written, SameButtons
<1>6. CASE WaitingCallerInitiates(from, sid)
  <2>1. waiting' = [waiting EXCEPT !.full = from] /\ waiting.incoming
    BY <1>6 DEF WaitingCallerInitiates, ForWaiting, CallInvariant, WaitingBehindActive
  <2>2. waiting'.incoming
    BY <1>0, <2>1, Written
  <2> QED BY <2>2, ButtonsAreRight DEF NoCall
<1>7. CASE \/ RejectExtraProposal(from, sid) \/ WinTieBreak(from, sid)
           \/ WaitingCallerTrickles(from, sid) \/ RejectExtraSession(from, sid)
           \/ SessionAfterEnd(from, sid) \/ SessionAccepted(from, sid)
           \/ PeerTrickles(from, sid)
  BY <1>7, SameButtons DEF RejectExtraProposal, WinTieBreak, WaitingCallerTrickles,
     RejectExtraSession, SessionAfterEnd, SessionAccepted, PeerTrickles, callVars, uiVars
<1> QED BY <1>1, <1>2, <1>3, <1>4, <1>5, <1>6, <1>7 DEF JmiStep, JingleStep

\* Every step keeps stale buttons hidden.
LEMMA NextButtons ==
    ASSUME CallInvariant, StaleButtonsAreHidden, Next
    PROVE  StaleButtonsAreHidden'
BY UserButtons, IdleButtons, TimerButtons, NetworkButtons DEF Next, NetworkStep

\* A click on Decline is made where a caller is shown.
LEMMA DeclineIsForCaller ==
    ASSUME CallInvariant, SidesAreKnown, WindowIsOfCall, StaleButtonsAreHidden, ClickDecline
    PROVE  Shown \in PeerSids
<1>1. window.visible /\ window.controls = "incoming" /\ Live(context)
  BY DEF ClickDecline, Click, WindowIsOfCall
<1>2. CASE waiting # NoCall
  BY <1>2 DEF Shown, SidesAreKnown, OfItsSide, CallInvariant, WaitingBehindActive
<1>3. CASE waiting = NoCall
  <2>1. context.state = "ringing"
    BY <1>1, <1>3 DEF StaleButtonsAreHidden
  <2>2. context # NoCall /\ context.incoming
    BY <2>1 DEF NoCall, CallInvariant, CallsWellFormed
  <2> QED BY <1>3, <2>2 DEF Shown, SidesAreKnown, OfItsSide
<1> QED BY <1>2, <1>3

\* A click on Decline is queued by the click alone.
LEMMA DeclinesAreClicked ==
    ASSUME idle \in Seq(Callbacks), Next
    PROVE  \A i \in DOMAIN idle' : idle'[i].what = "decline" =>
              \/ \E j \in DOMAIN idle : idle[j] = idle'[i]
              \/ ClickDecline /\ idle'[i].source = <<Shown, NoJid>>
<1> DEFINE Clicked == \A i \in DOMAIN idle' : idle'[i].what = "decline" =>
              \/ \E j \in DOMAIN idle : idle[j] = idle'[i]
              \/ ClickDecline /\ idle'[i].source = <<Shown, NoJid>>
<1>1. CASE idle' = idle
  BY <1>1
<1>2. ASSUME NEW what, Pop(what) PROVE Clicked
  <2>1. idle # <<>> /\ idle' = Tail(idle)
    BY <1>2 DEF Pop
  <2>2. \A i \in DOMAIN idle' : i + 1 \in DOMAIN idle /\ idle'[i] = idle[i + 1]
    BY <2>1
  <2> QED BY <2>2
<1>3. ASSUME NEW what, NEW source, Queue(what, source),
             what = "decline" => ClickDecline /\ source = <<Shown, NoJid>>
      PROVE  Clicked
  <2> DEFINE callback == [what |-> what, source |-> source]
  <2>1. idle' = Append(idle, callback) /\ callback.what = what /\ callback.source = source
    BY <1>3 DEF Queue
  <2> HIDE DEF callback
  <2>2. \A i \in DOMAIN idle' : \/ i \in DOMAIN idle /\ idle'[i] = idle[i]
                                \/ idle'[i] = callback
    BY <2>1
  <2> QED BY <1>3, <2>1, <2>2
<1>4. CASE UserStep
  <2>1. CASE ClickDecline
    BY <1>3, <2>1 DEF ClickDecline, Click
  <2>2. CASE ClickAccept \/ ClickHangup \/ CloseWindow
    <3>1. PICK what \in {"accept", "hangup", "close"} : Queue(what, <<Shown, NoJid>>)
      BY <2>2 DEF ClickAccept, ClickHangup, CloseWindow, Click
    <3> QED BY <1>3, <3>1
  <2>3. CASE ~(ClickDecline \/ ClickAccept \/ ClickHangup \/ CloseWindow)
    <3>1. idle' = idle
      BY <1>4, <2>3 DEF UserStep, StartOutgoing, ToolbarHangup, Deactivate
    <3> QED BY <1>1, <3>1
  <2> QED BY <2>1, <2>2, <2>3
<1>5. CASE IdleStep
  <2>1. \E what : Pop(what)
    BY <1>5 DEF IdleStep, AcceptWaiting, AcceptRinging, AcceptNothing, Decline, HangupClicked,
       WindowClosed, LocalDescriptionReady, LocalCandidateReady, MediaConnected, MediaFailed
  <2> QED BY <1>2, <2>1
<1>6. CASE TimerStep
  BY <1>1, <1>6 DEF TimerStep, PhaseTimeout, WaitingTimeout
<1>7. CASE MediaStep
  <2>1. PICK e \in Engines, what \in Reports : Queue(what, e)
    BY <1>7 DEF MediaStep, EngineReports
  <2>2. what # "decline"
    BY DEF Reports, Outcomes
  <2> QED BY <1>3, <2>1, <2>2
<1>8. CASE NetworkStep
  <2> PICK from \in Devices, sid \in Sids : JmiStep(from, sid) \/ JingleStep(from, sid)
    BY <1>8 DEF NetworkStep
  <2>1. CASE JmiStep(from, sid)
    BY <1>1, <2>1
       DEF JmiStep, MigrateCall, RejectExtraProposal, ProposalWaits, WinTieBreak, LoseTieBreak,
           RingForProposal, Proposal, WaitingCallerGone, PeerRings, PeerProceeds, LateProceed,
           PeerEndsByJmi, ForActiveCall
  <2>2. CASE JingleStep(from, sid)
    BY <1>1, <2>2
       DEF JingleStep, WaitingCallerInitiates, WaitingCallerTrickles, WaitingCallerTerminates,
           RejectExtraSession, SessionWaits, SessionAfterEnd, RingForSession, SessionInitiated,
           SessionAccepted, PeerTrickles, PeerTerminates, ForActiveSession, Claimed
  <2> QED BY <2>1, <2>2
<1> QED BY <1>4, <1>5, <1>6, <1>7, <1>8 DEF Next

\* Every step of the controller keeps this so.
LEMMA NextDeclines ==
    ASSUME CallInvariant, SidesAreKnown, WindowIsOfCall, StaleButtonsAreHidden,
           DeclinesAreForCallers, Next
    PROVE  DeclinesAreForCallers'
<1>1. idle \in Seq(Callbacks)
  BY DEF CallInvariant, TypeOK, QueueTyped
<1>2. ClickDecline => <<Shown, NoJid>>[1] \in PeerSids
  BY DeclineIsForCaller
<1> QED BY <1>1, <1>2, DeclinesAreClicked DEF DeclinesAreForCallers

-----------------------------------------------------------------------------
(* Who is told.                                                            *)

\* A sequence of stanzas that ends the session.
Ends(stanzas, sid) == \E i \in DOMAIN stanzas :
    /\ stanzas[i].sid = sid
    /\ stanzas[i].action \in {"reject", "retract", "finish", "session-terminate"}

EndActions == {"reject", "retract", "finish", "session-terminate"}

\* A stanza that ends a session is found wherever it stands.
LEMMA EndsWith ==
    /\ \A to, sid : \A action \in EndActions : Ends(<<Say(to, action, sid)>>, sid)
    /\ \A s, t \in Seq(Stanzas) : \A sid :
          Ends(s, sid) \/ Ends(t, sid) => Ends(s \o t, sid)
<1>1. ASSUME NEW to, NEW sid, NEW action \in EndActions
      PROVE  Ends(<<Say(to, action, sid)>>, sid)
  <2> DEFINE stanzas == <<Say(to, action, sid)>>
  <2>1. 1 \in DOMAIN stanzas /\ stanzas[1] = Say(to, action, sid)
    OBVIOUS
  <2> HIDE DEF stanzas
  <2>2. stanzas[1].sid = sid /\ stanzas[1].action = action
    BY <2>1 DEF Say
  <2>3. Ends(stanzas, sid)
    BY <2>1, <2>2 DEF Ends, EndActions
  <2> QED BY <2>3 DEF stanzas
<1>2. ASSUME NEW s \in Seq(Stanzas), NEW t \in Seq(Stanzas), NEW sid,
             Ends(s, sid) \/ Ends(t, sid)
      PROVE  Ends(s \o t, sid)
  <2> DEFINE both == s \o t
  <2>1. /\ \A i \in DOMAIN s : i \in DOMAIN both /\ both[i] = s[i]
        /\ \A i \in DOMAIN t : Len(s) + i \in DOMAIN both /\ both[Len(s) + i] = t[i]
    OBVIOUS
  <2> HIDE DEF both
  <2>2. Ends(both, sid)
    BY <1>2, <2>1 DEF Ends
  <2> QED BY <2>2 DEF both
<1> QED BY <1>1, <1>2

\* A call that has not ended here after a step keeps its place or is promoted.
LEMMA FinishLocalOver ==
    ASSUME CallInvariant, NEW state, NEW win, NEW bar, FinishLocal(state, win, bar),
           NEW sid, ~Over(sid), Over(sid)'
    PROVE  sid = context.sid /\ Live(context)
<1>1. CASE waiting # NoCall
  <2>1. context' = waiting /\ Live(waiting)
    BY <1>1 DEF FinishLocal, CallInvariant, WaitingBehindActive, Live, LiveStates
  <2> QED BY <1>1, <2>1 DEF Over, ForContext, ForWaiting, Live
<1>2. CASE waiting = NoCall
  BY <1>2 DEF Over, ForContext, ForWaiting
<1> QED BY <1>1, <1>2

\* _clear_waiting ends no other than the waiting call.
LEMMA ClearWaitingOver ==
    ASSUME ClearWaiting, NEW sid, ~Over(sid), Over(sid)'
    PROVE  sid = waiting.sid /\ waiting # NoCall
BY DEF ClearWaiting, Over, ForContext, ForWaiting, Live

\* A step that leaves both calls where they are, ends none.
LEMMA NoneOver ==
    ASSUME context'.sid = context.sid, Live(context)' <=> Live(context),
           context' = NoCall <=> context = NoCall,
           waiting'.sid = waiting.sid, waiting' = NoCall <=> waiting = NoCall
    PROVE  \A sid : Over(sid)' => Over(sid)
BY DEF Over, ForContext, ForWaiting

\* What is there to be told of a live call, and to whom.
LEMMA LiveFacts ==
    ASSUME CallInvariant, SidesAreKnown, Live(context)
    PROVE  /\ context # NoCall /\ context \in CallRecord /\ context.sid \in Sids
           /\ context.peer \in Devices \cup Peers /\ Target(context) \in Devices \cup Peers
           /\ context.full \in Devices \cup {NoJid}
           /\ ~context.jmi => context.incoming /\ context.full \in Devices /\ pendingOffer
<1>1. /\ context # NoCall /\ context \in CallRecord /\ context.sid \in Sids
      /\ context.peer \in Peers
  BY LiveIsWellFormed DEF CallInvariant, TypeOK, CallsTyped, Live, LiveStates, NoCall
<1>2. ~context.jmi => context.incoming /\ context.full \in Devices /\ pendingOffer
  BY <1>1 DEF SidesAreKnown, OfItsSide, OffersAreKept
<1> QED BY <1>1, <1>2, TargetTypes DEF CallRecord

\* An ending says up to two things; it is typed, and one of them ends the session.
LEMMA EitherEnds ==
    ASSUME NEW sid \in Sids, NEW first, NEW second, NEW to, NEW other, NEW action,
           first => to \in Devices \cup Peers,
           second => other \in Devices \cup Peers /\ action \in EndActions
    PROVE  LET stanzas == When(first, Say(to, "session-terminate", sid))
                          \o When(second, Say(other, action, sid))
           IN  stanzas \in Seq(Stanzas) /\ (first \/ second => Ends(stanzas, sid))
<1> DEFINE s == When(first, Say(to, "session-terminate", sid))
           t == When(second, Say(other, action, sid))
<1>1. s \in Seq(Stanzas)
  BY WhenTypes, StanzaTypes
<1>2. second => Say(other, action, sid) \in Stanzas
  BY StanzaTypes DEF EndActions
<1>3. t \in Seq(Stanzas)
  BY <1>2, WhenTypes
<1>4. first => Ends(s, sid)
  BY EndsWith DEF When, EndActions
<1>5. second => Ends(t, sid)
  BY EndsWith DEF When
<1> HIDE DEF s, t
<1>6. s \o t \in Seq(Stanzas) /\ (first \/ second => Ends(s \o t, sid))
  BY <1>1, <1>3, <1>4, <1>5, SequenceTypes, EndsWith
<1> QED BY <1>6 DEF s, t

\* A session the user hangs up was opened in either protocol, and is ended in it.
LEMMA HangupEnds ==
    ASSUME CallInvariant, SidesAreKnown, Live(context)
    PROVE  Ends(HangupStanzas, context.sid)
<1>1. CASE context.state = "proposing" \/ context.state = "ringing"
  BY <1>1, EndsWith DEF HangupStanzas, EndActions
<1>2. CASE context.state = "negotiating"
  <2>1. (context.full # NoJid /\ JingleStarted) \/ context.jmi
    BY LiveFacts, Constants DEF JingleStarted
  <2>2. context.full # NoJid /\ JingleStarted => context.full \in Devices \cup Peers
    BY LiveFacts
  <2>3. HangupStanzas = When(context.full # NoJid /\ JingleStarted,
                             Say(context.full, "session-terminate", context.sid))
                        \o When(context.jmi, Say(Target(context), "finish", context.sid))
    BY <1>2 DEF HangupStanzas
  <2>4. "finish" \in EndActions
    BY DEF EndActions
  <2> QED BY <2>1, <2>2, <2>3, <2>4, EitherEnds, LiveFacts
<1>3. CASE context.state = "connected"
  <2> DEFINE stanzas == <<Say(Target(context), "session-terminate", context.sid),
                          Say(Target(context), "finish", context.sid)>>
  <2>1. HangupStanzas = stanzas
    BY <1>3 DEF HangupStanzas
  <2>2. 1 \in DOMAIN stanzas /\ stanzas[1] = Say(Target(context), "session-terminate", context.sid)
    OBVIOUS
  <2> HIDE DEF stanzas
  <2> QED BY <2>1, <2>2 DEF Ends, Say
<1> QED BY <1>1, <1>2, <1>3 DEF Live, LiveStates

\* So is one that is ended to accept another caller, or because its media failed.
LEMMA OpenedEnds ==
    ASSUME CallInvariant, SidesAreKnown, context.state \in {"negotiating", "connected"}
    PROVE  /\ SwitchStanzas \in Seq(Stanzas) /\ Ends(SwitchStanzas, context.sid)
           /\ Ends(FailureStanzas, context.sid)
<1>1. Live(context)
  BY DEF Live, LiveStates
<1>2. context.full # NoJid \/ context.jmi
  BY <1>1, LiveFacts, Constants
<1>3. context.full # NoJid => context.full \in Devices \cup Peers
  BY <1>1, LiveFacts
<1>4. /\ "finish" \in EndActions /\ context.sid \in Sids
      /\ Target(context) \in Devices \cup Peers
  BY <1>1, LiveFacts DEF EndActions
<1>5. SwitchStanzas = When(context.full # NoJid,
                           Say(context.full, "session-terminate", context.sid))
                      \o When(context.jmi, Say(Target(context), "finish", context.sid))
  BY DEF SwitchStanzas
<1>6. FailureStanzas
        = When(context.full # NoJid /\ context.state \in {"negotiating", "connected"},
               Say(context.full, "session-terminate", context.sid))
          \o When(context.jmi, Say(Target(context), "finish", context.sid))
  BY DEF FailureStanzas
<1>7. SwitchStanzas \in Seq(Stanzas) /\ Ends(SwitchStanzas, context.sid)
  BY <1>2, <1>3, <1>4, <1>5, EitherEnds
<1>8. Ends(FailureStanzas, context.sid)
  BY <1>2, <1>3, <1>4, <1>6, EitherEnds
<1> QED BY <1>7, <1>8

\* So is one whose timeout comes.
LEMMA TimeoutEnds ==
    ASSUME CallInvariant, SidesAreKnown, PhaseTimeout, phaseTimer # NoTimer
    PROVE  Ends(sent', context.sid)
<1>1. context.sid = phaseTimer.sid /\ context.state \in PhaseStates(phaseTimer.phase)
  BY DEF CallInvariant, TimerIsOfCurrentPhase
<1>2. Live(context)
  BY <1>1 DEF PhaseStates, Live, LiveStates
<1> DEFINE plan == PlanTimeout(phaseTimer.phase, context.incoming, context.jmi, JingleStarted)
           other == IF plan.jmi = "retract" THEN context.peer ELSE Target(context)
<1>3. sent' = When(plan.terminate /\ context.full # NoJid,
                   Say(context.full, "session-terminate", context.sid))
              \o When(plan.jmi # "none", Say(other, plan.jmi, context.sid))
  BY <1>1 DEF PhaseTimeout
<1>4. plan.jmi # "none" => plan.jmi \in EndActions
  BY DEF PlanTimeout, EndActions
<1>5. (plan.terminate /\ context.full # NoJid) \/ plan.jmi # "none"
  <2>1. CASE context.jmi
    BY <2>1 DEF PlanTimeout
  <2>2. CASE ~context.jmi
    <3>1. JingleStarted /\ context.full # NoJid
      BY <1>2, <2>2, LiveFacts, Constants DEF JingleStarted
    <3>2. plan.terminate = JingleStarted
      BY <2>2 DEF PlanTimeout
    <3> QED BY <3>1, <3>2
  <2> QED BY <2>1, <2>2
<1>6. other \in Devices \cup Peers /\ context.sid \in Sids
  BY <1>2, LiveFacts
<1>7. context.full # NoJid => context.full \in Devices \cup Peers
  BY <1>2, LiveFacts
<1> HIDE DEF plan, other
<1> QED BY <1>3, <1>4, <1>5, <1>6, <1>7, EitherEnds

\* A waiting caller that is turned away is told.
LEMMA DeclineWaitingEnds ==
    ASSUME CallInvariant, DeclineWaiting, waiting # NoCall
    PROVE  Ends(sent', waiting.sid)
BY EndsWith DEF DeclineWaiting, EndActions

-----------------------------------------------------------------------------
(* Every step that ends a call tells the peer, or is the peer's.           *)

\* What PeerIsTold asks of a step after which a call is over.
Told(sid) ==
    \/ EndStanza(sid)
    \/ \E from \in Devices : \/ PeerTerminates(from, sid)
                             \/ WaitingCallerTerminates(from, sid)
                             \/ \E action \in JmiActions :
                                   \/ PeerEndsByJmi(from, action, sid)
                                   \/ WaitingCallerGone(from, action, sid)
    \/ DeclinesAnother
    \/ LateFailure /\ context.state = "ringing" /\ ~context.jmi
    \/ Deactivate

EndsAreTold == \A sid \in Sids : ~Over(sid) /\ Over(sid)' => Told(sid)

\* A session whose end was sent is told.
LEMMA SentIsTold == \A sid : Ends(sent', sid) => Told(sid)
BY DEF Ends, EndStanza, Told

\* A step that leaves both calls where they are has nothing to tell.
LEMMA NoneIsTold ==
    ASSUME context' = context, waiting' = waiting
    PROVE  EndsAreTold
BY NoneOver DEF EndsAreTold, Live

\* Nor has one that only writes a state or a device.
LEMMA WrittenIsTold ==
    ASSUME context \in CallRecord, Live(context), waiting' = waiting,
           context'.sid = context.sid, Live(context)', context' # NoCall
    PROVE  EndsAreTold
<1>1. context # NoCall
  BY DEF Live, LiveStates, NoCall
<1> QED BY <1>1, NoneOver DEF EndsAreTold

\* Without a live call there is no call to end.
LEMMA IdleIsTold ==
    ASSUME CallInvariant, ~Live(context)
    PROVE  EndsAreTold
BY DEF EndsAreTold, Over, ForWaiting, CallInvariant, WaitingBehindActive, Live, LiveStates

\* hangup tells of the call it ends.
LEMMA HangupIsTold ==
    ASSUME CallInvariant, SidesAreKnown, Hangup
    PROVE  EndsAreTold
<1>1. CASE Live(context)
  <2>1. Ends(sent', context.sid) /\ FinishLocal("ended", window, "start")
    BY <1>1, HangupEnds DEF Hangup
  <2> QED BY <2>1, FinishLocalOver, SentIsTold DEF EndsAreTold
<1>2. CASE ~Live(context)
  BY <1>2, IdleIsTold
<1> QED BY <1>1, <1>2

\* _decline_waiting tells the caller.
LEMMA DeclineWaitingIsTold ==
    ASSUME CallInvariant, DeclineWaiting, waiting # NoCall
    PROVE  EndsAreTold
BY DeclineWaitingEnds, ClearWaitingOver, SentIsTold DEF DeclineWaiting, EndsAreTold

\* decline tells the caller it was clicked for; ending another call it may not.
LEMMA DeclineIsTold ==
    ASSUME CallInvariant, SidesAreKnown, DeclinesAreForCallers, Decline
    PROVE  EndsAreTold
<1>1. CASE waiting # NoCall
  BY <1>1, DeclineWaitingIsTold DEF Decline
<1>2. CASE waiting = NoCall /\ context = NoCall
  BY <1>2, IdleIsTold DEF NoCall, Live, LiveStates
<1>3. CASE waiting = NoCall /\ context # NoCall
  <2> SUFFICES ASSUME NEW sid \in Sids, ~Over(sid), Over(sid)' PROVE Told(sid)
    BY DEF EndsAreTold
  <2>1. FinishLocal("ended", window, toolbar)
    BY <1>3 DEF Decline
  <2>2. sid = context.sid
    BY <2>1, FinishLocalOver
  <2>3. CASE context.incoming
    <3>1. context.full # NoJid
      BY <1>3, <2>2, <2>3, SidAssumption, Constants DEF SidesAreKnown, OfItsSide
    <3>2. PICK action \in EndActions : sent' = <<Say(context.full, action, context.sid)>>
      BY <1>3, <2>3, <3>1 DEF Decline, When, EndActions
    <3> QED BY <2>2, <3>2, EndsWith, SentIsTold
  <2>4. CASE ~context.incoming
    <3>1. idle \in Seq(Callbacks) /\ idle # <<>> /\ Head(idle).what = "decline"
      BY DEF CallInvariant, TypeOK, QueueTyped, Decline, Pop
    <3>2. 1 \in DOMAIN idle /\ idle[1] = Head(idle)
      BY <3>1
    <3>3. Source[1] \in PeerSids
      BY <3>1, <3>2 DEF DeclinesAreForCallers, Source
    <3>4. context.sid \notin PeerSids
      BY <1>3, <2>4, SidAssumption DEF SidesAreKnown, OfItsSide
    <3> QED BY <1>3, <2>4, <3>3, <3>4 DEF Told, DeclinesAnother
  <2> QED BY <2>3, <2>4
<1> QED BY <1>1, <1>2, <1>3

\* What the user does.
LEMMA UserIsTold ==
    ASSUME CallInvariant, SidesAreKnown, UserStep
    PROVE  EndsAreTold
<1>1. ASSUME NEW sid \in OwnSids, StartOutgoing(sid) PROVE EndsAreTold
  <2>1. CASE Live(context)
    BY <1>1, <2>1, NoneIsTold DEF StartOutgoing
  <2>2. CASE ~Live(context)
    BY <2>2, IdleIsTold
  <2> QED BY <2>1, <2>2
<1>2. CASE ToolbarHangup
  BY <1>2, HangupIsTold DEF ToolbarHangup
<1>3. CASE ClickAccept \/ ClickDecline \/ ClickHangup \/ CloseWindow
  BY <1>3, NoneIsTold DEF ClickAccept, ClickDecline, ClickHangup, CloseWindow, Click, callVars
<1>4. CASE Deactivate
  BY <1>4 DEF EndsAreTold, Told
<1> QED BY <1>1, <1>2, <1>3, <1>4 DEF UserStep

\* The call that makes way for the one that is accepted is told.
LEMMA AcceptWaitingIsTold ==
    ASSUME CallInvariant, SidesAreKnown, AcceptWaiting
    PROVE  EndsAreTold
<1>0. waiting \in CallRecord
  BY DEF CallInvariant, TypeOK, CallsTyped
<1>1. /\ waiting # NoCall /\ context' = [waiting EXCEPT !.state = "negotiating"]
      /\ context.state \in {"negotiating", "connected"} /\ waiting.incoming
      /\ waiting.full \in Devices /\ waiting.sid \in Sids
  BY DEF AcceptWaiting, CallInvariant, WaitingBehindActive, CallsWellFormed, WellFormed
<1>2. context'.sid = waiting.sid /\ context'.state = "negotiating" /\ context' # NoCall
  BY <1>0, <1>1 DEF CallRecord, NoCall
<1>3. \A sid : ~Over(sid) /\ Over(sid)' => sid = context.sid
  BY <1>2 DEF Over, ForContext, ForWaiting, Live, LiveStates
<1>4. Proceed(waiting.full, waiting.sid) \in Seq(Stanzas)
  BY <1>1, StanzaTypes, SequenceTypes DEF Proceed
<1>5. \/ sent' = SwitchStanzas
      \/ sent' = SwitchStanzas \o Proceed(waiting.full, waiting.sid)
  BY DEF AcceptWaiting
<1>6. SwitchStanzas \in Seq(Stanzas) /\ Ends(SwitchStanzas, context.sid)
  BY <1>1, OpenedEnds
<1>7. Ends(SwitchStanzas \o Proceed(waiting.full, waiting.sid), context.sid)
  BY <1>4, <1>6, EndsWith
<1>8. Ends(sent', context.sid)
  BY <1>5, <1>6, <1>7
<1> QED BY <1>3, <1>8, SentIsTold DEF EndsAreTold

\* A failure that ends a call set up with JMI finishes it there, whatever its state.
LEMMA FailureEnds ==
    ASSUME CallInvariant, SidesAreKnown, Live(context), context.jmi
    PROVE  Ends(FailureStanzas, context.sid)
<1>1. /\ "finish" \in EndActions /\ context.sid \in Sids
      /\ Target(context) \in Devices \cup Peers
      /\ context.full # NoJid => context.full \in Devices \cup Peers
  BY LiveFacts DEF EndActions
<1>2. FailureStanzas
        = When(context.full # NoJid /\ context.state \in {"negotiating", "connected"},
               Say(context.full, "session-terminate", context.sid))
          \o When(context.jmi, Say(Target(context), "finish", context.sid))
  BY DEF FailureStanzas
<1> QED BY <1>1, <1>2, EitherEnds

\* What the queue brings; a failure is that of an engine the controller holds, or it
\* hits a call that is told unless it rings without JMI.
LEMMA IdleStepIsTold ==
    ASSUME CallInvariant, SidesAreKnown, DeclinesAreForCallers, IdleStep
    PROVE  EndsAreTold
<1>0. context \in CallRecord
  BY DEF CallInvariant, TypeOK, CallsTyped
<1>1. CASE AcceptWaiting
  BY <1>1, AcceptWaitingIsTold
<1>2. CASE AcceptRinging
  <2>1. /\ context.state = "ringing" /\ waiting' = waiting
        /\ context' = [context EXCEPT !.state = "negotiating"]
    BY <1>2 DEF AcceptRinging
  <2>2. context'.sid = context.sid /\ context'.state = "negotiating"
    BY <1>0, <2>1 DEF CallRecord
  <2> QED BY <1>0, <2>1, <2>2, WrittenIsTold DEF Live, LiveStates, NoCall
<1>3. CASE AcceptNothing \/ LocalDescriptionReady \/ LocalCandidateReady
  BY <1>3, NoneIsTold DEF AcceptNothing, LocalDescriptionReady, LocalCandidateReady, callVars
<1>4. CASE Decline
  BY <1>4, DeclineIsTold
<1>5. CASE HangupClicked
  BY <1>5, HangupIsTold DEF HangupClicked
<1>6. CASE WindowClosed
  BY <1>6, HangupIsTold, DeclineWaitingIsTold DEF WindowClosed
<1>7. CASE MediaConnected
  <2>1. CASE Live(context) /\ context.state = "negotiating"
    <3>1. waiting' = waiting /\ context' = [context EXCEPT !.state = "connected"]
      BY <1>7, <2>1 DEF MediaConnected
    <3>2. context'.sid = context.sid /\ context'.state = "connected"
      BY <1>0, <3>1 DEF CallRecord
    <3> QED BY <1>0, <2>1, <3>1, <3>2, WrittenIsTold DEF Live, LiveStates, NoCall
  <2>2. CASE ~(Live(context) /\ context.state = "negotiating")
    BY <1>7, <2>2, NoneIsTold DEF MediaConnected
  <2> QED BY <2>1, <2>2
<1>8. CASE MediaFailed
  <2>1. CASE Live(context)
    <3>1. sent' = FailureStanzas /\ FinishLocal("failed", window, "start")
      BY <1>8, <2>1 DEF MediaFailed
    <3>2. Source = media => context.state \in {"negotiating", "connected"}
      <4>1. Source \in Engines
        BY <1>8, PopTypes DEF MediaFailed, CallInvariant, Reports, Outcomes
      <4> QED BY <4>1, Constants DEF CallInvariant, MediaBelongsToCall
    <3>3. CASE context.state \in {"negotiating", "connected"}
      BY <3>1, <3>3, OpenedEnds, FinishLocalOver, SentIsTold DEF EndsAreTold
    <3>4. CASE context.jmi
      BY <2>1, <3>1, <3>4, FailureEnds, FinishLocalOver, SentIsTold DEF EndsAreTold
    <3>5. CASE context.state = "ringing" /\ ~context.jmi /\ Source # media
      BY <1>8, <3>5 DEF EndsAreTold, Told, LateFailure
    <3>6. context.state = "proposing" => context.jmi
      BY <2>1, LiveFacts DEF CallInvariant, CallsWellFormed
    <3> QED BY <2>1, <3>2, <3>3, <3>4, <3>5, <3>6 DEF Live, LiveStates
  <2>2. CASE ~Live(context)
    BY <2>2, IdleIsTold
  <2> QED BY <2>1, <2>2
<1> QED BY <1>1, <1>2, <1>3, <1>4, <1>5, <1>6, <1>7, <1>8 DEF IdleStep

\* The timeouts.
LEMMA TimerIsTold ==
    ASSUME CallInvariant, SidesAreKnown, TimerStep \/ MediaStep
    PROVE  EndsAreTold
<1>1. CASE PhaseTimeout
  <2>1. Ends(sent', context.sid)
    BY <1>1, TimeoutEnds DEF PhaseTimeout
  <2>2. FinishLocal("ended", window, "start")
    BY <1>1 DEF PhaseTimeout, CallInvariant, TimerIsOfCurrentPhase
  <2> QED BY <2>1, <2>2, FinishLocalOver, SentIsTold DEF EndsAreTold
<1>2. CASE WaitingTimeout
  <2>1. CASE waiting.sid = waitTimer
    <3>1. DeclineWaiting /\ waiting # NoCall
      BY <1>2, <2>1 DEF WaitingTimeout, NoCall
    <3> QED BY <3>1, DeclineWaitingIsTold
  <2>2. CASE waiting.sid # waitTimer
    BY <1>2, <2>2, NoneIsTold DEF WaitingTimeout, callVars
  <2> QED BY <2>1, <2>2
<1>3. CASE MediaStep
  BY <1>3, NoneIsTold DEF MediaStep, EngineReports, callVars
<1> QED BY <1>1, <1>2, <1>3 DEF TimerStep

\* A call that is migrated is finished in JMI, which it was set up with.
LEMMA MigrateIsTold ==
    ASSUME CallInvariant, SidesAreKnown,
           NEW from \in Devices, NEW sid \in Sids, MigrateCall(from, sid)
    PROVE  EndsAreTold
<1> DEFINE first == When(context.full # NoJid /\ JingleStarted,
                         Say(context.full, "session-terminate", context.sid))
           finish == <<Say(Target(context), "finish", context.sid)>>
<1>1. sent' = first \o finish \o Proceed(from, sid)
  BY DEF MigrateCall
<1>2. /\ context.sid \in Sids /\ Target(context) \in Devices \cup Peers
      /\ context.full # NoJid => context.full \in Devices
  <2>1. Live(context)
    BY DEF MigrateCall, Migrates, Live, LiveStates
  <2> QED BY <2>1, LiveFacts
<1>3. /\ first \in Seq(Stanzas) /\ finish \in Seq(Stanzas)
      /\ Proceed(from, sid) \in Seq(Stanzas)
  BY <1>2, WhenTypes, StanzaTypes, SequenceTypes DEF Proceed
<1>4. Ends(finish, context.sid)
  BY EndsWith DEF EndActions
<1> HIDE DEF first, finish
<1>5. first \o finish \in Seq(Stanzas) /\ Ends(first \o finish, context.sid)
  BY <1>3, <1>4, EndsWith, SequenceTypes
<1>6. Ends(sent', context.sid)
  BY <1>1, <1>3, <1>5, EndsWith
<1>7. \A other : ~Over(other) /\ Over(other)' => other = context.sid
  BY DEF MigrateCall, Over, ForContext, ForWaiting
<1> QED BY <1>6, <1>7, SentIsTold DEF EndsAreTold

\* What JMI brings: a call that ends is migrated, lost its tie-break, or is ended by
\* the contact.
LEMMA JmiIsTold ==
    ASSUME CallInvariant, SidesAreKnown,
           NEW from \in Devices, NEW sid \in Sids, JmiStep(from, sid)
    PROVE  EndsAreTold
<1>0. context \in CallRecord
  BY DEF CallInvariant, TypeOK, CallsTyped
<1>1. CASE MigrateCall(from, sid)
  BY <1>1, MigrateIsTold
<1>2. CASE LoseTieBreak(from, sid)
  <2>1. context.state = "proposing" /\ waiting = NoCall
    BY <1>2 DEF LoseTieBreak, Glare, CallInvariant, WaitingBehindActive
  <2> DEFINE stanzas == <<Say(context.peer, "retract", context.sid), Say(from, "ringing", sid)>>
  <2>2. sent' = stanzas /\ 1 \in DOMAIN stanzas
        /\ stanzas[1] = Say(context.peer, "retract", context.sid)
    BY <1>2 DEF LoseTieBreak
  <2> HIDE DEF stanzas
  <2>3. Ends(sent', context.sid)
    BY <2>2 DEF Ends, Say
  <2>4. \A other : ~Over(other) /\ Over(other)' => other = context.sid
    BY <2>1 DEF Over, ForContext, ForWaiting
  <2> QED BY <2>3, <2>4, SentIsTold DEF EndsAreTold
<1>3. CASE RingForProposal(from, sid)
  BY <1>3, IdleIsTold DEF RingForProposal
<1>4. CASE \/ RejectExtraProposal(from, sid) \/ WinTieBreak(from, sid) \/ PeerRings(from, sid)
  BY <1>4, NoneIsTold DEF RejectExtraProposal, WinTieBreak, PeerRings, callVars
<1>5. CASE ProposalWaits(from, sid)
  <2>1. context' = context /\ waiting = NoCall
    BY <1>5 DEF ProposalWaits, ShowWaiting
  <2> QED BY <2>1 DEF EndsAreTold, Over, ForContext, ForWaiting, Live
<1>6. ASSUME NEW action \in JmiActions, WaitingCallerGone(from, action, sid)
      PROVE  EndsAreTold
  BY <1>6, ClearWaitingOver DEF WaitingCallerGone, ForWaiting, EndsAreTold, Told
<1>7. ASSUME NEW action \in JmiActions, PeerEndsByJmi(from, action, sid)
      PROVE  EndsAreTold
  BY <1>7, FinishLocalOver DEF PeerEndsByJmi, ForActiveCall, ForContext, EndsAreTold, Told
<1>8. CASE PeerProceeds(from, sid)
  <2>1. /\ ForContext(sid) /\ CanTransition(context, "negotiating") /\ waiting' = waiting
        /\ context' = [context EXCEPT !.full = from, !.state = "negotiating"]
    BY <1>8 DEF PeerProceeds, ForActiveCall
  <2>2. context'.sid = context.sid /\ context'.state = "negotiating"
    BY <1>0, <2>1 DEF CallRecord
  <2>3. Live(context)
    BY <1>0, <2>1 DEF CanTransition, Allowed, CallRecord, CallStates, Live, LiveStates, Terminal
  <2> QED BY <1>0, <2>1, <2>2, <2>3, WrittenIsTold DEF Live, LiveStates, NoCall
<1>9. CASE LateProceed(from, sid)
  <2>1. waiting' = waiting /\ context' = [context EXCEPT !.full = from]
    BY <1>9 DEF LateProceed
  <2>2. context'.sid = context.sid /\ context'.state = context.state
    BY <1>0, <2>1, Written
  <2>3. CASE Live(context)
    BY <1>0, <2>1, <2>2, <2>3, WrittenIsTold DEF Live, LiveStates, NoCall
  <2>4. CASE ~Live(context)
    BY <2>4, IdleIsTold
  <2> QED BY <2>3, <2>4
<1> QED BY <1>1, <1>2, <1>3, <1>4, <1>5, <1>6, <1>7, <1>8, <1>9 DEF JmiStep

\* What Jingle brings: only a terminated session ends a call.
LEMMA JingleIsTold ==
    ASSUME CallInvariant, SidesAreKnown,
           NEW from \in Devices, NEW sid \in Sids, JingleStep(from, sid)
    PROVE  EndsAreTold
<1>0. context \in CallRecord /\ waiting \in CallRecord
  BY DEF CallInvariant, TypeOK, CallsTyped
<1>1. CASE WaitingCallerTerminates(from, sid)
  BY <1>1, ClearWaitingOver DEF WaitingCallerTerminates, ForWaiting, EndsAreTold, Told
<1>2. CASE PeerTerminates(from, sid)
  <2>1. sid = context.sid
    BY <1>2 DEF PeerTerminates, ForActiveSession, Owns
  <2>2. FinishLocal("ended", Enabled(window), "start")
    BY <1>2 DEF PeerTerminates
  <2> QED BY <1>2, <2>1, <2>2, FinishLocalOver DEF EndsAreTold, Told
<1>3. CASE RingForSession(from, sid)
  BY <1>3, IdleIsTold DEF RingForSession
<1>4. CASE SessionWaits(from, sid)
  <2>1. context' = context /\ waiting = NoCall
    BY <1>4 DEF SessionWaits, ShowWaiting
  <2> QED BY <2>1 DEF EndsAreTold, Over, ForContext, ForWaiting, Live
<1>5. CASE \/ WaitingCallerTrickles(from, sid) \/ RejectExtraSession(from, sid)
           \/ SessionAfterEnd(from, sid) \/ SessionAccepted(from, sid)
           \/ PeerTrickles(from, sid)
  BY <1>5, NoneIsTold DEF WaitingCallerTrickles, RejectExtraSession, SessionAfterEnd,
     SessionAccepted, PeerTrickles, callVars
<1>6. CASE WaitingCallerInitiates(from, sid)
  <2>1. /\ context' = context /\ waiting # NoCall /\ waiting' = [waiting EXCEPT !.full = from]
        /\ waiting.incoming
    BY <1>6 DEF WaitingCallerInitiates, ForWaiting, CallInvariant, WaitingBehindActive
  <2>2. waiting'.sid = waiting.sid /\ waiting'.incoming
    BY <1>0, <2>1, Written
  <2>3. waiting' # NoCall
    BY <2>2 DEF NoCall
  <2> QED BY <2>1, <2>2, <2>3, NoneOver DEF EndsAreTold, Live
<1>7. CASE SessionInitiated(from, sid)
  <2>1. /\ Live(context) /\ waiting' = waiting /\ context' = [context EXCEPT !.full = from]
    BY <1>7 DEF SessionInitiated, ForActiveSession, Owns
  <2>2. context'.sid = context.sid /\ context'.state = context.state
    BY <1>0, <2>1, Written
  <2> QED BY <1>0, <2>1, <2>2, WrittenIsTold DEF Live, LiveStates, NoCall
<1> QED BY <1>1, <1>2, <1>3, <1>4, <1>5, <1>6, <1>7 DEF JingleStep

\* What these steps rest on, beside the invariant of CallControllerProofs.
PeerInvariant ==
    /\ WindowIsOfCall
    /\ SidesAreKnown /\ StaleButtonsAreHidden /\ DeclinesAreForCallers

\* What the telling rests on holds at first,
LEMMA FirstPeer == Init => PeerInvariant
<1> SUFFICES ASSUME Init PROVE PeerInvariant
  OBVIOUS
<1>1. /\ ~Live(context) /\ context = NoCall /\ waiting = NoCall
      /\ ~pendingOffer /\ ~waitingOffer /\ idle = <<>> /\ ~window.visible
  BY DEF Init, NoCall, Live, LiveStates
<1> QED BY <1>1 DEF PeerInvariant, WindowIsOfCall, SidesAreKnown,
       OfItsSide, OffersAreKept, StaleButtonsAreHidden, DeclinesAreForCallers

\* after every step,
LEMMA NextPeer ==
    ASSUME CallInvariant, PeerInvariant, Next
    PROVE  PeerInvariant'
BY NextHides, NextSides, NextButtons, NextDeclines
   DEF PeerInvariant, CallInvariant

\* and when nothing changes.
LEMMA SamePeer ==
    ASSUME PeerInvariant, UNCHANGED <<callVars, mediaVars, uiVars, networkVars, idle>>
    PROVE  PeerInvariant'
BY DEF PeerInvariant, WindowIsOfCall, SidesAreKnown, OfItsSide,
   OffersAreKept, WasOpened, StaleButtonsAreHidden, DeclinesAreForCallers, Live,
   callVars, uiVars, mediaVars, networkVars

\* Nobody is left hanging: whenever this side ends a call or turns a waiting caller
\* away, it tells the peer in the same step, unless decline ends another call than
\* the one it was clicked for, another call's engine fails while a call rings that
\* came without JMI, or the plugin is deactivated.
THEOREM PeersAreTold == Spec => PeerIsTold
<1>1. Init => PeerInvariant
  BY FirstPeer
<1>2. CallInvariant /\ PeerInvariant /\ [Next]_vars => PeerInvariant'
  BY NextPeer, SamePeer DEF vars
<1>3. CallInvariant /\ PeerInvariant /\ [Next]_vars => [EndsAreTold]_vars
  BY UserIsTold, IdleStepIsTold, TimerIsTold, JmiIsTold, JingleIsTold
     DEF PeerInvariant, Next, NetworkStep
<1> QED BY <1>1, <1>2, <1>3, InvariantHolds, PTL DEF Spec, PeerIsTold, EndsAreTold, Told

-----------------------------------------------------------------------------
(* A client keeps to its role.                                             *)

\* The kinds of stanza that open something, and those that a peer acts on.
OpeningActions == {"propose", "proceed", "session-initiate"}
Words == JmiActions \cup JingleActions

\* What was opened, whoever at the other end spoke.
Begun(opened) == {<<o[1], o[3]>> : o \in opened}

\* This side opens a call of its own, and proceeds with one of the contact's.
Outward(sid, action) == \/ sid \in OwnSids /\ action \in {"propose", "session-initiate"}
                        \/ sid \in PeerSids /\ action = "proceed"

\* What a side may say of a call, if this has begun: who placed the call does not answer
\* it, nothing is said of a call that nobody proposed, and a session is not accepted
\* before it is offered.
InRole(sid, action, begun) ==
    /\ sid \in Sids
    /\ action \in {"propose", "retract", "session-initiate"} => sid \in OwnSids
    /\ action \in {"ringing", "proceed", "reject", "session-accept"} => sid \in PeerSids
    /\ sid \in Direct \/ <<sid, "propose">> \in begun
    /\ action \in OpeningActions => <<sid, action>> \in begun
    /\ action \in {"session-accept", "transport-info"} /\ sid \in PeerSids =>
          <<sid, "session-initiate">> \in begun

\* All stanzas of a step are in role; at most one opens something, which was not open
\* yet, and a proposal comes first.
SpeaksInRole ==
    \A i \in DOMAIN sent' : sent'[i].action \in Words =>
        /\ InRole(sent'[i].sid, sent'[i].action, Begun(openings'))
        /\ sent'[i].action = "propose" => i = 1
        /\ sent'[i].action \in OpeningActions =>
              /\ <<sent'[i].sid, sent'[i].action>> \notin Begun(openings)
              /\ \A j \in DOMAIN sent' : sent'[j].action \in OpeningActions => j = i

\* Openings are recorded for a device; the client's own proposals are for the contact.
OpeningsAreNamed ==
    \A o \in openings : /\ o[3] # "propose" => o[2] \in Devices
                        /\ o[3] = "propose" /\ o[1] \in OwnSids => o[2] = NoJid

\* A call that rings without an offer was not accepted, and what was accepted was
\* proposed.
RingingIsNotAccepted ==
    /\ context.state = "ringing" /\ ~pendingOffer =>
          <<context.sid, "proceed">> \notin Begun(openings)
    /\ waiting # NoCall /\ ~waitingOffer => <<waiting.sid, "proceed">> \notin Begun(openings)
    /\ \A sid \in PeerSids : <<sid, "proceed">> \in Begun(openings) =>
          sid \in Direct \/ <<sid, "propose">> \in Begun(openings)

Describes(i, e) == idle[i].what = "description" /\ idle[i].source = e

\* A description that is queued was reported, and is queued once.
DescriptionsAreReported ==
    \A i \in DOMAIN idle : idle[i].what = "description" =>
        /\ <<idle[i].source, "description">> \in reports
        /\ \A j \in DOMAIN idle : Describes(j, idle[i].source) => j = i

\* A session of this side's was opened with the description of its engine, which is
\* not reported again.
OfferedOnce ==
    \A sid \in OwnSids, d \in Devices :
        Bare[d] = Party[sid] /\ <<sid, "session-initiate">> \in Begun(openings) =>
            /\ <<<<sid, d>>, "description">> \in reports
            /\ \A i \in DOMAIN idle : ~Describes(i, <<sid, d>>)

RoleInvariant == /\ context.state = "proposing" => ~context.incoming
                 /\ OpeningsAreNamed /\ RingingIsNotAccepted
                 /\ DescriptionsAreReported /\ OfferedOnce

-----------------------------------------------------------------------------
(* The stanzas of a step.                                                  *)

\* A call that was proposed, or needs no proposal.
Sayable(sid, begun) == sid \in Sids /\ (sid \in Direct \/ <<sid, "propose">> \in begun)

\* A stanza that opens nothing, and is in role if a peer acts on it.
IsOrdinary(stanza, begun) ==
    /\ stanza.action \notin OpeningActions
    /\ stanza.action \in Words => InRole(stanza.sid, stanza.action, begun)

\* A sequence of such stanzas.
Ordinary(stanzas, begun) ==
    \E set : stanzas \in Seq(set) /\ \A stanza \in set : IsOrdinary(stanza, begun)

\* Such are the sequences of them.
LEMMA OrdinaryOf ==
    ASSUME NEW begun, NEW set, NEW s \in Seq(set), \A stanza \in set : IsOrdinary(stanza, begun)
    PROVE  Ordinary(s, begun)
BY DEF Ordinary

\* They can be made of one or two such stanzas.
LEMMA OrdinaryParts ==
    ASSUME NEW begun
    PROVE  /\ Ordinary(<<>>, begun)
           /\ \A a : IsOrdinary(a, begun) => Ordinary(<<a>>, begun)
           /\ \A a, b : IsOrdinary(a, begun) /\ IsOrdinary(b, begun) =>
                 Ordinary(<<a, b>>, begun)
<1>1. Ordinary(<<>>, begun)
  <2> DEFINE none == {}
  <2>1. <<>> \in Seq(none) /\ \A stanza \in none : IsOrdinary(stanza, begun)
    OBVIOUS
  <2> HIDE DEF none
  <2> QED BY <2>1, OrdinaryOf
<1>2. ASSUME NEW a, NEW b, IsOrdinary(a, begun), IsOrdinary(b, begun)
      PROVE  Ordinary(<<a>>, begun) /\ Ordinary(<<a, b>>, begun)
  <2> DEFINE set == {a, b}
  <2>1. \A stanza \in set : IsOrdinary(stanza, begun)
    BY <1>2
  <2>2. <<a>> \in Seq(set) /\ <<a, b>> \in Seq(set)
    OBVIOUS
  <2> HIDE DEF set
  <2> QED BY <2>1, <2>2, OrdinaryOf
<1> QED BY <1>1, <1>2

\* And of two such sequences.
LEMMA OrdinaryAppended ==
    ASSUME NEW begun, NEW s, NEW t, Ordinary(s, begun), Ordinary(t, begun)
    PROVE  Ordinary(s \o t, begun)
<1>1. PICK one : s \in Seq(one) /\ \A stanza \in one : IsOrdinary(stanza, begun)
  BY DEF Ordinary
<1>2. PICK two : t \in Seq(two) /\ \A stanza \in two : IsOrdinary(stanza, begun)
  BY DEF Ordinary
<1>3. s \in Seq(one \cup two) /\ t \in Seq(one \cup two)
  BY <1>1, <1>2
<1>4. s \o t \in Seq(one \cup two)
  BY <1>3, ConcatProperties
<1> QED BY <1>1, <1>2, <1>4 DEF Ordinary

\* What ends a call may be said of any that was proposed, by the side the word is for.
LEMMA SaysAreOrdinary ==
    ASSUME NEW begun, NEW sid, Sayable(sid, begun), NEW to
    PROVE  /\ \A action \in {"finish", "session-terminate", "result", "presence"} :
                 IsOrdinary(Say(to, action, sid), begun)
           /\ sid \in PeerSids => /\ IsOrdinary(Say(to, "ringing", sid), begun)
                                  /\ IsOrdinary(Say(to, "reject", sid), begun)
           /\ sid \in OwnSids => IsOrdinary(Say(to, "retract", sid), begun)
<1>1. \A action : Say(to, action, sid).action = action /\ Say(to, action, sid).sid = sid
  BY DEF Say
<1>2. \A action \in {"finish", "session-terminate", "result", "presence"} :
         action \notin OpeningActions /\ InRole(sid, action, begun)
  BY DEF Sayable, InRole, OpeningActions
<1>3. sid \in PeerSids => InRole(sid, "ringing", begun) /\ InRole(sid, "reject", begun)
  BY DEF Sayable, InRole, OpeningActions
<1>4. sid \in OwnSids => InRole(sid, "retract", begun)
  BY DEF Sayable, InRole, OpeningActions
<1>5. {"ringing", "reject", "retract"} \cap OpeningActions = {}
  BY DEF OpeningActions
<1> QED BY <1>1, <1>2, <1>3, <1>4, <1>5 DEF IsOrdinary

\* A stanza sent on a condition.
LEMMA WhenIsOrdinary ==
    ASSUME NEW begun, NEW condition, NEW stanza, condition => IsOrdinary(stanza, begun)
    PROVE  Ordinary(When(condition, stanza), begun)
BY OrdinaryParts DEF When

\* An acknowledgement is nothing a peer acts on.
LEMMA ResultIsOrdinary ==
    ASSUME NEW begun, NEW to, NEW sid
    PROVE  /\ IsOrdinary(Say(to, "result", sid), begun)
           /\ IsOrdinary(Say(to, "presence", sid), begun)
BY DEF IsOrdinary, Say, OpeningActions, Words, JmiActions, JingleActions

\* Both calls were proposed, each by the side whose session id it has.
LEMMA CallsAreSayable ==
    ASSUME CallInvariant, SidesAreKnown, NEW begun, Begun(openings) \subseteq begun
    PROVE  /\ context # NoCall \/ Live(context) =>
                /\ Sayable(context.sid, begun)
                /\ IF context.incoming THEN context.sid \in PeerSids ELSE context.sid \in OwnSids
           /\ waiting # NoCall => Sayable(waiting.sid, begun) /\ waiting.sid \in PeerSids
<1>1. \A sid : Proposed(sid) => <<sid, "propose">> \in begun
  <2> SUFFICES ASSUME NEW sid, NEW d, <<sid, d, "propose">> \in openings
               PROVE  <<sid, "propose">> \in begun
    BY DEF Proposed
  <2>1. <<sid, d, "propose">>[1] = sid /\ <<sid, d, "propose">>[3] = "propose"
    OBVIOUS
  <2> QED BY <2>1 DEF Begun
<1>2. Live(context) => context # NoCall
  BY DEF Live, LiveStates, NoCall
<1>3. context # NoCall => context.sid \in Sids
  BY DEF CallInvariant, CallsWellFormed, WellFormed
<1>4. waiting # NoCall => waiting.sid \in Sids /\ waiting.incoming
  BY DEF CallInvariant, CallsWellFormed, WellFormed, WaitingBehindActive
<1> QED BY <1>1, <1>2, <1>3, <1>4 DEF CallInvariant, CallsWereOpened, Sayable, SidesAreKnown,
     OfItsSide

\* hangup.
LEMMA HangupIsOrdinary ==
    ASSUME CallInvariant, SidesAreKnown, RoleInvariant, NEW begun, Begun(openings) \subseteq begun,
           Hangup
    PROVE  Ordinary(sent', begun)
<1>1. CASE ~Live(context)
  BY <1>1, OrdinaryParts DEF Hangup
<1>2. CASE Live(context)
  <2>1. sent' = HangupStanzas
    BY <1>2 DEF Hangup
  <2>2. /\ Sayable(context.sid, begun)
        /\ context.state = "proposing" => context.sid \in OwnSids
        /\ context.state = "ringing" => context.sid \in PeerSids
    BY <1>2, CallsAreSayable DEF RoleInvariant, CallInvariant, CallsWellFormed
  <2>3. CASE context.state \in {"proposing", "ringing"}
    BY <2>1, <2>2, <2>3, SaysAreOrdinary, OrdinaryParts DEF HangupStanzas
  <2>4. CASE context.state \notin {"proposing", "ringing"}
    BY <2>1, <2>2, <2>4, SaysAreOrdinary, OrdinaryParts, WhenIsOrdinary, OrdinaryAppended
       DEF HangupStanzas
  <2> QED BY <2>3, <2>4
<1> QED BY <1>1, <1>2

\* _decline_waiting.
LEMMA DeclineWaitingIsOrdinary ==
    ASSUME CallInvariant, SidesAreKnown, NEW begun, Begun(openings) \subseteq begun,
           waiting # NoCall, DeclineWaiting
    PROVE  Ordinary(sent', begun)
<1>1. Sayable(waiting.sid, begun) /\ waiting.sid \in PeerSids
  BY CallsAreSayable
<1>2. \/ sent' = <<Say(waiting.full, "reject", waiting.sid)>>
      \/ sent' = <<Say(waiting.full, "session-terminate", waiting.sid)>>
  BY DEF DeclineWaiting
<1> QED BY <1>1, <1>2, SaysAreOrdinary, OrdinaryParts

\* The words for a session that was opened: _end_active_for_switch and
\* _terminate_remote_failure.
LEMMA EndOfSessionIsOrdinary ==
    ASSUME CallInvariant, SidesAreKnown, NEW begun, Begun(openings) \subseteq begun, Live(context)
    PROVE  /\ context.state \in {"negotiating", "connected"} => Ordinary(SwitchStanzas, begun)
           /\ Ordinary(FailureStanzas, begun)
<1>1. Sayable(context.sid, begun)
  BY CallsAreSayable
<1>2. \A to : \A action \in {"finish", "session-terminate"} :
         IsOrdinary(Say(to, action, context.sid), begun)
  BY <1>1, SaysAreOrdinary
<1>3. \A to, condition : \A action \in {"finish", "session-terminate"} :
         Ordinary(When(condition, Say(to, action, context.sid)), begun)
  BY <1>2, WhenIsOrdinary
<1> QED BY <1>3, OrdinaryAppended DEF SwitchStanzas, FailureStanzas

\* The timeouts.
LEMMA TimeoutIsOrdinary ==
    ASSUME CallInvariant, SidesAreKnown, NEW begun, Begun(openings) \subseteq begun, TimerStep
    PROVE  Ordinary(sent', begun)
<1>1. CASE WaitingTimeout
  BY <1>1, DeclineWaitingIsOrdinary, OrdinaryParts DEF WaitingTimeout, NoCall
<1>2. CASE PhaseTimeout
  <2> DEFINE plan == PlanTimeout(phaseTimer.phase, context.incoming, context.jmi, JingleStarted)
             other == IF plan.jmi = "retract" THEN context.peer ELSE Target(context)
             first == When(plan.terminate /\ context.full # NoJid,
                           Say(context.full, "session-terminate", context.sid))
             second == When(plan.jmi # "none", Say(other, plan.jmi, context.sid))
  <2>1. sent' = first \o second /\ phaseTimer # NoTimer
    BY <1>2 DEF PhaseTimeout, CallInvariant, TimerIsOfCurrentPhase
  <2>2. Live(context)
    BY <2>1 DEF CallInvariant, TimerIsOfCurrentPhase, PhaseStates, Live, LiveStates
  <2>3. /\ Sayable(context.sid, begun)
        /\ IF context.incoming THEN context.sid \in PeerSids ELSE context.sid \in OwnSids
    BY <2>2, CallsAreSayable
  <2>4. \/ plan.jmi \in {"none", "finish"}
        \/ plan.jmi = "reject" /\ context.incoming
        \/ plan.jmi = "retract" /\ ~context.incoming
    BY DEF PlanTimeout
  <2> HIDE DEF plan, other
  <2>5. Ordinary(first, begun)
    BY <2>3, SaysAreOrdinary, WhenIsOrdinary
  <2>6. plan.jmi # "none" => IsOrdinary(Say(other, plan.jmi, context.sid), begun)
    BY <2>3, <2>4, SaysAreOrdinary
  <2>7. Ordinary(second, begun)
    BY <2>6, WhenIsOrdinary
  <2> QED BY <2>1, <2>5, <2>7, OrdinaryAppended
<1> QED BY <1>1, <1>2 DEF TimerStep

\* Steps that open nothing speak in role.
LEMMA OrdinarySpeaks ==
    ASSUME Ordinary(sent', Begun(openings'))
    PROVE  SpeaksInRole
<1>1. PICK set : sent' \in Seq(set) /\ \A s \in set : IsOrdinary(s, Begun(openings'))
  BY DEF Ordinary
<1>2. \A i \in DOMAIN sent' : IsOrdinary(sent'[i], Begun(openings'))
  BY <1>1
<1> QED BY <1>2 DEF IsOrdinary, SpeaksInRole, OpeningActions

\* So does a step that opens something that was not open.
LEMMA OpenerSpeaks ==
    ASSUME NEW s, NEW t, NEW opener, sent' = s \o <<opener>> \o t,
           Ordinary(s, Begun(openings')), Ordinary(t, Begun(openings')),
           opener.action \in OpeningActions,
           InRole(opener.sid, opener.action, Begun(openings')),
           <<opener.sid, opener.action>> \notin Begun(openings),
           opener.action = "propose" => s = <<>>
    PROVE  SpeaksInRole
<1>1. PICK one : s \in Seq(one) /\ \A a \in one : IsOrdinary(a, Begun(openings'))
  BY DEF Ordinary
<1>2. PICK two : t \in Seq(two) /\ \A a \in two : IsOrdinary(a, Begun(openings'))
  BY DEF Ordinary
<1> DEFINE all == one \cup two \cup {opener}
<1>3. s \in Seq(all) /\ t \in Seq(all) /\ <<opener>> \in Seq(all)
  BY <1>1, <1>2
<1>4. /\ s \o <<opener>> \in Seq(all) /\ Len(s \o <<opener>>) = Len(s) + 1
      /\ \A i \in 1..Len(s) + 1 : (s \o <<opener>>)[i] = IF i <= Len(s) THEN s[i] ELSE opener
  BY <1>3, ConcatProperties
<1>5. /\ sent' \in Seq(all) /\ Len(s) \in Nat /\ Len(sent') = Len(s) + 1 + Len(t)
      /\ \A i \in 1..Len(sent') :
            sent'[i] = IF i <= Len(s) + 1 THEN (s \o <<opener>>)[i] ELSE t[i - (Len(s) + 1)]
  <2> HIDE DEF all
  <2> QED BY <1>3, <1>4, ConcatProperties
<1>6. \A i \in DOMAIN sent' : IF i = Len(s) + 1 THEN sent'[i] = opener
                              ELSE IsOrdinary(sent'[i], Begun(openings'))
  <2> SUFFICES ASSUME NEW i \in 1..Len(sent'), i # Len(s) + 1
               PROVE  IsOrdinary(sent'[i], Begun(openings'))
    BY <1>4, <1>5
  <2>1. CASE i <= Len(s)
    BY <1>1, <1>4, <1>5, <2>1
  <2>2. CASE i > Len(s) + 1
    <3>1. i - (Len(s) + 1) \in 1..Len(t) /\ sent'[i] = t[i - (Len(s) + 1)]
      BY <1>2, <1>5, <2>2
    <3> QED BY <1>2, <3>1
  <2> QED BY <1>5, <2>1, <2>2
<1>7. opener.action = "propose" => Len(s) + 1 = 1
  BY <1>1
<1> HIDE DEF all
<1>8. SUFFICES ASSUME NEW i \in DOMAIN sent', sent'[i].action \in Words
      PROVE  /\ InRole(sent'[i].sid, sent'[i].action, Begun(openings'))
             /\ sent'[i].action = "propose" => i = 1
             /\ sent'[i].action \in OpeningActions =>
                   /\ <<sent'[i].sid, sent'[i].action>> \notin Begun(openings)
                   /\ \A j \in DOMAIN sent' : sent'[j].action \in OpeningActions => j = i
  BY DEF SpeaksInRole
<1>9. CASE i = Len(s) + 1
  BY <1>6, <1>7, <1>9 DEF IsOrdinary
<1>10. CASE i # Len(s) + 1
  BY <1>6, <1>8, <1>10 DEF IsOrdinary, OpeningActions
<1> QED BY <1>9, <1>10

\* Joining nothing to a sequence, and the two stanzas of a proceed.
LEMMA SequenceParts ==
    /\ \A a : <<>> \o <<a>> \o <<>> = <<a>>
    /\ \A set : \A s \in Seq(set) : \A a : <<>> \o <<a>> \o s = <<a>> \o s
    /\ \A set : \A s \in Seq(set) : \A a, b : s \o <<a, b>> = s \o <<a>> \o <<b>>
<1>1. \A a : <<>> \o <<a>> \o <<>> = <<a>>
  OBVIOUS
<1>2. ASSUME NEW set, NEW s \in Seq(set), NEW a PROVE <<>> \o <<a>> \o s = <<a>> \o s
  OBVIOUS
<1>3. ASSUME NEW set, NEW s \in Seq(set), NEW a, NEW b
      PROVE  s \o <<a, b>> = s \o <<a>> \o <<b>>
  <2> DEFINE all == set \cup {a, b}
  <2>1. s \in Seq(all) /\ <<a>> \in Seq(all) /\ <<b>> \in Seq(all)
    OBVIOUS
  <2>2. <<a, b>> = <<a>> \o <<b>>
    <3> DEFINE joined == <<a>> \o <<b>>
               pair == <<a, b>>
    <3>1. <<a>> \in Seq({a, b}) /\ <<b>> \in Seq({a, b})
      OBVIOUS
    <3>2. joined \in Seq({a, b}) /\ Len(joined) = 2 /\ joined[1] = a /\ joined[2] = b
      BY <3>1, ConcatProperties
    <3>3. pair \in Seq({a, b}) /\ Len(pair) = 2 /\ pair[1] = a /\ pair[2] = b
      OBVIOUS
    <3> HIDE DEF joined, pair
    <3>4. \A i \in 1..Len(joined) : joined[i] = pair[i]
      BY <3>2, <3>3
    <3>5. joined = pair
      BY <3>2, <3>3, <3>4, SeqEqual
    <3> QED BY <3>5 DEF joined, pair
  <2> HIDE DEF all
  <2> QED BY <2>1, <2>2, ConcatAssociative
<1> QED BY <1>1, <1>2, <1>3

\* What was said before a proceed with a call of the contact's was.
LEMMA ProceedSpeaks ==
    ASSUME NEW s, Ordinary(s, Begun(openings')), NEW to, NEW sid, sid \in PeerSids,
           Sayable(sid, Begun(openings')), <<sid, "proceed">> \in Begun(openings'),
           <<sid, "proceed">> \notin Begun(openings), sent' = s \o Proceed(to, sid)
    PROVE  SpeaksInRole
<1> DEFINE opener == Say(to, "proceed", sid)
           presence == Say(to, "presence", sid)
<1>1. opener.action = "proceed" /\ opener.sid = sid
  BY DEF Say
<1>2. Ordinary(<<presence>>, Begun(openings'))
  BY ResultIsOrdinary, OrdinaryParts
<1>3. InRole(opener.sid, opener.action, Begun(openings')) /\ opener.action \in OpeningActions
  BY <1>1 DEF InRole, Sayable, OpeningActions
<1>4. sent' = s \o <<opener, presence>>
  BY DEF Proceed
<1> HIDE DEF opener, presence
<1>5. sent' = s \o <<opener>> \o <<presence>>
  BY <1>4, SequenceParts DEF Ordinary
<1> QED BY <1>1, <1>2, <1>3, <1>5, OpenerSpeaks

\* What a client rests on in all its steps.
ClientInvariant == EngineInvariant /\ RoleInvariant /\ attached

\* What has begun was opened by or with somebody.
LEMMA BegunIs ==
    ASSUME NEW opened \in SUBSET Openings, NEW sid, NEW action
    PROVE  /\ \A d : <<sid, d, action>> \in opened => <<sid, action>> \in Begun(opened)
           /\ <<sid, action>> \in Begun(opened) =>
                 \E d \in Devices \cup {NoJid} : <<sid, d, action>> \in opened
<1>1. ASSUME NEW d, <<sid, d, action>> \in opened PROVE <<sid, action>> \in Begun(opened)
  <2>1. <<sid, d, action>>[1] = sid /\ <<sid, d, action>>[3] = action
    OBVIOUS
  <2> QED BY <1>1, <2>1 DEF Begun
<1>2. ASSUME <<sid, action>> \in Begun(opened)
      PROVE  \E d \in Devices \cup {NoJid} : <<sid, d, action>> \in opened
  <2>1. PICK o \in opened : <<sid, action>> = <<o[1], o[3]>>
    BY <1>2 DEF Begun
  <2>2. o[1] = sid /\ o[3] = action
    BY <2>1
  <2>3. o \in Openings
    OBVIOUS
  <2>4. o = <<o[1], o[2], o[3]>> /\ o[2] \in Devices \cup {NoJid}
    BY <2>3 DEF Openings
  <2> QED BY <2>2, <2>4
<1> QED BY <1>1, <1>2

\* And what has begun stays so.
LEMMA BegunGrows ==
    ASSUME NEW opened, NEW more, opened \subseteq more
    PROVE  Begun(opened) \subseteq Begun(more)
BY DEF Begun

\* What is opened with a device, or proposed, has begun.
LEMMA BegunThen ==
    ASSUME CallInvariant
    PROVE  /\ \A sid, d, action : <<sid, d, action>> \in openings =>
                 <<sid, action>> \in Begun(openings)
           /\ \A sid : Proposed(sid) <=> <<sid, "propose">> \in Begun(openings)
           /\ \A sid, action : WasOpened(sid, action) => <<sid, action>> \in Begun(openings)
<1>1. openings \in SUBSET Openings
  BY DEF CallInvariant, TypeOK, NetworkTyped
<1> QED BY <1>1, BegunIs DEF Proposed, WasOpened

\* A contact proposes a session id that nothing has begun with.
LEMMA ProposalBegins ==
    ASSUME CallInvariant, RoleInvariant, NEW from \in Devices, NEW sid, Proposal(from, sid)
    PROVE  /\ sid \in PeerSids /\ sid \notin Direct
           /\ <<sid, "propose">> \notin Begun(openings)
           /\ <<sid, "proceed">> \notin Begun(openings)
<1>1. sid \in PeerSids \ Direct /\ ~Proposed(sid)
  BY DEF Proposal, MaySendJmi
<1> QED BY <1>1, BegunThen DEF RoleInvariant, RingingIsNotAccepted

\* What the user does is in role.
LEMMA UserSpeaks ==
    ASSUME ClientInvariant, UserStep, CallInvariant', openings \subseteq openings'
    PROVE  SpeaksInRole
<1>0. /\ CallInvariant /\ SidesAreKnown /\ RoleInvariant
      /\ Begun(openings) \subseteq Begun(openings')
  BY BegunGrows DEF ClientInvariant, EngineInvariant
<1>1. ASSUME NEW sid \in OwnSids, StartOutgoing(sid) PROVE SpeaksInRole
  <2>1. CASE Live(context)
    BY <1>1, <2>1, OrdinaryParts, OrdinarySpeaks DEF StartOutgoing
  <2>2. CASE ~Live(context)
    <3> DEFINE opener == Say(Party[sid], "propose", sid)
    <3>1. /\ sent' = <<opener>> /\ <<sid, NoJid, "propose">> \in openings'
          /\ <<sid, NoJid, "propose">> \notin openings
      BY <1>1, <2>2 DEF StartOutgoing
    <3>2. opener.action = "propose" /\ opener.sid = sid
      BY DEF Say
    <3>3. <<sid, "propose">> \in Begun(openings')
      BY <3>1, BegunIs DEF CallInvariant, TypeOK, NetworkTyped
    <3>4. <<sid, "propose">> \notin Begun(openings)
      <4> SUFFICES ASSUME <<sid, "propose">> \in Begun(openings) PROVE FALSE
        OBVIOUS
      <4>1. PICK d \in Devices \cup {NoJid} : <<sid, d, "propose">> \in openings
        BY <1>0, BegunIs DEF CallInvariant, TypeOK, NetworkTyped
      <4> DEFINE o == <<sid, d, "propose">>
      <4>2. o[1] = sid /\ o[2] = d /\ o[3] = "propose" /\ o \in openings
        BY <4>1
      <4>3. d = NoJid
        <5> HIDE DEF o
        <5> QED BY <1>0, <4>2 DEF RoleInvariant, OpeningsAreNamed
      <4> QED BY <3>1, <4>1, <4>3
    <3>5. InRole(sid, "propose", Begun(openings'))
      BY <3>3 DEF InRole, Sids
    <3> HIDE DEF opener
    <3>6. sent' = <<>> \o <<opener>> \o <<>>
      BY <3>1, SequenceParts
    <3>7. Ordinary(<<>>, Begun(openings'))
      BY OrdinaryParts
    <3> QED BY <3>2, <3>4, <3>5, <3>6, <3>7, OpenerSpeaks DEF OpeningActions
  <2> QED BY <2>1, <2>2
<1>2. CASE ToolbarHangup
  BY <1>0, <1>2, HangupIsOrdinary, OrdinarySpeaks DEF ToolbarHangup
<1>3. CASE ClickAccept \/ ClickDecline \/ ClickHangup \/ CloseWindow \/ Deactivate
  BY <1>3, OrdinaryParts, OrdinarySpeaks DEF ClickAccept, ClickDecline, ClickHangup,
     CloseWindow, Click, Deactivate
<1> QED BY <1>1, <1>2, <1>3 DEF UserStep

\* Candidates go where their engine's session was opened.
LEMMA CandidatesAreOrdinary ==
    ASSUME EngineInvariant, NEW begun, Begun(openings) \subseteq begun,
           NEW queued \in Seq(Engines), media \in Engines \/ queued = <<>>,
           Live(context)
    PROVE  Ordinary(Candidates(queued), begun)
<1>0. CallInvariant /\ SidesAreKnown
  BY DEF EngineInvariant
<1>1. CASE queued = <<>>
  <2>1. Candidates(queued) = <<>>
    BY <1>1 DEF Candidates
  <2> QED BY <2>1, OrdinaryParts
<1>2. CASE media \in Engines
  <2>1. media # NoEngine /\ media[1] = context.sid /\ media[2] = context.full
    BY <1>2, Constants DEF EngineInvariant, CallInvariant, MediaBelongsToCall, EnginesAreCurrent
  <2>2. context.incoming => <<context.sid, "session-initiate">> \in begun
    BY <1>0, <2>1, BegunThen DEF EngineInvariant, EnginesAreCurrent
  <2>3. /\ Sayable(context.sid, begun)
        /\ IF context.incoming THEN context.sid \in PeerSids ELSE context.sid \in OwnSids
    BY <1>0, CallsAreSayable
  <2>4. InRole(context.sid, "transport-info", begun)
    BY <2>2, <2>3, SidAssumption DEF InRole, Sayable, OpeningActions
  <2> DEFINE set == {stanza \in Stanzas : IsOrdinary(stanza, begun)}
  <2>5. \A i \in DOMAIN queued :
           Carry(context.full, "transport-info", context.sid, queued[i]) \in set
    <3> SUFFICES ASSUME NEW i \in DOMAIN queued
                 PROVE  Carry(context.full, "transport-info", context.sid, queued[i]) \in set
      OBVIOUS
    <3> DEFINE stanza == Carry(context.full, "transport-info", context.sid, queued[i])
    <3>1. stanza.action = "transport-info" /\ stanza.sid = context.sid
      BY DEF Carry
    <3>2. stanza \in Stanzas
      <4>1. queued[i] \in Engines /\ context.full \in Devices /\ context.sid \in Sids
        BY <1>2, <2>1 DEF Engines
      <4> QED BY <4>1, CarryTypes
    <3>3. IsOrdinary(stanza, begun)
      BY <2>4, <3>1 DEF IsOrdinary, OpeningActions
    <3> QED BY <3>2, <3>3
  <2> HIDE DEF set
  <2>6. DOMAIN queued = 1..Len(queued) /\ Len(queued) \in Nat
    OBVIOUS
  <2>7. Candidates(queued) \in Seq(set)
    BY <2>5, <2>6, IsASeq DEF Candidates
  <2> QED BY <2>7 DEF Ordinary, set
<1> QED BY <1>1, <1>2

\* An offer is made with the first description of its engine, an answer to an offer that
\* came, and the candidates kept until then follow.
LEMMA DescriptionSpeaks ==
    ASSUME ClientInvariant, LocalDescriptionReady, CallInvariant', openings \subseteq openings'
    PROVE  SpeaksInRole
<1>0. /\ CallInvariant /\ SidesAreKnown /\ RoleInvariant /\ EngineInvariant
      /\ Begun(openings) \subseteq Begun(openings')
  BY BegunGrows DEF ClientInvariant, EngineInvariant
<1>1. CASE sent' = <<>>
  BY <1>1, OrdinaryParts, OrdinarySpeaks
<1>2. CASE sent' # <<>>
  <2> DEFINE action == IF context.incoming THEN "session-accept" ELSE "session-initiate"
             first == Carry(context.full, action, context.sid, Source)
             rest == Candidates(pendingLocal)
  <2>1. /\ Pop("description") /\ engines[Source] # "closed" /\ Live(context)
        /\ context.full # NoJid /\ sent' = <<first>> \o rest
        /\ ~context.incoming =>
              <<context.sid, context.full, "session-initiate">> \in openings'
    BY <1>2 DEF LocalDescriptionReady
  <2>2. Source = media /\ media \in Engines
    BY <1>0, <2>1, ReadyIsCurrent
  <2>3. media # NoEngine /\ media = <<context.sid, context.full>>
    BY <1>0, <2>2, Constants DEF Engines, CallInvariant, MediaBelongsToCall, EngineInvariant,
       EnginesAreCurrent
  <2>4. Ordinary(rest, Begun(openings'))
    <3>1. pendingLocal \in Seq(Engines)
      BY <1>0 DEF CallInvariant, TypeOK, MediaTyped
    <3> QED BY <1>0, <2>1, <2>2, <3>1, CandidatesAreOrdinary
  <2>5. /\ Sayable(context.sid, Begun(openings'))
        /\ IF context.incoming THEN context.sid \in PeerSids ELSE context.sid \in OwnSids
    BY <1>0, <2>1, CallsAreSayable
  <2>6. first.action = action /\ first.sid = context.sid
    BY DEF Carry
  <2> HIDE DEF first, rest
  <2>7. CASE context.incoming
    <3>1. <<context.sid, "session-initiate">> \in Begun(openings')
      BY <1>0, <2>3, <2>7, BegunThen DEF EngineInvariant, EnginesAreCurrent
    <3>2. IsOrdinary(first, Begun(openings'))
      BY <2>5, <2>6, <2>7, <3>1, SidAssumption DEF IsOrdinary, InRole, Sayable, OpeningActions
    <3> QED BY <2>1, <2>4, <3>2, OrdinaryParts, OrdinaryAppended, OrdinarySpeaks
  <2>8. CASE ~context.incoming
    <3>1. <<context.sid, "session-initiate">> \in Begun(openings')
      BY <2>1, <2>8, BegunIs DEF CallInvariant, TypeOK, NetworkTyped
    <3>2. <<context.sid, "session-initiate">> \notin Begun(openings)
      <4>1. context # NoCall /\ context.full \in Devices
        BY <2>1, <2>2, <2>3 DEF Engines, Live, LiveStates, NoCall
      <4>2. Bare[context.full] = Party[context.sid]
        BY <1>0, <2>1, <4>1 DEF SidesAreKnown, OfItsSide
      <4>3. idle \in Seq(Callbacks) /\ idle # <<>> /\ Head(idle).what = "description"
        BY <1>0, <2>1 DEF CallInvariant, TypeOK, QueueTyped, Pop
      <4>4. 1 \in DOMAIN idle /\ Describes(1, <<context.sid, context.full>>)
        BY <2>2, <2>3, <4>3 DEF Describes, Source
      <4> QED BY <1>0, <2>5, <2>8, <4>1, <4>2, <4>4 DEF RoleInvariant, OfferedOnce
    <3>3. InRole(context.sid, "session-initiate", Begun(openings'))
      BY <2>5, <2>8, <3>1 DEF InRole, Sayable
    <3>4. sent' = <<>> \o <<first>> \o rest
      BY <2>1, <2>4, SequenceParts DEF Ordinary
    <3>5. Ordinary(<<>>, Begun(openings'))
      BY OrdinaryParts
    <3> QED BY <2>4, <2>6, <2>8, <3>2, <3>3, <3>4, <3>5, OpenerSpeaks DEF OpeningActions
  <2> QED BY <2>7, <2>8
<1> QED BY <1>1, <1>2

\* A caller is accepted once: with its offer, or it is told to proceed.
LEMMA AcceptSpeaks ==
    ASSUME ClientInvariant, AcceptWaiting \/ AcceptRinging, CallInvariant',
           openings \subseteq openings'
    PROVE  SpeaksInRole
<1>0. /\ CallInvariant /\ SidesAreKnown /\ RoleInvariant
      /\ Begun(openings) \subseteq Begun(openings') /\ openings' \in SUBSET Openings
  BY BegunGrows DEF ClientInvariant, EngineInvariant, CallInvariant, TypeOK, NetworkTyped
<1>1. CASE AcceptWaiting
  <2>1. waiting # NoCall /\ context.state \in {"negotiating", "connected"}
    BY <1>0, <1>1 DEF AcceptWaiting, CallInvariant, WaitingBehindActive
  <2>2. Ordinary(SwitchStanzas, Begun(openings'))
    BY <1>0, <2>1, EndOfSessionIsOrdinary DEF Live, LiveStates
  <2>3. CASE waitingOffer
    BY <1>1, <2>2, <2>3, OrdinarySpeaks DEF AcceptWaiting
  <2>4. CASE ~waitingOffer
    <3>1. /\ sent' = SwitchStanzas \o Proceed(waiting.full, waiting.sid)
          /\ <<waiting.sid, waiting.full, "proceed">> \in openings'
      BY <1>1, <2>4 DEF AcceptWaiting
    <3>2. Sayable(waiting.sid, Begun(openings')) /\ waiting.sid \in PeerSids
      BY <1>0, <2>1, CallsAreSayable
    <3>3. <<waiting.sid, "proceed">> \in Begun(openings')
      BY <1>0, <3>1, BegunIs
    <3>4. <<waiting.sid, "proceed">> \notin Begun(openings)
      BY <1>0, <2>1, <2>4 DEF RoleInvariant, RingingIsNotAccepted
    <3> QED BY <2>2, <3>1, <3>2, <3>3, <3>4, ProceedSpeaks
  <2> QED BY <2>3, <2>4
<1>2. CASE AcceptRinging
  <2>1. context.state = "ringing" /\ context.incoming
    BY <1>0, <1>2 DEF AcceptRinging, CallInvariant, CallsWellFormed
  <2>2. CASE pendingOffer
    BY <1>2, <2>2, OrdinaryParts, OrdinarySpeaks DEF AcceptRinging
  <2>3. CASE ~pendingOffer
    <3>1. /\ sent' = Proceed(context.full, context.sid)
          /\ <<context.sid, context.full, "proceed">> \in openings'
      BY <1>2, <2>3 DEF AcceptRinging
    <3>2. Sayable(context.sid, Begun(openings')) /\ context.sid \in PeerSids
      BY <1>0, <2>1, CallsAreSayable DEF Live, LiveStates
    <3>3. <<context.sid, "proceed">> \in Begun(openings')
      BY <1>0, <3>1, BegunIs
    <3>4. <<context.sid, "proceed">> \notin Begun(openings)
      BY <1>0, <2>1, <2>3 DEF RoleInvariant, RingingIsNotAccepted
    <3>5. sent' = <<>> \o Proceed(context.full, context.sid)
      <4> DEFINE proceed == Proceed(context.full, context.sid)
      <4>1. proceed \in Seq({Say(context.full, "proceed", context.sid),
                             Say(context.full, "presence", context.sid)})
        BY DEF Proceed
      <4> HIDE DEF proceed
      <4>2. <<>> \o proceed = proceed
        BY <4>1, ConcatEmptySeq
      <4> QED BY <3>1, <4>2 DEF proceed
    <3>6. Ordinary(<<>>, Begun(openings'))
      BY OrdinaryParts
    <3> QED BY <3>2, <3>3, <3>4, <3>5, <3>6, ProceedSpeaks
  <2> QED BY <2>2, <2>3
<1> QED BY <1>1, <1>2

\* What the queue brings is in role.
LEMMA IdleSpeaks ==
    ASSUME ClientInvariant, IdleStep, CallInvariant', openings \subseteq openings'
    PROVE  SpeaksInRole
<1>0. /\ CallInvariant /\ SidesAreKnown /\ RoleInvariant /\ EngineInvariant
      /\ Begun(openings) \subseteq Begun(openings')
  BY BegunGrows DEF ClientInvariant, EngineInvariant
<1>1. CASE AcceptWaiting \/ AcceptRinging
  BY <1>1, AcceptSpeaks
<1>2. CASE AcceptNothing \/ MediaConnected
  BY <1>2, OrdinaryParts, OrdinarySpeaks DEF AcceptNothing, MediaConnected
<1>3. CASE Decline
  <2>1. CASE waiting # NoCall
    BY <1>0, <1>3, <2>1, DeclineWaitingIsOrdinary, OrdinarySpeaks DEF Decline
  <2>2. CASE waiting = NoCall /\ context = NoCall
    BY <1>3, <2>2, OrdinaryParts, OrdinarySpeaks DEF Decline
  <2>3. CASE waiting = NoCall /\ context # NoCall
    <3> DEFINE action == IF pendingOffer THEN "session-terminate" ELSE "reject"
    <3>1. sent' = When(context.incoming /\ context.full # NoJid,
                       Say(context.full, action, context.sid))
      BY <1>3, <2>3 DEF Decline
    <3>2. /\ Sayable(context.sid, Begun(openings'))
          /\ context.incoming => context.sid \in PeerSids
      BY <1>0, <2>3, CallsAreSayable
    <3>3. context.incoming =>
            IsOrdinary(Say(context.full, action, context.sid), Begun(openings'))
      BY <3>2, SaysAreOrdinary
    <3> HIDE DEF action
    <3> QED BY <3>1, <3>3, WhenIsOrdinary, OrdinarySpeaks
  <2> QED BY <2>1, <2>2, <2>3
<1>4. CASE HangupClicked \/ WindowClosed
  BY <1>0, <1>4, HangupIsOrdinary, DeclineWaitingIsOrdinary, OrdinarySpeaks
     DEF HangupClicked, WindowClosed
<1>5. CASE LocalDescriptionReady
  BY <1>5, DescriptionSpeaks
<1>6. CASE LocalCandidateReady
  <2>1. CASE sent' = <<>>
    BY <2>1, OrdinaryParts, OrdinarySpeaks
  <2>2. CASE sent' # <<>>
    <3>1. /\ Pop("candidate") /\ engines[Source] # "closed" /\ Live(context)
          /\ sent' = Candidates(<<Source>>)
      BY <1>6, <2>2 DEF LocalCandidateReady
    <3>2. Source = media /\ media \in Engines
      BY <1>0, <3>1, ReadyIsCurrent
    <3>3. <<Source>> \in Seq(Engines)
      BY <3>2
    <3> QED BY <1>0, <3>1, <3>2, <3>3, CandidatesAreOrdinary, OrdinarySpeaks
  <2> QED BY <2>1, <2>2
<1>7. CASE MediaFailed
  <2>1. CASE Live(context)
    BY <1>0, <1>7, <2>1, EndOfSessionIsOrdinary, OrdinarySpeaks DEF MediaFailed
  <2>2. CASE ~Live(context)
    BY <1>7, <2>2, OrdinaryParts, OrdinarySpeaks DEF MediaFailed
  <2> QED BY <2>1, <2>2
<1> QED BY <1>1, <1>2, <1>3, <1>4, <1>5, <1>6, <1>7 DEF IdleStep

\* So are the timeouts and the reports.
LEMMA TimerSpeaks ==
    ASSUME ClientInvariant, TimerStep \/ MediaStep, openings \subseteq openings'
    PROVE  SpeaksInRole
<1>0. /\ CallInvariant /\ SidesAreKnown /\ Begun(openings) \subseteq Begun(openings')
  BY BegunGrows DEF ClientInvariant, EngineInvariant
<1>1. CASE TimerStep
  BY <1>0, <1>1, TimeoutIsOrdinary, OrdinarySpeaks
<1>2. CASE MediaStep
  BY <1>2, OrdinaryParts, OrdinarySpeaks DEF MediaStep, EngineReports
<1> QED BY <1>1, <1>2

\* A contact's proposal is answered in role.
LEMMA ProposalSpeaks ==
    ASSUME ClientInvariant, CallInvariant', openings \subseteq openings',
           NEW from \in Devices, NEW sid \in Sids,
           \/ MigrateCall(from, sid) \/ RejectExtraProposal(from, sid)
           \/ ProposalWaits(from, sid) \/ WinTieBreak(from, sid)
           \/ LoseTieBreak(from, sid) \/ RingForProposal(from, sid)
    PROVE  SpeaksInRole
<1> DEFINE begun == Begun(openings')
<1>0. /\ CallInvariant /\ SidesAreKnown /\ RoleInvariant
      /\ Begun(openings) \subseteq begun /\ openings' \in SUBSET Openings
  BY BegunGrows DEF ClientInvariant, EngineInvariant, CallInvariant, TypeOK, NetworkTyped
<1>1. Proposal(from, sid) /\ <<sid, from, "propose">> \in openings'
  BY DEF MigrateCall, RejectExtraProposal, ProposalWaits, WinTieBreak, LoseTieBreak,
     RingForProposal, Opens
<1>2. sid \in PeerSids /\ <<sid, "proceed">> \notin Begun(openings)
  BY <1>0, <1>1, ProposalBegins
<1>3. Sayable(sid, begun)
  BY <1>0, <1>1, BegunIs DEF Sayable
<1> HIDE DEF begun
<1>4. \A to : \A action \in {"ringing", "reject"} : IsOrdinary(Say(to, action, sid), begun)
  BY <1>2, <1>3, SaysAreOrdinary
<1>5. CASE RejectExtraProposal(from, sid) \/ ProposalWaits(from, sid) \/ WinTieBreak(from, sid)
           \/ RingForProposal(from, sid)
  <2>1. sent' = <<Say(from, "ringing", sid)>> \/ sent' = <<Say(from, "reject", sid)>>
    BY <1>5 DEF RejectExtraProposal, ProposalWaits, WinTieBreak, RingForProposal
  <2> QED BY <1>4, <2>1, OrdinaryParts, OrdinarySpeaks DEF begun
<1>6. CASE LoseTieBreak(from, sid)
  <2>1. /\ context.state = "proposing"
        /\ sent' = <<Say(context.peer, "retract", context.sid), Say(from, "ringing", sid)>>
    BY <1>6 DEF LoseTieBreak, Glare
  <2>2. Sayable(context.sid, begun) /\ context.sid \in OwnSids
    BY <1>0, <2>1, CallsAreSayable DEF Live, LiveStates, RoleInvariant
  <2>3. IsOrdinary(Say(context.peer, "retract", context.sid), begun)
    BY <2>2, SaysAreOrdinary
  <2> QED BY <1>4, <2>1, <2>3, OrdinaryParts, OrdinarySpeaks DEF begun
<1>7. CASE MigrateCall(from, sid)
  <2> DEFINE first == When(context.full # NoJid /\ JingleStarted,
                           Say(context.full, "session-terminate", context.sid))
             second == <<Say(Target(context), "finish", context.sid)>>
  <2>1. /\ context.state \in {"negotiating", "connected"}
        /\ sent' = (first \o second) \o Proceed(from, sid)
        /\ <<sid, from, "proceed">> \in openings'
    BY <1>7 DEF MigrateCall, Migrates
  <2>2. Sayable(context.sid, begun)
    BY <1>0, <2>1, CallsAreSayable DEF Live, LiveStates
  <2>3. Ordinary(first, begun) /\ Ordinary(second, begun)
    BY <2>2, SaysAreOrdinary, WhenIsOrdinary, OrdinaryParts
  <2> HIDE DEF first, second
  <2>4. Ordinary(first \o second, begun)
    BY <2>3, OrdinaryAppended
  <2>5. <<sid, "proceed">> \in begun
    BY <1>0, <2>1, BegunIs DEF begun
  <2> QED BY <1>2, <1>3, <2>1, <2>4, <2>5, ProceedSpeaks DEF begun
<1> QED BY <1>5, <1>6, <1>7

\* So is any JMI message.
LEMMA JmiSpeaks ==
    ASSUME ClientInvariant, CallInvariant', openings \subseteq openings',
           NEW from \in Devices, NEW sid \in Sids, JmiStep(from, sid)
    PROVE  SpeaksInRole
<1>1. CASE \/ PeerRings(from, sid) \/ PeerProceeds(from, sid) \/ LateProceed(from, sid)
           \/ \E action \in JmiActions : \/ WaitingCallerGone(from, action, sid)
                                        \/ PeerEndsByJmi(from, action, sid)
  <2>1. sent' = <<>>
    BY <1>1 DEF PeerRings, PeerProceeds, LateProceed, WaitingCallerGone, PeerEndsByJmi
  <2> QED BY <2>1, OrdinaryParts, OrdinarySpeaks
<1> QED BY <1>1, ProposalSpeaks DEF JmiStep

\* And an IQ, which is acknowledged.
LEMMA JingleSpeaks ==
    ASSUME ClientInvariant, openings \subseteq openings',
           NEW from \in Devices, NEW sid \in Sids, JingleStep(from, sid)
    PROVE  SpeaksInRole
<1> DEFINE begun == Begun(openings')
           ack == Say(from, "result", sid)
           refusal == Say(from, "session-terminate", sid)
<1>1. \/ sent' = <<ack>>
      \/ sent' = <<ack>> \o <<refusal>> /\ RejectExtraSession(from, sid)
  BY DEF JingleStep, WaitingCallerInitiates, WaitingCallerTrickles,
     WaitingCallerTerminates, RejectExtraSession, SessionWaits, SessionAfterEnd,
     RingForSession, SessionInitiated, SessionAccepted, PeerTrickles, PeerTerminates,
     ForActiveSession, Ack
<1>2. Ordinary(<<ack>>, begun)
  BY ResultIsOrdinary, OrdinaryParts
<1>3. ASSUME RejectExtraSession(from, sid) PROVE Ordinary(<<refusal>>, begun)
  <2>1. sid \in Direct \/ Proposed(sid)
    BY <1>3 DEF RejectExtraSession, Claimed, MaySendJingle
  <2>2. Sayable(sid, begun)
    BY <2>1, BegunThen, BegunGrows DEF Sayable, ClientInvariant, EngineInvariant
  <2> QED BY <2>2, SaysAreOrdinary, OrdinaryParts
<1> HIDE DEF ack, refusal
<1> QED BY <1>1, <1>2, <1>3, OrdinaryAppended, OrdinarySpeaks

\* A client keeps to its role in each step.
LEMMA NextSpeaks ==
    ASSUME ClientInvariant, Next
    PROVE  SpeaksInRole
<1>1. CallInvariant' /\ openings \subseteq openings'
  BY NextInvariant, OpeningsGrow DEF ClientInvariant, EngineInvariant
<1> QED BY <1>1, UserSpeaks, IdleSpeaks, TimerSpeaks, JmiSpeaks, JingleSpeaks
     DEF Next, NetworkStep

-----------------------------------------------------------------------------
(* What is opened, by whom, and with which description.                    *)

\* The other end opens calls and sessions of its own, and proceeds with this side's.
Inward(sid, action) == \/ sid \in PeerSids /\ action \in {"propose", "session-initiate"}
                       \/ sid \in OwnSids /\ action = "proceed"

\* What a client does of its own accord opens only what is its to open.
LEMMA ActOpens ==
    ASSUME ClientInvariant, UserStep \/ IdleStep \/ TimerStep \/ MediaStep,
           NEW sid, NEW d, NEW action, <<sid, d, action>> \in openings' \ openings
    PROVE  /\ Outward(sid, action)
           /\ IF action = "propose" THEN d = NoJid ELSE d \in Devices
           /\ action = "session-initiate" =>
                /\ LocalDescriptionReady /\ engines[Source] # "closed" /\ Live(context)
                /\ ~context.incoming /\ sid = context.sid
           /\ action = "proceed" =>
                /\ Sayable(sid, Begun(openings))
                /\ context'.state # "ringing" /\ waiting' = NoCall
<1>0. /\ CallInvariant /\ SidesAreKnown /\ RoleInvariant /\ EngineInvariant
      /\ \A f \in Devices : f # NoJid
  BY Constants DEF ClientInvariant, EngineInvariant
<1>1. ASSUME NEW own \in OwnSids, StartOutgoing(own)
      PROVE  sid \in OwnSids /\ action = "propose" /\ d = NoJid
  BY <1>1 DEF StartOutgoing
<1>2. CASE AcceptWaiting
  <2>1. waiting # NoCall /\ openings' \subseteq openings \cup {<<waiting.sid, waiting.full, "proceed">>}
        /\ context' = [waiting EXCEPT !.state = "negotiating"] /\ waiting' = NoCall
    BY <1>2 DEF AcceptWaiting, NoWaiting
  <2>2. sid = waiting.sid /\ d = waiting.full /\ action = "proceed"
    BY <2>1
  <2>3. waiting \in CallRecord /\ waiting.full \in Devices
    BY <1>0, <2>1 DEF CallInvariant, TypeOK, CallsTyped, WaitingBehindActive
  <2>4. context'.state = "negotiating"
    BY <2>1, <2>3, Written
  <2>5. Sayable(sid, Begun(openings)) /\ sid \in PeerSids
    BY <1>0, <2>1, <2>2, CallsAreSayable
  <2> QED BY <2>1, <2>2, <2>3, <2>4, <2>5 DEF Outward
<1>3. CASE AcceptRinging
  <2>1. /\ context.state = "ringing" /\ waiting' = NoCall
        /\ openings' \subseteq openings \cup {<<context.sid, context.full, "proceed">>}
        /\ context' = [context EXCEPT !.state = "negotiating"]
    BY <1>3 DEF AcceptRinging
  <2>2. sid = context.sid /\ d = context.full /\ action = "proceed"
    BY <2>1
  <2>3. context \in CallRecord /\ context # NoCall /\ context.incoming
    BY <1>0, <2>1 DEF CallInvariant, TypeOK, CallsTyped, CallsWellFormed, NoCall
  <2>4. context'.state = "negotiating"
    BY <2>1, <2>3, Written
  <2>5. Sayable(sid, Begun(openings)) /\ sid \in PeerSids /\ context.full \in Devices
    BY <1>0, <2>2, <2>3, CallsAreSayable DEF SidesAreKnown, OfItsSide
  <2> QED BY <2>1, <2>2, <2>4, <2>5 DEF Outward
<1>4. CASE LocalDescriptionReady
  <2>1. /\ ~context.incoming /\ Live(context) /\ engines[Source] # "closed"
        /\ context.full # NoJid
        /\ openings' = openings \cup {<<context.sid, context.full, "session-initiate">>}
    BY <1>4 DEF LocalDescriptionReady
  <2>2. sid = context.sid /\ d = context.full /\ action = "session-initiate"
    BY <2>1
  <2>3. context \in CallRecord /\ context # NoCall
    BY <1>0, <2>1 DEF CallInvariant, TypeOK, CallsTyped, NoCall, Live, LiveStates
  <2>4. context.full \in Devices /\ context.sid \in OwnSids
    BY <1>0, <2>1, <2>3 DEF CallRecord, SidesAreKnown, OfItsSide
  <2> QED BY <1>4, <2>1, <2>2, <2>4 DEF Outward
<1>5. CASE ~LocalDescriptionReady /\ ~AcceptRinging /\ ~AcceptWaiting
           /\ ~\E own \in OwnSids : StartOutgoing(own)
  <2>1. openings' = openings
    BY <1>5 DEF UserStep, ToolbarHangup, ClickAccept, ClickDecline, ClickHangup, CloseWindow,
       Click, Deactivate, networkVars, IdleStep, AcceptNothing, Decline, HangupClicked,
       WindowClosed, LocalCandidateReady, MediaConnected, MediaFailed, TimerStep,
       PhaseTimeout, WaitingTimeout, MediaStep, EngineReports
  <2> QED BY <2>1
<1>6. CASE \E own \in OwnSids : StartOutgoing(own)
  BY <1>1, <1>6 DEF Outward
<1> QED BY <1>2, <1>3, <1>4, <1>5, <1>6

\* What a client receives opens what the contact sent, and a migration the proceed with it.
LEMMA ReceiptOpens ==
    ASSUME NEW from \in Devices, NEW sid \in Sids,
           JmiStep(from, sid) \/ JingleStep(from, sid),
           NEW s, NEW d, NEW action, <<s, d, action>> \in openings' \ openings
    PROVE  /\ s = sid /\ d = from
           /\ \/ Inward(sid, action)
              \/ MigrateCall(from, sid) /\ action = "proceed" /\ sid \in PeerSids
<1>1. CASE \/ RejectExtraProposal(from, sid) \/ ProposalWaits(from, sid)
           \/ WinTieBreak(from, sid) \/ LoseTieBreak(from, sid) \/ RingForProposal(from, sid)
  <2>1. sid \in PeerSids /\ openings' = openings \cup {<<sid, from, "propose">>}
    BY <1>1 DEF RejectExtraProposal, ProposalWaits, WinTieBreak, LoseTieBreak,
       RingForProposal, Proposal, MaySendJmi, Opens
  <2> QED BY <2>1 DEF Inward
<1>2. CASE MigrateCall(from, sid)
  <2>1. sid \in PeerSids
        /\ openings' = openings \cup {<<sid, from, "propose">>, <<sid, from, "proceed">>}
    BY <1>2 DEF MigrateCall, Proposal, MaySendJmi
  <2> QED BY <1>2, <2>1 DEF Inward
<1>3. CASE \/ PeerRings(from, sid)
           \/ \E a \in JmiActions : WaitingCallerGone(from, a, sid) \/ PeerEndsByJmi(from, a, sid)
  BY <1>3 DEF PeerRings, WaitingCallerGone, PeerEndsByJmi, networkVars
<1>4. CASE PeerProceeds(from, sid) \/ LateProceed(from, sid)
  <2>1. sid \in OwnSids /\ openings' = openings \cup {<<sid, from, "proceed">>}
    BY <1>4 DEF PeerProceeds, LateProceed, ForActiveCall, MaySendJmi, Opens
  <2> QED BY <2>1 DEF Inward
<1>5. CASE JingleStep(from, sid)
  <2>1. \E a \in JingleActions : Claimed(from, a, sid)
    BY <1>5 DEF JingleStep, WaitingCallerInitiates, WaitingCallerTrickles,
       WaitingCallerTerminates, RejectExtraSession, SessionWaits, SessionAfterEnd,
       RingForSession, SessionInitiated, SessionAccepted, PeerTrickles, PeerTerminates,
       ForActiveSession, JingleActions
  <2>2. sid \in PeerSids /\ openings' = openings \cup {<<sid, from, "session-initiate">>}
    BY <2>1 DEF Claimed, MaySendJingle
  <2> QED BY <2>2 DEF Inward
<1> QED BY <1>1, <1>2, <1>3, <1>4, <1>5 DEF JmiStep

\* Openings are named as they are recorded.
LEMMA NamesPreserved ==
    ASSUME ClientInvariant, Next, CallInvariant'
    PROVE  OpeningsAreNamed'
<1>1. SUFFICES ASSUME NEW o \in openings', o \notin openings
      PROVE  /\ o[3] # "propose" => o[2] \in Devices
             /\ o[3] = "propose" /\ o[1] \in OwnSids => o[2] = NoJid
  BY DEF OpeningsAreNamed, ClientInvariant, RoleInvariant
<1>2. PICK s, d, a : o = <<s, d, a>> /\ o[1] = s /\ o[2] = d /\ o[3] = a
  <2>1. o \in Openings
    BY <1>1 DEF CallInvariant, TypeOK, NetworkTyped
  <2>2. o = <<o[1], o[2], o[3]>>
    BY <2>1 DEF Openings
  <2> QED BY <2>2
<1>3. <<s, d, a>> \in openings' \ openings
  BY <1>1, <1>2
<1>4. CASE UserStep \/ IdleStep \/ TimerStep \/ MediaStep
  BY <1>2, <1>3, <1>4, ActOpens
<1>5. ASSUME NEW from \in Devices, NEW sid \in Sids, JmiStep(from, sid) \/ JingleStep(from, sid)
      PROVE  d \in Devices /\ (a = "propose" => s \notin OwnSids)
  <2>1. /\ s = sid /\ d = from
        /\ \/ Inward(sid, a)
           \/ MigrateCall(from, sid) /\ a = "proceed" /\ sid \in PeerSids
    BY <1>3, <1>5, ReceiptOpens
  <2> QED BY <2>1, SidAssumption DEF Inward
<1> QED BY <1>2, <1>4, <1>5 DEF Next, NetworkStep

\* What a step does to the descriptions in the queue: one is added that was not reported
\* before, or the first one is taken.
LEMMA DescriptionsGo ==
    ASSUME CallInvariant, DescriptionsAreReported, QueueGoes
    PROVE  /\ DescriptionsAreReported'
           /\ reports \subseteq reports'
           /\ \A e : (\E i \in DOMAIN idle' : Describes(i, e)') =>
                 \/ \E i \in DOMAIN idle : Describes(i, e)
                 \/ <<e, "description">> \notin reports
<1>0. idle \in Seq(Callbacks)
  BY DEF CallInvariant, TypeOK, QueueTyped
<1>1. CASE UNCHANGED <<idle, reports>>
  BY <1>1 DEF DescriptionsAreReported, Describes
<1>2. ASSUME NEW what \in Clicks, NEW source, Queue(what, source), reports' = reports
      PROVE  /\ DescriptionsAreReported'
             /\ \A e : (\E i \in DOMAIN idle' : Describes(i, e)') =>
                          \E i \in DOMAIN idle : Describes(i, e)
  <2> DEFINE callback == [what |-> what, source |-> source]
  <2>1. idle' = Append(idle, callback) /\ callback.what # "description"
    BY <1>2 DEF Queue, Clicks, ButtonClicks
  <2> HIDE DEF callback
  <2>2. \A i \in DOMAIN idle' : \/ i \in DOMAIN idle /\ idle'[i] = idle[i]
                                \/ idle'[i].what # "description"
    BY <1>0, <2>1
  <2> QED BY <1>2, <2>2 DEF DescriptionsAreReported, Describes
<1>3. ASSUME NEW what, Pop(what)
      PROVE  /\ DescriptionsAreReported' /\ reports' = reports
             /\ \A e : (\E i \in DOMAIN idle' : Describes(i, e)') =>
                          \E i \in DOMAIN idle : Describes(i, e)
  <2>1. idle # <<>> /\ idle' = Tail(idle) /\ reports' = reports
    BY <1>3 DEF Pop
  <2>2. \A i \in DOMAIN idle' : i \in Int /\ i + 1 \in DOMAIN idle /\ idle'[i] = idle[i + 1]
    BY <1>0, <2>1
  <2>3. \A i, j \in DOMAIN idle' : i + 1 = j + 1 => i = j
    BY <2>2
  <2> QED BY <2>1, <2>2, <2>3 DEF DescriptionsAreReported, Describes
<1>4. ASSUME NEW e \in Engines, NEW what \in Reports, EngineReports(e, what)
      PROVE  /\ DescriptionsAreReported' /\ reports \subseteq reports'
             /\ \A f : (\E i \in DOMAIN idle' : Describes(i, f)') =>
                          \/ \E i \in DOMAIN idle : Describes(i, f)
                          \/ <<f, "description">> \notin reports
  <2> DEFINE callback == [what |-> what, source |-> e]
  <2>1. /\ idle' = Append(idle, callback) /\ reports' = reports \cup {<<e, what>>}
        /\ callback.what = what /\ callback.source = e /\ <<e, what>> \notin reports
    BY <1>4 DEF EngineReports, Queue
  <2> HIDE DEF callback
  <2>2. \A i \in DOMAIN idle' : \/ /\ i \in DOMAIN idle
                                   /\ idle'[i] = idle[i]
                                \/ i = Len(idle) + 1 /\ idle'[i] = callback
    BY <1>0, <2>1
  <2>3. \A i \in DOMAIN idle : i # Len(idle) + 1
    BY <1>0
  <2>4. DescriptionsAreReported'
    <3> SUFFICES ASSUME NEW i \in DOMAIN idle', idle'[i].what = "description"
                 PROVE  /\ <<idle'[i].source, "description">> \in reports'
                        /\ \A j \in DOMAIN idle' : Describes(j, idle[i].source)' => j = i
      BY DEF DescriptionsAreReported
    <3>1. CASE i \in DOMAIN idle /\ idle'[i] = idle[i]
      <4>1. <<idle[i].source, "description">> \in reports
        BY <3>1 DEF DescriptionsAreReported
      <4>2. ASSUME NEW j \in DOMAIN idle', Describes(j, idle[i].source)' PROVE j = i
        <5>1. CASE j \in DOMAIN idle /\ idle'[j] = idle[j]
          BY <3>1, <4>2, <5>1 DEF DescriptionsAreReported, Describes
        <5>2. CASE idle'[j] = callback
          BY <2>1, <3>1, <4>1, <4>2, <5>2 DEF Describes
        <5> QED BY <2>2, <5>1, <5>2
      <4> QED BY <2>1, <3>1, <4>1, <4>2
    <3>2. CASE i = Len(idle) + 1 /\ idle'[i] = callback
      <4>1. what = "description" /\ <<idle'[i].source, "description">> \in reports'
        BY <2>1, <3>2
      <4>2. ASSUME NEW j \in DOMAIN idle', Describes(j, idle[i].source)', j # i PROVE FALSE
        <5>1. j \in DOMAIN idle /\ idle'[j] = idle[j]
          BY <2>2, <3>2, <4>2
        <5>2. <<idle[j].source, "description">> \in reports /\ idle[j].source = e
          BY <2>1, <3>2, <4>2, <5>1 DEF DescriptionsAreReported, Describes
        <5> QED BY <2>1, <4>1, <5>2
      <4> QED BY <4>1, <4>2
    <3> QED BY <2>2, <3>1, <3>2
  <2>5. ASSUME NEW f, NEW i \in DOMAIN idle', Describes(i, f)'
        PROVE  \/ \E j \in DOMAIN idle : Describes(j, f)
               \/ <<f, "description">> \notin reports
    BY <2>1, <2>2, <2>5 DEF Describes
  <2> QED BY <2>1, <2>4, <2>5
<1>5. LocalDescriptionReady => Pop("description")
  BY DEF LocalDescriptionReady
<1> QED BY <1>1, <1>2, <1>3, <1>4, <1>5 DEF QueueGoes

\* A session of this side's is begun with the one description of its engine.
LEMMA OfferPreserved ==
    ASSUME OneDevicePerContact, ClientInvariant, Next, CallInvariant'
    PROVE  OfferedOnce'
<1>0. /\ CallInvariant /\ SidesAreKnown /\ EngineInvariant /\ DescriptionsAreReported
      /\ OfferedOnce /\ openings \in SUBSET Openings /\ openings' \in SUBSET Openings
      /\ idle \in Seq(Callbacks)
  BY DEF ClientInvariant, EngineInvariant, RoleInvariant, CallInvariant, TypeOK,
     NetworkTyped, QueueTyped
<1>1. QueueGoes
  BY NextQueue
<1>2. SUFFICES ASSUME NEW sid \in OwnSids, NEW d \in Devices, Bare[d] = Party[sid],
                      <<sid, "session-initiate">> \in Begun(openings')
               PROVE  /\ <<<<sid, d>>, "description">> \in reports'
                      /\ \A i \in DOMAIN idle' : ~Describes(i, <<sid, d>>)'
  BY DEF OfferedOnce
<1>3. CASE <<sid, "session-initiate">> \in Begun(openings)
  <2>1. /\ <<<<sid, d>>, "description">> \in reports
        /\ ~\E i \in DOMAIN idle : Describes(i, <<sid, d>>)
    BY <1>0, <1>2, <1>3 DEF OfferedOnce
  <2> QED BY <1>0, <1>1, <2>1, DescriptionsGo
<1>4. CASE <<sid, "session-initiate">> \notin Begun(openings)
  <2>1. PICK f : <<sid, f, "session-initiate">> \in openings' \ openings
    BY <1>0, <1>2, <1>4, BegunIs
  <2>2. UserStep \/ IdleStep \/ TimerStep \/ MediaStep
    <3>1. ASSUME NEW from \in Devices, NEW s \in Sids, JmiStep(from, s) \/ JingleStep(from, s)
          PROVE  FALSE
      <4>1. /\ sid = s
            /\ Inward(s, "session-initiate")
        BY <2>1, <3>1, ReceiptOpens
      <4> QED BY <4>1, SidAssumption DEF Inward
    <3> QED BY <3>1 DEF Next, NetworkStep
  <2>3. /\ LocalDescriptionReady /\ engines[Source] # "closed" /\ Live(context)
        /\ sid = context.sid
    BY <2>1, <2>2, ActOpens
  <2>4. Pop("description")
    BY <2>3 DEF LocalDescriptionReady
  <2>5. Source = media /\ media \in Engines
    BY <1>0, <2>3, <2>4, ReadyIsCurrent
  <2>6. media # NoEngine /\ media = <<context.sid, context.full>> /\ context.full \in Devices
    BY <1>0, <2>5, Constants DEF Engines, CallInvariant, MediaBelongsToCall, EngineInvariant,
       EnginesAreCurrent
  <2>7. context # NoCall
    BY <2>3 DEF Live, LiveStates, NoCall
  <2>8. Bare[context.full] = Party[sid]
    BY <1>0, <2>3, <2>6, <2>7, Constants DEF SidesAreKnown, OfItsSide
  <2>9. d = context.full
    BY <1>2, <2>6, <2>8 DEF OneDevicePerContact
  <2>10. /\ idle # <<>> /\ idle' = Tail(idle) /\ reports' = reports
         /\ 1 \in DOMAIN idle /\ Describes(1, <<sid, d>>)
    BY <1>0, <2>3, <2>4, <2>5, <2>6, <2>9 DEF Pop, Source, Describes
  <2>11. \A i \in DOMAIN idle' : /\ i + 1 \in DOMAIN idle /\ idle'[i] = idle[i + 1]
                                /\ i + 1 # 1
    BY <1>0, <2>10
  <2>12. \A i \in DOMAIN idle : Describes(i, <<sid, d>>) => i = 1
    BY <1>0, <2>10 DEF DescriptionsAreReported, Describes
  <2>13. <<<<sid, d>>, "description">> \in reports
    BY <1>0, <2>10 DEF DescriptionsAreReported, Describes
  <2> QED BY <2>10, <2>11, <2>12, <2>13 DEF Describes
<1> QED BY <1>3, <1>4

-----------------------------------------------------------------------------
(* Calls that ring, and the invariant.                                     *)

\* A call that rings without an offer rang so before, or was just proposed; an own proposal
\* is not an incoming call.
RingsAsBefore ==
    /\ context'.state = "ringing" /\ ~pendingOffer' =>
          <<context'.sid, "proceed">> \notin Begun(openings)
    /\ waiting' # NoCall /\ ~waitingOffer' => <<waiting'.sid, "proceed">> \notin Begun(openings)
    /\ context'.state = "proposing" => ~context'.incoming

\* That follows if each call is a new one, or one of the two before with its offer.
LEMMA RingsAs ==
    ASSUME CallInvariant, RoleInvariant,
           \/ context'.state \notin {"ringing", "proposing"}
           \/ /\ context'.state = context.state /\ context'.sid = context.sid
              /\ context'.incoming = context.incoming /\ (pendingOffer => pendingOffer')
           \/ waiting # NoCall /\ context' = waiting /\ pendingOffer' = waitingOffer
           \/ /\ context'.state = "proposing" => ~context'.incoming
              /\ pendingOffer' \/ <<context'.sid, "proceed">> \notin Begun(openings),
           \/ waiting' = NoCall
           \/ waiting # NoCall /\ waiting'.sid = waiting.sid /\ (waitingOffer => waitingOffer')
           \/ waitingOffer' \/ <<waiting'.sid, "proceed">> \notin Begun(openings)
    PROVE  RingsAsBefore
BY DEF RoleInvariant, RingingIsNotAccepted, RingsAsBefore, CallInvariant, WaitingBehindActive

\* _finish_local ends the active call, or the waiting one takes its place.
LEMMA FinishLocalRings ==
    ASSUME CallInvariant, RoleInvariant, NEW state \in Terminal, NEW win, NEW bar,
           FinishLocal(state, win, bar)
    PROVE  RingsAsBefore
<1>1. waiting' = NoCall
  BY DEF FinishLocal, NoWaiting
<1>2. CASE waiting # NoCall
  BY <1>1, <1>2, RingsAs DEF FinishLocal
<1>3. CASE waiting = NoCall /\ Live(context)
  <2>1. context \in CallRecord /\ context' = [context EXCEPT !.state = state]
    BY <1>3 DEF FinishLocal, CallInvariant, TypeOK, CallsTyped
  <2>2. context'.state = state
    BY <2>1, Written
  <2> QED BY <1>1, <2>2, RingsAs DEF Terminal
<1>4. CASE waiting = NoCall /\ ~Live(context)
  <2>1. context' = context
    BY <1>4 DEF FinishLocal
  <2>2. context'.state \notin {"ringing", "proposing"}
    BY <1>4, <2>1 DEF Live, LiveStates
  <2> QED BY <1>1, <2>2, RingsAs
<1> QED BY <1>2, <1>3, <1>4

\* Nothing changes for calls that stay.
LEMMA SameRings ==
    ASSUME CallInvariant, RoleInvariant, UNCHANGED callVars
    PROVE  RingsAsBefore
<1>1. UNCHANGED <<context, waiting, pendingOffer, waitingOffer>>
  BY DEF callVars
<1> QED BY <1>1, RingsAs

\* Nor when the waiting caller goes.
LEMMA ClearWaitingRings ==
    ASSUME CallInvariant, RoleInvariant, ClearWaiting
    PROVE  RingsAsBefore
BY RingsAs DEF ClearWaiting, NoWaiting

\* hangup.
LEMMA HangupRings ==
    ASSUME CallInvariant, RoleInvariant, Hangup
    PROVE  RingsAsBefore
<1>1. CASE Live(context)
  BY <1>1, FinishLocalRings DEF Hangup, Terminal
<1>2. CASE ~Live(context)
  BY <1>2, SameRings DEF Hangup
<1> QED BY <1>1, <1>2

\* What the user does.
LEMMA UserRings ==
    ASSUME CallInvariant, RoleInvariant, UserStep
    PROVE  RingsAsBefore
<1>1. ASSUME NEW sid \in OwnSids, StartOutgoing(sid) PROVE RingsAsBefore
  <2>1. context' = context \/ context' = OutgoingCall(sid)
    BY <1>1 DEF StartOutgoing
  <2>2. UNCHANGED <<waiting, waitingOffer, pendingOffer>>
    BY <1>1 DEF StartOutgoing
  <2>3. CASE context' = context
    BY <2>2, <2>3, RingsAs
  <2>4. CASE context' = OutgoingCall(sid)
    <3>1. context'.state = "proposing" /\ ~context'.incoming
      BY <2>4 DEF OutgoingCall
    <3> QED BY <2>2, <3>1 DEF RingsAsBefore, RoleInvariant, RingingIsNotAccepted
  <2> QED BY <2>1, <2>3, <2>4
<1>2. CASE ToolbarHangup
  BY <1>2, HangupRings DEF ToolbarHangup
<1>3. CASE ClickAccept \/ ClickDecline \/ ClickHangup \/ CloseWindow
  BY <1>3, SameRings DEF ClickAccept, ClickDecline, ClickHangup, CloseWindow, Click
<1>4. CASE Deactivate
  BY <1>4, RingsAs DEF Deactivate, NoWaiting, NoCall
<1> QED BY <1>1, <1>2, <1>3, <1>4 DEF UserStep

\* Callbacks, timeouts and reports.
LEMMA IdleRings ==
    ASSUME CallInvariant, RoleInvariant, IdleStep \/ TimerStep \/ MediaStep
    PROVE  RingsAsBefore
<1>0. context \in CallRecord /\ waiting \in CallRecord
  BY DEF CallInvariant, TypeOK, CallsTyped
<1>1. CASE AcceptWaiting
  <2>1. context' = [waiting EXCEPT !.state = "negotiating"] /\ waiting' = NoCall
    BY <1>1 DEF AcceptWaiting, NoWaiting
  <2>2. context'.state = "negotiating"
    BY <1>0, <2>1, Written
  <2> QED BY <2>1, <2>2, RingsAs
<1>2. CASE AcceptRinging
  <2>1. context' = [context EXCEPT !.state = "negotiating"] /\ waiting' = NoCall
    BY <1>2 DEF AcceptRinging
  <2>2. context'.state = "negotiating"
    BY <1>0, <2>1, Written
  <2> QED BY <2>1, <2>2, RingsAs
<1>3. CASE AcceptNothing \/ LocalDescriptionReady \/ LocalCandidateReady \/ MediaStep
  BY <1>3, SameRings DEF AcceptNothing, LocalDescriptionReady, LocalCandidateReady,
     MediaStep, EngineReports
<1>4. CASE Decline
  BY <1>4, SameRings, FinishLocalRings, ClearWaitingRings DEF Decline, DeclineWaiting, Terminal
<1>5. CASE HangupClicked \/ WindowClosed
  BY <1>5, HangupRings, ClearWaitingRings DEF HangupClicked, WindowClosed, DeclineWaiting
<1>6. CASE MediaConnected
  <2>1. UNCHANGED <<waiting, pendingOffer, waitingOffer>>
    BY <1>6 DEF MediaConnected
  <2>2. CASE context' = context
    BY <2>1, <2>2, RingsAs
  <2>3. CASE context' # context
    <3>1. context' = [context EXCEPT !.state = "connected"]
      BY <1>6, <2>3 DEF MediaConnected
    <3>2. context'.state = "connected"
      BY <1>0, <3>1, Written
    <3> QED BY <2>1, <3>2, RingsAs
  <2> QED BY <2>2, <2>3
<1>7. CASE MediaFailed
  BY <1>7, SameRings, FinishLocalRings DEF MediaFailed, Terminal
<1>8. CASE TimerStep
  BY <1>8, SameRings, FinishLocalRings, ClearWaitingRings
     DEF TimerStep, PhaseTimeout, WaitingTimeout, DeclineWaiting, Terminal
<1> QED BY <1>1, <1>2, <1>3, <1>4, <1>5, <1>6, <1>7, <1>8 DEF IdleStep

\* JMI messages.
LEMMA JmiRings ==
    ASSUME CallInvariant, RoleInvariant,
           NEW from \in Devices, NEW sid \in Sids, JmiStep(from, sid)
    PROVE  RingsAsBefore
<1>0. context \in CallRecord /\ waiting \in CallRecord
  BY DEF CallInvariant, TypeOK, CallsTyped
<1>1. CASE RejectExtraProposal(from, sid) \/ WinTieBreak(from, sid) \/ PeerRings(from, sid)
  BY <1>1, SameRings DEF RejectExtraProposal, WinTieBreak, PeerRings
<1>2. CASE MigrateCall(from, sid)
  <2>1. context'.state = "negotiating" /\ UNCHANGED <<waiting, waitingOffer>>
    BY <1>2 DEF MigrateCall, IncomingCall
  <2> QED BY <2>1, RingsAs
<1>3. CASE ProposalWaits(from, sid) \/ LoseTieBreak(from, sid) \/ RingForProposal(from, sid)
  <2>1. <<sid, "proceed">> \notin Begun(openings)
    BY <1>3, ProposalBegins DEF ProposalWaits, LoseTieBreak, RingForProposal
  <2>2. CASE ProposalWaits(from, sid)
    <3>1. UNCHANGED <<context, pendingOffer>> /\ waiting'.sid = sid
      BY <2>2 DEF ProposalWaits, ShowWaiting, IncomingCall
    <3> QED BY <2>1, <3>1, RingsAs
  <2>3. CASE LoseTieBreak(from, sid)
    <3>1. context'.sid = sid /\ context'.state = "ringing" /\ waiting' = NoCall
      BY <2>3 DEF LoseTieBreak, Ring, IncomingCall, NoWaiting
    <3> QED BY <2>1, <3>1, RingsAs
  <2>4. CASE RingForProposal(from, sid)
    <3>1. /\ context'.sid = sid /\ context'.state = "ringing"
          /\ UNCHANGED <<waiting, waitingOffer>>
      BY <2>4 DEF RingForProposal, Ring, IncomingCall
    <3> QED BY <2>1, <3>1, RingsAs
  <2> QED BY <1>3, <2>2, <2>3, <2>4
<1>4. CASE PeerProceeds(from, sid)
  <2>1. /\ context' = [context EXCEPT !.full = from, !.state = "negotiating"]
        /\ UNCHANGED <<waiting, waitingOffer>>
    BY <1>4 DEF PeerProceeds
  <2>2. context'.state = "negotiating"
    BY <1>0, <2>1 DEF CallRecord
  <2> QED BY <2>1, <2>2, RingsAs
<1>5. CASE LateProceed(from, sid)
  <2>1. /\ context' = [context EXCEPT !.full = from]
        /\ UNCHANGED <<waiting, waitingOffer, pendingOffer>>
    BY <1>5 DEF LateProceed
  <2>2. /\ context'.state = context.state /\ context'.sid = context.sid
        /\ context'.incoming = context.incoming
    BY <1>0, <2>1, Written
  <2> QED BY <2>1, <2>2, RingsAs
<1>6. CASE \E action \in JmiActions : \/ WaitingCallerGone(from, action, sid)
                                     \/ PeerEndsByJmi(from, action, sid)
  BY <1>6, FinishLocalRings, ClearWaitingRings DEF WaitingCallerGone, PeerEndsByJmi, Terminal
<1> QED BY <1>1, <1>2, <1>3, <1>4, <1>5, <1>6 DEF JmiStep

\* Jingle IQs.
LEMMA JingleRings ==
    ASSUME CallInvariant, RoleInvariant,
           NEW from \in Devices, NEW sid \in Sids, JingleStep(from, sid)
    PROVE  RingsAsBefore
<1>0. context \in CallRecord /\ waiting \in CallRecord
  BY DEF CallInvariant, TypeOK, CallsTyped
<1>1. CASE \/ WaitingCallerTrickles(from, sid) \/ RejectExtraSession(from, sid)
           \/ SessionAfterEnd(from, sid) \/ SessionAccepted(from, sid) \/ PeerTrickles(from, sid)
  BY <1>1, SameRings DEF WaitingCallerTrickles, RejectExtraSession, SessionAfterEnd,
     SessionAccepted, PeerTrickles
<1>2. CASE WaitingCallerInitiates(from, sid)
  <2>1. UNCHANGED <<context, pendingOffer>> /\ waitingOffer'
    BY <1>2 DEF WaitingCallerInitiates
  <2> QED BY <2>1, RingsAs
<1>3. CASE SessionWaits(from, sid)
  <2>1. UNCHANGED <<context, pendingOffer>> /\ waitingOffer'
    BY <1>3 DEF SessionWaits, ShowWaiting
  <2> QED BY <2>1, RingsAs
<1>4. CASE RingForSession(from, sid)
  <2>1. context'.state = "ringing" /\ pendingOffer' /\ UNCHANGED <<waiting, waitingOffer>>
    BY <1>4 DEF RingForSession, Ring, IncomingCall
  <2> QED BY <2>1, RingsAs
<1>5. CASE SessionInitiated(from, sid)
  <2>1. /\ context' = [context EXCEPT !.full = from] /\ pendingOffer'
        /\ UNCHANGED <<waiting, waitingOffer>>
    BY <1>5 DEF SessionInitiated
  <2>2. /\ context'.state = context.state /\ context'.sid = context.sid
        /\ context'.incoming = context.incoming
    BY <1>0, <2>1, Written
  <2> QED BY <2>1, <2>2, RingsAs
<1>6. CASE WaitingCallerTerminates(from, sid) \/ PeerTerminates(from, sid)
  BY <1>6, FinishLocalRings, ClearWaitingRings
     DEF WaitingCallerTerminates, PeerTerminates, Terminal
<1> QED BY <1>1, <1>2, <1>3, <1>4, <1>5, <1>6 DEF JingleStep

\* No step leaves a call ringing that was accepted.
LEMMA NextRings ==
    ASSUME CallInvariant, RoleInvariant, Next
    PROVE  RingsAsBefore
BY UserRings, IdleRings, JmiRings, JingleRings DEF Next, NetworkStep

\* No call that rings without an offer is accepted.
LEMMA AcceptedPreserved ==
    ASSUME ClientInvariant, Next, CallInvariant', SidesAreKnown'
    PROVE  RingingIsNotAccepted'
<1>0. /\ CallInvariant /\ SidesAreKnown /\ RoleInvariant
      /\ openings \in SUBSET Openings /\ openings' \in SUBSET Openings
      /\ Begun(openings) \subseteq Begun(openings')
  BY OpeningsGrow, BegunGrows DEF ClientInvariant, EngineInvariant, CallInvariant, TypeOK,
     NetworkTyped
<1>1. RingsAsBefore
  BY <1>0, NextRings
<1>2. ASSUME NEW s \in PeerSids, <<s, "proceed">> \in Begun(openings'),
             <<s, "proceed">> \notin Begun(openings)
      PROVE  /\ Sayable(s, Begun(openings'))
             /\ context'.state # "ringing"
             /\ waiting' # NoCall => waiting'.sid # s
  <2>1. PICK d : <<s, d, "proceed">> \in openings' \ openings
    BY <1>0, <1>2, BegunIs
  <2>2. CASE UserStep \/ IdleStep \/ TimerStep \/ MediaStep
    <3>1. /\ Sayable(s, Begun(openings))
          /\ context'.state # "ringing" /\ waiting' = NoCall
      BY <2>1, <2>2, ActOpens
    <3> QED BY <1>0, <3>1 DEF Sayable
  <2>3. ASSUME NEW from \in Devices, NEW sid \in Sids, JmiStep(from, sid) \/ JingleStep(from, sid)
        PROVE  /\ Sayable(s, Begun(openings'))
               /\ context'.state # "ringing"
               /\ waiting' # NoCall => waiting'.sid # s
    <3>1. /\ s = sid
          /\ \/ Inward(sid, "proceed")
             \/ MigrateCall(from, sid)
      BY <2>1, <2>3, ReceiptOpens
    <3>2. MigrateCall(from, s)
      BY <3>1, SidAssumption DEF Inward
    <3>3. /\ Proposal(from, s) /\ context'.state = "negotiating" /\ waiting' = waiting
          /\ <<s, from, "propose">> \in openings'
      BY <3>2 DEF MigrateCall, IncomingCall
    <3>4. <<s, "propose">> \in Begun(openings')
      BY <1>0, <3>3, BegunIs
    <3>5. waiting # NoCall => waiting.sid # s
      BY <1>0, <2>3, <3>1, <3>3, ProposalIsNew DEF CallInvariant
    <3> QED BY <3>3, <3>4, <3>5 DEF Sayable, Sids
  <2> QED BY <2>2, <2>3 DEF Next, NetworkStep
<1>3. context'.state = "ringing" => context'.sid \in PeerSids
  BY DEF CallInvariant, CallsWellFormed, SidesAreKnown, OfItsSide, NoCall
<1>4. waiting' # NoCall => waiting'.sid \in PeerSids
  BY DEF CallInvariant, WaitingBehindActive, SidesAreKnown, OfItsSide
<1>5. context'.state = "ringing" /\ ~pendingOffer' =>
        <<context'.sid, "proceed">> \notin Begun(openings')
  BY <1>1, <1>2, <1>3 DEF RingsAsBefore
<1>6. waiting' # NoCall /\ ~waitingOffer' => <<waiting'.sid, "proceed">> \notin Begun(openings')
  BY <1>1, <1>2, <1>4 DEF RingsAsBefore
<1>7. ASSUME NEW s \in PeerSids, <<s, "proceed">> \in Begun(openings')
      PROVE  s \in Direct \/ <<s, "propose">> \in Begun(openings')
  BY <1>0, <1>2, <1>7 DEF RoleInvariant, RingingIsNotAccepted, Sayable
<1> QED BY <1>5, <1>6, <1>7 DEF RingingIsNotAccepted

\* What a client's role rests on holds at first.
LEMMA InitRole == Init => RoleInvariant
BY DEF Init, RoleInvariant, NoCall, OpeningsAreNamed, RingingIsNotAccepted, Begun,
   DescriptionsAreReported, OfferedOnce

\* And every step keeps it.
LEMMA NextRole ==
    ASSUME OneDevicePerContact, ClientInvariant, Next
    PROVE  RoleInvariant' /\ EngineInvariant'
<1>1. EngineInvariant'
  BY NextEngines DEF ClientInvariant
<1>2. CallInvariant' /\ SidesAreKnown'
  BY <1>1 DEF EngineInvariant
<1>3. RingsAsBefore
  BY NextRings DEF ClientInvariant, EngineInvariant
<1>4. OpeningsAreNamed' /\ RingingIsNotAccepted' /\ OfferedOnce'
  BY <1>2, NamesPreserved, AcceptedPreserved, OfferPreserved
<1>5. DescriptionsAreReported'
  BY NextQueue, DescriptionsGo DEF ClientInvariant, EngineInvariant, RoleInvariant
<1> QED BY <1>1, <1>3, <1>4, <1>5 DEF RoleInvariant, RingsAsBefore

-----------------------------------------------------------------------------
(* What a network of clients can rely on.                                  *)

\* What a step opened that was not open.
NewlyBegun == Begun(openings') \ Begun(openings)

\* What this side proposes is the first thing it says then.
ProposalsAreSaid ==
    \A sid \in OwnSids : <<sid, "propose">> \in NewlyBegun =>
        1 \in DOMAIN sent' /\ sent'[1].action = "propose" /\ sent'[1].sid = sid

\* What a step of one client keeps for the other: all stanzas are in role, nothing that
\* was opened is forgotten.
StepInRole ==
    /\ ClientInvariant' /\ SpeaksInRole /\ ProposalsAreSaid
    /\ sent' \in Seq(Stanzas)
    /\ Begun(openings) \subseteq Begun(openings')

\* At first nothing has begun.
LEMMA ClientInit == EndpointInit => ClientInvariant /\ Begun(openings) = {} /\ inbox = <<>>
<1> SUFFICES ASSUME EndpointInit PROVE ClientInvariant /\ Begun(openings) = {} /\ inbox = <<>>
  OBVIOUS
<1>1. Init /\ inbox = <<>>
  BY DEF EndpointInit
<1>2. attached /\ openings = {}
  BY <1>1 DEF Init
<1> QED BY <1>1, <1>2, InitEngines, InitRole DEF ClientInvariant, Begun

\* A step that does not deactivate the plugin keeps to the role.
LEMMA ClientSteps ==
    ASSUME OneDevicePerContact, ClientInvariant, Next, attached', ProposalsAreSaid
    PROVE  StepInRole
<1>1. RoleInvariant' /\ EngineInvariant'
  BY NextRole
<1>2. sent' \in Seq(Stanzas)
  BY <1>1 DEF EngineInvariant, CallInvariant, TypeOK, NetworkTyped
<1> QED BY <1>1, <1>2, NextSpeaks, OpeningsGrow, BegunGrows DEF StepInRole, ClientInvariant

\* Of its own accord a client opens what is its to open.
LEMMA ClientActs ==
    ASSUME OneDevicePerContact, ClientInvariant, NEW reportable \in SUBSET (Engines \X Reports),
           Act(reportable)
    PROVE  /\ StepInRole /\ inbox' = inbox
           /\ \A o \in NewlyBegun : Outward(o[1], o[2])
<1>0. /\ openings \in SUBSET Openings /\ openings' \in SUBSET Openings /\ attached
      /\ CallInvariant
  <2>1. CallInvariant /\ attached
    BY DEF ClientInvariant, EngineInvariant
  <2>2. MediaStep \/ UserStep \/ IdleStep \/ TimerStep
    BY DEF Act, MediaStep
  <2>3. CallInvariant'
    BY <2>1, <2>2, NextInvariant DEF Next
  <2> QED BY <2>1, <2>3 DEF CallInvariant, TypeOK, NetworkTyped
<1>1. /\ UserStep \/ IdleStep \/ TimerStep \/ MediaStep
      /\ attached' /\ inbox' = inbox
  <2>1. CASE UserStep /\ NoClickQueued /\ attached'
    BY <2>1 DEF Act
  <2>2. CASE IdleStep
    BY <1>0, <2>2 DEF Act, IdleStep, AcceptWaiting, AcceptRinging, AcceptNothing, Decline,
       HangupClicked, WindowClosed, LocalDescriptionReady, LocalCandidateReady,
       MediaConnected, MediaFailed, Pop
  <2>3. CASE TimerStep
    BY <1>0, <2>3 DEF Act, TimerStep, PhaseTimeout, WaitingTimeout, networkVars
  <2>4. CASE \E report \in reportable : EngineReports(report[1], report[2])
    BY <1>0, <2>4 DEF Act, MediaStep, EngineReports, networkVars
  <2> QED BY <2>1, <2>2, <2>3, <2>4 DEF Act
<1>2. ASSUME NEW o \in NewlyBegun
      PROVE  \E d : <<o[1], d, o[2]>> \in openings' \ openings
  <2>1. PICK p \in openings' : o = <<p[1], p[3]>>
    BY DEF NewlyBegun, Begun
  <2>2. o[1] = p[1] /\ o[2] = p[3] /\ p = <<p[1], p[2], p[3]>>
    BY <1>0, <2>1 DEF Openings
  <2>3. p \notin openings
    BY <2>1 DEF NewlyBegun, Begun
  <2> QED BY <2>2, <2>3
<1>3. \A o \in NewlyBegun : Outward(o[1], o[2])
  BY <1>1, <1>2, ActOpens
<1>4. ProposalsAreSaid
  <2> SUFFICES ASSUME NEW sid \in OwnSids, <<sid, "propose">> \in NewlyBegun
               PROVE  1 \in DOMAIN sent' /\ sent'[1].action = "propose" /\ sent'[1].sid = sid
    BY DEF ProposalsAreSaid
  <2>1. PICK d : <<sid, d, "propose">> \in openings' \ openings
    BY <1>0 , BegunIs DEF NewlyBegun
  <2>2. \E own \in OwnSids : StartOutgoing(own)
    <3> SUFFICES ASSUME ~\E own \in OwnSids : StartOutgoing(own) PROVE FALSE
      OBVIOUS
    <3>1. \/ openings' = openings
          \/ openings' = openings \cup {<<waiting.sid, waiting.full, "proceed">>}
          \/ openings' = openings \cup {<<context.sid, context.full, "proceed">>}
          \/ openings' = openings \cup {<<context.sid, context.full, "session-initiate">>}
      BY <1>1 DEF UserStep, ToolbarHangup, ClickAccept, ClickDecline, ClickHangup, CloseWindow,
         Click, Deactivate, networkVars, IdleStep, AcceptNothing, Decline, HangupClicked,
         WindowClosed, LocalCandidateReady, MediaConnected, MediaFailed, TimerStep,
         PhaseTimeout, WaitingTimeout, MediaStep, EngineReports, AcceptWaiting, AcceptRinging,
         LocalDescriptionReady
    <3> QED BY <2>1, <3>1
  <2>3. PICK own \in OwnSids : StartOutgoing(own)
    BY <2>2
  <2>4. /\ sent' = <<Say(Party[own], "propose", own)>>
        /\ openings' = openings \cup {<<own, NoJid, "propose">>}
    BY <2>1, <2>3 DEF StartOutgoing
  <2>5. sid = own
    BY <2>1, <2>4
  <2> QED BY <2>4, <2>5 DEF Say
<1>5. Next
  BY <1>1 DEF Next
<1> QED BY <1>1, <1>3, <1>4, <1>5, ClientSteps

\* What a client rests on is not what it sent last.
LEMMA ClientKeeps ==
    ASSUME ClientInvariant, sent' \in Seq(Stanzas),
           UNCHANGED <<callVars, mediaVars, timerVars, uiVars, networkVars, idle, reports>>
    PROVE  ClientInvariant'
<1>1. CallInvariant'
  <2>1. CallsTyped' /\ MediaTyped' /\ TimersTyped' /\ UiTyped'
    BY OnlySentTypes DEF ClientInvariant, EngineInvariant, CallInvariant
  <2>2. NetworkTyped' /\ QueueTyped' /\ ReportsNameEngines'
    BY DEF networkVars, ClientInvariant, EngineInvariant, CallInvariant, TypeOK, NetworkTyped,
       QueueTyped, ReportsNameEngines
  <2>3. Consistent'
    BY UnchangedConsistent DEF ClientInvariant, EngineInvariant, CallInvariant, Consistent,
       uiVars, mediaVars
  <2>4. CallsWereOpened'
    BY DEF callVars, networkVars, ClientInvariant, EngineInvariant, CallInvariant,
       CallsWereOpened, Proposed
  <2> QED BY <2>1, <2>2, <2>3, <2>4 DEF CallInvariant, Consistent, TypeOK
<1>2. EngineInvariant'
  BY <1>1 DEF callVars, mediaVars, networkVars, ClientInvariant, EngineInvariant,
     SidesAreKnown, OfItsSide, OffersAreKept, Live, WasOpened, EnginesAreCurrent,
     NoEngineLeaks, EnginesStartOnce, Unstarted, Proposed, ReportsAreOfStarted
<1>3. RoleInvariant'
  BY DEF callVars, networkVars, ClientInvariant, RoleInvariant, OpeningsAreNamed,
     RingingIsNotAccepted, DescriptionsAreReported, Describes, OfferedOnce
<1> QED BY <1>2, <1>3 DEF ClientInvariant, networkVars

\* A handler is one of the steps of the network, and records what it was sent.
LEMMA HandlerSteps ==
    ASSUME NEW from, NEW stanza, Handler(from, stanza)
    PROVE  /\ JmiStep(from, stanza.sid) \/ JingleStep(from, stanza.sid)
           /\ attached'
           /\ \/ openings' = openings
              \/ openings' = openings \cup {<<stanza.sid, from, stanza.action>>}
              \/ /\ stanza.action = "propose" /\ stanza.sid \in PeerSids
                 /\ openings' = openings \cup {<<stanza.sid, from, "propose">>,
                                               <<stanza.sid, from, "proceed">>}
           /\ stanza.action = "propose" => <<stanza.sid, from, "propose">> \in openings'
<1> DEFINE sid == stanza.sid
           action == stanza.action
<1>1. CASE action \in JmiActions /\ JmiHandler(from, action, sid)
  <2> HIDE DEF sid, action
  <2>1. CASE action = "propose" /\ (\/ MigrateCall(from, sid) \/ RejectExtraProposal(from, sid)
                                    \/ ProposalWaits(from, sid) \/ WinTieBreak(from, sid)
                                    \/ LoseTieBreak(from, sid) \/ RingForProposal(from, sid))
    <3>1. Proposal(from, sid)
      BY <2>1 DEF MigrateCall, RejectExtraProposal, ProposalWaits, WinTieBreak, LoseTieBreak,
         RingForProposal
    <3>2. attached' /\ sid \in PeerSids
      BY <3>1 DEF Proposal, MaySendJmi
    <3>3. \/ openings' = openings \cup {<<sid, from, "propose">>}
          \/ openings' = openings \cup {<<sid, from, "propose">>, <<sid, from, "proceed">>}
      BY <2>1 DEF MigrateCall, RejectExtraProposal, ProposalWaits, WinTieBreak, LoseTieBreak,
         RingForProposal, Opens
    <3> QED BY <2>1, <3>2, <3>3 DEF JmiStep, sid, action
  <2>2. CASE action = "ringing" /\ PeerRings(from, sid)
    <3>1. openings' = openings /\ attached'
      BY <2>2 DEF PeerRings, ForActiveCall, MaySendJmi
    <3> QED BY <2>2, <3>1 DEF JmiStep, sid, action
  <2>3. CASE action = "proceed" /\ (PeerProceeds(from, sid) \/ LateProceed(from, sid))
    <3>1. openings' = openings \cup {<<sid, from, action>>} /\ attached'
      <4>1. ForActiveCall(from, "proceed", sid) /\ Opens(from, "proceed", sid)
        BY <2>3 DEF PeerProceeds, LateProceed
      <4> QED BY <2>3, <4>1 DEF ForActiveCall, MaySendJmi, Opens
    <3> QED BY <2>3, <3>1 DEF JmiStep, sid, action
  <2>4. CASE WaitingCallerGone(from, action, sid) \/ PeerEndsByJmi(from, action, sid)
    <3>1. openings' = openings /\ attached' /\ action # "propose"
      BY <2>4 DEF WaitingCallerGone, PeerEndsByJmi, ForActiveCall, MaySendJmi, networkVars,
         Ending
    <3> QED BY <1>1, <2>4, <3>1 DEF JmiStep, sid, action
  <2> QED BY <1>1, <2>1, <2>2, <2>3, <2>4 DEF JmiHandler
<1>2. CASE action \in JingleActions /\ JingleHandler(from, action, sid)
  <2> HIDE DEF sid, action
  <2>1. Claimed(from, action, sid) /\ JingleStep(from, sid)
    BY <1>2 DEF JingleHandler, JingleStep, WaitingCallerInitiates, WaitingCallerTrickles,
       WaitingCallerTerminates, RejectExtraSession, SessionWaits, SessionAfterEnd,
       RingForSession, SessionInitiated, SessionAccepted, PeerTrickles, PeerTerminates,
       ForActiveSession
  <2>2. /\ attached'
        /\ openings' = openings \/ openings' = openings \cup {<<sid, from, action>>}
    BY <2>1 DEF Claimed, MaySendJingle
  <2>3. action # "propose"
    BY <1>2 DEF JingleActions
  <2> QED BY <2>1, <2>2, <2>3 DEF sid, action
<1> QED BY <1>1, <1>2 DEF Handler

\* A client that takes a stanza keeps to its role too.  It opens what the stanza opens, and
\* no stanza but an acceptance of a contact's call.
LEMMA ClientReceives ==
    ASSUME OneDevicePerContact, ClientInvariant, NEW from \in Devices, Receive(from),
           Head(inbox).sid \in Sids
    PROVE  LET stanza == Head(inbox) IN
           /\ StepInRole /\ inbox # <<>> /\ inbox' = Tail(inbox)
           /\ \A o \in NewlyBegun : \/ o[1] \in PeerSids /\ o[2] = "proceed"
                                    \/ o = <<stanza.sid, stanza.action>>
           /\ stanza.action = "propose" => <<stanza.sid, "propose">> \in Begun(openings')
<1> DEFINE stanza == Head(inbox)
<1>0. inbox # <<>> /\ inbox' = Tail(inbox) /\ stanza.sid \in Sids
  BY DEF Receive, Arrives
<1> HIDE DEF stanza
<1>1. CASE Handler(from, stanza)
  <2>1. Next /\ attached'
    BY <1>0, <1>1, HandlerSteps DEF Next, NetworkStep
  <2>2. CallInvariant'
    BY <2>1, NextInvariant DEF ClientInvariant, EngineInvariant
  <2>3. openings' \in SUBSET Openings
    BY <2>2 DEF CallInvariant, TypeOK, NetworkTyped
  <2>4. \A o \in NewlyBegun : \/ o[1] \in PeerSids /\ o[2] = "proceed"
                              \/ o = <<stanza.sid, stanza.action>>
    <3> SUFFICES ASSUME NEW o \in NewlyBegun, o # <<stanza.sid, stanza.action>>
                 PROVE  o[1] \in PeerSids /\ o[2] = "proceed"
      OBVIOUS
    <3>1. PICK p \in openings' \ openings : o = <<p[1], p[3]>>
      BY DEF NewlyBegun, Begun
    <3>2. p # <<stanza.sid, from, stanza.action>>
      <4> SUFFICES ASSUME p = <<stanza.sid, from, stanza.action>> PROVE FALSE
        OBVIOUS
      <4>1. p[1] = stanza.sid /\ p[3] = stanza.action
        OBVIOUS
      <4> QED BY <3>1, <4>1
    <3>3. /\ p \in {<<stanza.sid, from, "propose">>, <<stanza.sid, from, "proceed">>}
          /\ stanza.action = "propose" /\ stanza.sid \in PeerSids
      BY <1>1, <3>1, <3>2, HandlerSteps
    <3>4. p = <<stanza.sid, from, "proceed">>
      BY <3>2, <3>3
    <3>5. p[1] = stanza.sid /\ p[3] = "proceed"
      BY <3>4
    <3> QED BY <3>1, <3>3, <3>5
  <2>5. ProposalsAreSaid
    <3> SUFFICES ASSUME NEW sid \in OwnSids, <<sid, "propose">> \in NewlyBegun PROVE FALSE
      BY DEF ProposalsAreSaid
    <3>1. PICK d : <<sid, d, "propose">> \in openings' \ openings
      BY <2>3, BegunIs, <1>0 DEF NewlyBegun, ClientInvariant, EngineInvariant, CallInvariant,
         TypeOK, NetworkTyped
    <3>2. JmiStep(from, stanza.sid) \/ JingleStep(from, stanza.sid)
      BY <1>1, HandlerSteps
    <3>3. /\ sid = stanza.sid
          /\ \/ Inward(stanza.sid, "propose")
             \/ MigrateCall(from, stanza.sid) /\ "propose" = "proceed"
      BY <1>0, <3>1, <3>2, ReceiptOpens
    <3> QED BY <3>3, SidAssumption DEF Inward
  <2>6. stanza.action = "propose" => <<stanza.sid, "propose">> \in Begun(openings')
    BY <1>1, <2>3, HandlerSteps, BegunIs
  <2>7. StepInRole
    BY <2>1, <2>5, ClientSteps
  <2> QED BY <1>0, <2>4, <2>6, <2>7 DEF stanza
<1>2. CASE Unclaimed(from, stanza)
  <2>1. /\ ~Takes(from, stanza) /\ sent' = <<>>
        /\ UNCHANGED <<callVars, mediaVars, timerVars, uiVars, networkVars, idle, reports>>
    BY <1>2 DEF Unclaimed
  <2>2. openings' = openings
    BY <2>1 DEF networkVars
  <2>3. stanza.action # "propose"
    BY <2>1 DEF Takes, TakesJmi, JmiActions
  <2>4. sent' \in Seq(Stanzas)
    BY <2>1
  <2>5. ClientInvariant'
    BY <2>1, <2>4, ClientKeeps
  <2>6. SpeaksInRole
    BY <2>1, OrdinaryParts, OrdinarySpeaks
  <2>7. NewlyBegun = {} /\ Begun(openings') = Begun(openings)
    BY <2>2 DEF NewlyBegun
  <2> QED BY <1>0, <2>3, <2>4, <2>5, <2>6, <2>7 DEF StepInRole, ProposalsAreSaid, stanza
<1> QED BY <1>1, <1>2 DEF Receive, stanza

\* A client that does nothing is as before.
LEMMA ClientWaits ==
    ASSUME ClientInvariant, UNCHANGED vars
    PROVE  ClientInvariant'
<1>1. UNCHANGED <<callVars, mediaVars, timerVars, uiVars, networkVars, idle, reports, sent>>
  BY DEF vars
<1>2. sent' \in Seq(Stanzas)
  BY <1>1 DEF ClientInvariant, EngineInvariant, CallInvariant, TypeOK, NetworkTyped
<1> QED BY <1>1, <1>2, ClientKeeps

-----------------------------------------------------------------------------
(* What one client contributes to a call between two.                      *)

\* The contact is one, has one device and proposes all its calls.
Paired == /\ Direct = {} /\ \A d, e \in Devices : d = e
          /\ \A p, q \in Peers : p = q

\* The live call if it was set up in JMI, if it rang for a session alone, if it is one
\* of this side's that was not answered, and if the other end's description has come; the
\* calls an engine was given one for.
Alive == {sid \in {context.sid} : Live(context) /\ context.jmi}
Straight == {sid \in {context.sid} : Live(context) /\ ~context.jmi}
Asking == {sid \in {context.sid} : context.state = "proposing"}
AnsweredSids == {e[1] : e \in answered}
Given == {sid \in {context.sid} : Live(context) /\ (pendingOffer \/ sid \in AnsweredSids)}

TalkStates == {"negotiating", "connected"}
SessionActions == {"session-initiate", "session-accept"}
TalkActions == {"propose", "proceed"} \cup SessionActions

\* A call of this side's is answered with a proceed, one of the other side's rings until
\* this side proceeds, or accepts a session that came early.
TalkIsBegun ==
    LET Has(action) == <<context.sid, action>> \in Begun(openings) IN
    /\ ~context.incoming /\ (context.full # NoJid \/ context.state \in TalkStates) =>
          Has("proceed")
    /\ context.state = "ringing" /\ context.jmi => ~Has("proceed")
    /\ context.incoming /\ context.jmi /\ context.state \in TalkStates =>
          Has("proceed") \/ Has("session-initiate")

\* A session is offered when the contact proceeded.
OffersAreAnswers ==
    \A sid \in OwnSids : <<sid, "session-initiate">> \in Begun(openings) =>
        <<sid, "proceed">> \in Begun(openings)

\* What an engine was given a description for was proposed.
AnswersWereProposed == \A e \in answered : <<e[1], "propose">> \in Begun(openings)

\* A click on Decline does not end a call of this side's.
DeclinesFit ==
    \A i \in DOMAIN idle : idle[i].what = "decline" => context.incoming \/ ~Live(context)

\* A session that rang alone does not connect, nor does an engine's late report make
\* it: nothing is queued to connect it,
StraightIsQuiet ==
    context.state \in TalkStates /\ ~context.jmi =>
        context.state = "negotiating" /\ \A i \in DOMAIN idle : idle[i].what # "connected"

\* and was not behind the click that accepted it.
AcceptIsAlone ==
    \A i \in DOMAIN idle : idle[i].what = "accept" =>
        /\ context.state \notin {"proposing"} \cup TalkStates
        /\ \A j \in DOMAIN idle : j > i => idle[j].what \notin {"accept", "connected"}

SideInvariant ==
    /\ ClientInvariant /\ PeerInvariant /\ waiting = NoCall
    /\ TalkIsBegun /\ OffersAreAnswers /\ AnswersWereProposed
    /\ DeclinesFit /\ StraightIsQuiet /\ AcceptIsAlone

\* What a step may do to the call, that takes the stanza `head`, or none: see Moves of
\* StreamProofs.
SideMoves(head) ==
    /\ \A i \in DOMAIN sent' :
          /\ sent'[i].action \in EndActions => sent'[i].sid \notin Alive'
          /\ sent'[i].action \in TalkActions => sent'[i].sid \in Alive' \cup Straight'
    /\ \A sid : <<sid, "propose">> \in NewlyBegun => sid \in Alive' \/ Ends(sent', sid)
    /\ \A sid \in PeerSids : <<sid, "proceed">> \in NewlyBegun =>
          sid \in Alive' /\ \E i \in DOMAIN sent' : sent'[i].action = "proceed" /\ sent'[i].sid = sid
    /\ \A sid \in Alive' : sid \in Alive \/ <<sid, "propose">> \notin Begun(openings)
    /\ \A sid \in Alive :
          sid \in Alive' \/ Ends(sent', sid) \/ (head.action \in EndActions /\ head.sid = sid)
    /\ \A sid \in Asking' : sid \in Asking \/ <<sid, "propose">> \notin Begun(openings)
    /\ \A sid \in Alive' \ Asking' :
          \/ sid \in Alive \ Asking
          \/ sid \in Asking /\ head.action = "proceed" /\ head.sid = sid
          \/ head.action = "propose" /\ head.sid = sid
    /\ \A sid \in Straight' :
          \/ sid \in Straight
          \/ head.action = "session-initiate" /\ head.sid = sid /\ sid \notin Alive
    /\ \A sid \in Given' : sid \in Given \/ (head.action \in SessionActions /\ head.sid = sid)
    /\ \A sid \in OwnSids \cap AnsweredSids' :
          sid \in AnsweredSids \/ (head.action = "session-accept" /\ head.sid = sid)
    /\ head.action \in EndActions => head.sid \notin Alive'
    /\ head.action = "proceed" => head.sid \notin Asking'

\* The call stays, or is answered, or connects.
GoesOn(head) ==
    LET sid == context.sid
        Has(action) == <<sid, action>> \in Begun(openings')
    IN
    /\ context'.sid = sid /\ context'.jmi = context.jmi
    /\ context'.incoming = context.incoming /\ (Live(context)' <=> Live(context))
    /\ \/ context'.state = context.state
       \/ /\ context'.state \in TalkStates
          /\ \/ context.state \in TalkStates
             \/ Has("proceed")
             \/ context.incoming /\ Has("session-initiate")
    /\ context'.state # context.state =>
          \/ context.state \in TalkStates \/ AcceptRinging
          \/ context.state = "proposing" /\ head.action = "proceed" /\ head.sid = sid
    /\ context'.full = context.full \/ context.incoming \/ Has("proceed")
    /\ \A i \in DOMAIN sent' : sent'[i].action \in EndActions => sent'[i].sid \notin Alive
    /\ \A o \in NewlyBegun :
          /\ o[2] = "propose" => o[1] \in PeerSids /\ Ends(sent', o[1])
          /\ o[2] = "proceed" =>
                /\ o[1] = sid /\ context'.state # "ringing"
                /\ sid \in PeerSids => /\ Live(context) /\ context.jmi
                                       /\ \E i \in DOMAIN sent' : /\ sent'[i].action = "proceed"
                                                                  /\ sent'[i].sid = sid
          /\ o[2] = "session-initiate" /\ o[1] \in OwnSids => <<o[1], "proceed">> \in Begun(openings)
    /\ Live(context) /\ pendingOffer' =>
          \/ pendingOffer \/ sid \in AnsweredSids
          \/ head.action \in SessionActions /\ head.sid = sid
    /\ \A e \in answered' :
          \/ e \in answered
          \/ /\ e[1] = sid /\ Live(context)
             /\ IF head.action \in SessionActions /\ head.sid = sid
                  THEN sid \in OwnSids => head.action = "session-accept"
                  ELSE sid \notin OwnSids /\ pendingOffer
    /\ answered \subseteq answered'
    /\ head.action \in EndActions => head.sid \notin Alive
    /\ head.action = "proceed" /\ head.sid = sid => context'.state # "proposing"

\* The call ends, and the contact is told or told it.
Leaves(head) ==
    /\ \E state \in Terminal : context' = [context EXCEPT !.state = state]
    /\ UNCHANGED <<answered, openings>>
    /\ Live(context) /\ context.jmi =>
          \/ Ends(sent', context.sid)
          \/ head.action \in EndActions /\ head.sid = context.sid

\* A call is placed or rings, or takes the place of another, that is ended.
Comes(head) ==
    LET sid == context'.sid IN
    /\ context'.jmi /\ Live(context)'
    /\ <<sid, "propose">> \notin Begun(openings)
    /\ IF context'.incoming
         THEN /\ context'.state \in {"ringing", "negotiating"}
              /\ <<sid, "proceed">> \notin Begun(openings)
              /\ head.action = "propose" /\ head.sid = sid
         ELSE /\ context'.state = "proposing" /\ context'.full = NoJid
              /\ \A i \in DOMAIN idle : idle[i].what \notin {"accept", "decline"}
    /\ idle' = idle
    /\ \A o \in NewlyBegun :
          o = <<sid, "propose">> \/ (o = <<sid, "proceed">> /\ context'.state = "negotiating")
    /\ context'.state = "negotiating" =>
          /\ context.state \in TalkStates
          /\ <<sid, "proceed">> \in Begun(openings')
          /\ \E i \in DOMAIN sent' : sent'[i].action = "proceed" /\ sent'[i].sid = sid
    /\ ~pendingOffer' /\ answered' = answered
    /\ Live(context) => Ends(sent', context.sid)
    /\ \A i \in DOMAIN sent' : sent'[i].action \in EndActions => sent'[i].sid # sid
    /\ head.action \in {"none", "propose"}

\* A session rings that belongs to no call the client knows of.
RingsAlone(head) ==
    /\ ~Live(context) /\ context'.state = "ringing" /\ ~context'.jmi /\ context'.incoming
    /\ head.action = "session-initiate" /\ head.sid = context'.sid /\ head.sid \in PeerSids
    /\ NewlyBegun \subseteq {<<head.sid, "session-initiate">>}
    /\ answered' = answered
    /\ \A i \in DOMAIN sent' : sent'[i].action \notin EndActions

Goes(head) == GoesOn(head) \/ Leaves(head) \/ Comes(head) \/ RingsAlone(head)

\* Only a local description is sent in a session's opening or acceptance.
SessionWords ==
    \A i \in DOMAIN sent' : sent'[i].action \in SessionActions =>
        Live(context) /\ context' = context /\ sent'[i].sid = context.sid

\* The live call, and every other the client holds on to, was proposed.
LEMMA ContextIsProposed ==
    ASSUME Paired, CallInvariant
    PROVE  /\ Live(context) => context # NoCall
           /\ context # NoCall => <<context.sid, "propose">> \in Begun(openings)
<1>1. Live(context) => context # NoCall
  BY DEF Live, LiveStates, NoCall
<1>2. context # NoCall => Proposed(context.sid)
  BY DEF Paired, CallInvariant, CallsWereOpened
<1> QED BY <1>1, <1>2, BegunThen

\* What is proposed or proceeded with has begun by that.
LEMMA OpenersAreNew ==
    ASSUME SpeaksInRole, NEW i \in DOMAIN sent', sent'[i].action \in {"propose", "proceed"}
    PROVE  /\ <<sent'[i].sid, sent'[i].action>> \in NewlyBegun
           /\ sent'[i].action = "propose" => sent'[i].sid \in OwnSids
           /\ sent'[i].action = "proceed" => sent'[i].sid \in PeerSids
BY DEF SpeaksInRole, InRole, Words, JmiActions, OpeningActions, NewlyBegun

\* Each of these keeps what the sides agree on.
LEMMA GoesOnMoves ==
    ASSUME Paired, SideInvariant, NEW head, GoesOn(head), SessionWords, SpeaksInRole,
           Begun(openings) \subseteq Begun(openings')
    PROVE  SideMoves(head) /\ TalkIsBegun' /\ OffersAreAnswers' /\ AnswersWereProposed'
<1>0. /\ context'.sid = context.sid /\ context'.jmi = context.jmi
      /\ context'.incoming = context.incoming /\ (Live(context)' <=> Live(context))
  BY DEF GoesOn
<1>1. Alive' = Alive /\ Straight' = Straight
  BY <1>0 DEF Alive, Straight
<1>2. /\ Live(context) => <<context.sid, "propose">> \in Begun(openings)
      /\ answered \subseteq answered'
  BY ContextIsProposed DEF SideInvariant, ClientInvariant, EngineInvariant, GoesOn
<1>3. \A sid \in AnsweredSids' : sid \in AnsweredSids \/ \E e \in answered' \ answered : e[1] = sid
  BY DEF AnsweredSids
<1>4. \A sid \in Given' : sid \in Given \/ (head.action \in SessionActions /\ head.sid = sid)
  <2> SUFFICES ASSUME NEW sid \in Given'
               PROVE  sid \in Given \/ (head.action \in SessionActions /\ head.sid = sid)
    OBVIOUS
  <2>1. sid = context.sid /\ Live(context) /\ (pendingOffer' \/ sid \in AnsweredSids')
    BY <1>0 DEF Given
  <2>2. CASE pendingOffer'
    BY <2>1, <2>2 DEF GoesOn, Given
  <2>3. CASE sid \in AnsweredSids'
    BY <1>3, <2>1, <2>3 DEF GoesOn, Given
  <2> QED BY <2>1, <2>2, <2>3
<1>5. \A sid \in OwnSids \cap AnsweredSids' :
         sid \in AnsweredSids \/ (head.action = "session-accept" /\ head.sid = sid)
  BY <1>3 DEF GoesOn
<1>6. /\ \A sid \in Asking' : sid \in Asking
      /\ \A sid \in Alive' \ Asking' :
            \/ sid \in Alive \ Asking
            \/ sid \in Asking /\ head.action = "proceed" /\ head.sid = sid
  <2>1. \A sid \in Asking' : sid \in Asking
    BY <1>0 DEF GoesOn, Asking, TalkStates
  <2>2. context.state = "proposing" /\ context'.state # "proposing" =>
           head.action = "proceed" /\ head.sid = context.sid
    BY DEF GoesOn, AcceptRinging, TalkStates
  <2> QED BY <1>0, <1>1, <2>1, <2>2 DEF Asking, Alive
<1>7. head.action = "proceed" => head.sid \notin Asking'
  BY <1>0 DEF GoesOn, Asking
<1>8. ASSUME NEW sid \in PeerSids, <<sid, "proceed">> \in NewlyBegun
      PROVE  sid \in Alive' /\ \E i \in DOMAIN sent' : sent'[i].action = "proceed" /\ sent'[i].sid = sid
  <2>1. <<sid, "proceed">>[1] = sid /\ <<sid, "proceed">>[2] = "proceed"
    OBVIOUS
  <2>2. sid = context.sid /\ Live(context) /\ context.jmi
    BY <1>8, <2>1 DEF GoesOn
  <2> QED BY <1>1, <1>8, <2>1, <2>2 DEF GoesOn, Alive
<1>9. ASSUME NEW sid, <<sid, "propose">> \in NewlyBegun PROVE Ends(sent', sid)
  <2>1. <<sid, "propose">>[1] = sid /\ <<sid, "propose">>[2] = "propose"
    OBVIOUS
  <2> QED BY <1>9, <2>1 DEF GoesOn
<1>10. ASSUME NEW i \in DOMAIN sent'
       PROVE  /\ sent'[i].action \in EndActions => sent'[i].sid \notin Alive'
              /\ sent'[i].action \in TalkActions => sent'[i].sid \in Alive' \cup Straight'
  <2>1. sent'[i].action \in EndActions => sent'[i].sid \notin Alive'
    BY <1>1 DEF GoesOn
  <2>2. sent'[i].action \in SessionActions => sent'[i].sid \in Alive' \cup Straight'
    BY <1>1 DEF SessionWords, Alive, Straight
  <2>3. ASSUME sent'[i].action \in {"propose", "proceed"} PROVE sent'[i].sid \in Alive'
    <3> DEFINE s == sent'[i].sid
    <3>1. <<s, sent'[i].action>> \in NewlyBegun
          /\ (sent'[i].action = "propose" => s \in OwnSids)
          /\ (sent'[i].action = "proceed" => s \in PeerSids)
      BY <2>3, OpenersAreNew
    <3> HIDE DEF s
    <3>2. CASE sent'[i].action = "propose"
      <4>1. <<s, "propose">>[1] = s /\ <<s, "propose">>[2] = "propose"
        OBVIOUS
      <4>2. s \in PeerSids
        BY <3>1, <3>2, <4>1 DEF GoesOn
      <4> QED BY <3>1, <3>2, <4>2, SidAssumption
    <3>3. CASE sent'[i].action = "proceed"
      BY <1>8, <3>1, <3>3 DEF s
    <3> QED BY <2>3, <3>2, <3>3
  <2> QED BY <2>1, <2>2, <2>3 DEF TalkActions
<1>11. head.action \in EndActions => head.sid \notin Alive'
  BY <1>1 DEF GoesOn
<1>12. SideMoves(head)
  BY <1>1, <1>4, <1>5, <1>6, <1>7, <1>8, <1>9, <1>10, <1>11 DEF SideMoves
<1>13. TalkIsBegun'
  <2> DEFINE Has(action) == <<context.sid, action>> \in Begun(openings)
             HasNext(action) == <<context.sid, action>> \in Begun(openings')
  <2>1. \A action : Has(action) => HasNext(action)
    OBVIOUS
  <2>2. HasNext("proceed") => Has("proceed") \/ context'.state # "ringing"
    <3>1. <<context.sid, "proceed">>[2] = "proceed"
      OBVIOUS
    <3> QED BY <3>1 DEF GoesOn, NewlyBegun
  <2>3. context'.state = context.state
          \/ (context'.state \in TalkStates
                /\ (context.state \in TalkStates \/ HasNext("proceed")
                       \/ (context.incoming /\ HasNext("session-initiate"))))
    BY DEF GoesOn
  <2>4. context'.full = context.full \/ context.incoming \/ HasNext("proceed")
    BY DEF GoesOn
  <2>5. TalkIsBegun
    BY DEF SideInvariant
  <2> HIDE DEF Has, HasNext
  <2>6. /\ ~context.incoming /\ (context'.full # NoJid \/ context'.state \in TalkStates) =>
              HasNext("proceed")
        /\ context'.state = "ringing" /\ context.jmi => ~HasNext("proceed")
        /\ context.incoming /\ context.jmi /\ context'.state \in TalkStates =>
              HasNext("proceed") \/ HasNext("session-initiate")
    <3>1. /\ ~context.incoming /\ (context.full # NoJid \/ context.state \in TalkStates) =>
                Has("proceed")
          /\ context.state = "ringing" /\ context.jmi => ~Has("proceed")
          /\ context.incoming /\ context.jmi /\ context.state \in TalkStates =>
                Has("proceed") \/ Has("session-initiate")
      BY <2>5 DEF TalkIsBegun, Has
    <3> QED BY <2>1, <2>2, <2>3, <2>4, <3>1 DEF TalkStates
  <2> QED BY <1>0, <2>6 DEF TalkIsBegun, HasNext
<1>14. OffersAreAnswers'
  <2> SUFFICES ASSUME NEW sid \in OwnSids, <<sid, "session-initiate">> \in Begun(openings')
               PROVE  <<sid, "proceed">> \in Begun(openings')
    BY DEF OffersAreAnswers
  <2>1. <<sid, "session-initiate">>[1] = sid /\ <<sid, "session-initiate">>[2] = "session-initiate"
    OBVIOUS
  <2>2. CASE <<sid, "session-initiate">> \in Begun(openings)
    BY <2>2 DEF SideInvariant, OffersAreAnswers
  <2>3. CASE <<sid, "session-initiate">> \in NewlyBegun
    BY <2>1, <2>3 DEF GoesOn
  <2> QED BY <2>2, <2>3 DEF NewlyBegun
<1>15. AnswersWereProposed'
  BY <1>2 DEF GoesOn, SideInvariant, AnswersWereProposed
<1> QED BY <1>12, <1>13, <1>14, <1>15

\* What begins is offered after it was answered, if only this is new.
LEMMA OffersStay ==
    ASSUME SideInvariant, \A sid \in OwnSids : <<sid, "session-initiate">> \notin NewlyBegun,
           answered' = answered, Begun(openings) \subseteq Begun(openings')
    PROVE  OffersAreAnswers' /\ AnswersWereProposed'
<1>1. OffersAreAnswers /\ AnswersWereProposed
  BY DEF SideInvariant
<1>2. OffersAreAnswers'
  BY <1>1 DEF OffersAreAnswers, NewlyBegun
<1>3. AnswersWereProposed'
  BY <1>1 DEF AnswersWereProposed
<1> QED BY <1>2, <1>3

\* An ended call is nobody's.
LEMMA LeavesMoves ==
    ASSUME SideInvariant, NEW head, Leaves(head), SessionWords, SpeaksInRole
    PROVE  SideMoves(head) /\ TalkIsBegun' /\ OffersAreAnswers' /\ AnswersWereProposed'
<1>0. /\ context \in CallRecord /\ answered' = answered /\ openings' = openings
  BY DEF SideInvariant, ClientInvariant, EngineInvariant, CallInvariant, TypeOK, CallsTyped, Leaves
<1>1. PICK state \in Terminal : context' = [context EXCEPT !.state = state]
  BY DEF Leaves
<1>2. /\ context'.sid = context.sid /\ context'.state = state /\ context'.full = context.full
      /\ context'.incoming = context.incoming /\ context'.jmi = context.jmi
  BY <1>0, <1>1, Written
<1>3. ~Live(context)' /\ context'.state \notin {"ringing", "proposing"} \cup TalkStates
  BY <1>2 DEF Terminal, Live, LiveStates, TalkStates
<1>4. NewlyBegun = {}
  BY <1>0 DEF NewlyBegun
<1>5. Alive' = {} /\ Straight' = {} /\ Asking' = {} /\ Given' = {} /\ AnsweredSids' = AnsweredSids
  BY <1>0, <1>3 DEF Alive, Straight, Asking, Given, AnsweredSids
<1>6. \A i \in DOMAIN sent' : sent'[i].action \notin TalkActions
  <2>1. \A i \in DOMAIN sent' : sent'[i].action \notin SessionActions
    BY <1>3 DEF SessionWords
  <2>2. \A i \in DOMAIN sent' : sent'[i].action \notin {"propose", "proceed"}
    BY <1>4, OpenersAreNew
  <2> QED BY <2>1, <2>2 DEF TalkActions
<1>7. \A sid \in Alive : Ends(sent', sid) \/ (head.action \in EndActions /\ head.sid = sid)
  BY DEF Leaves, Alive
<1>8. SideMoves(head)
  BY <1>4, <1>5, <1>6, <1>7 DEF SideMoves
<1>9. TalkIsBegun'
  BY <1>0, <1>2, <1>3 DEF SideInvariant, TalkIsBegun
<1> QED BY <1>0, <1>4, <1>8, <1>9, OffersStay

\* A call that comes is new to both.
LEMMA ComesMoves ==
    ASSUME Paired, SideInvariant, NEW head, Comes(head), SessionWords, SpeaksInRole,
           Begun(openings) \subseteq Begun(openings')
    PROVE  SideMoves(head) /\ TalkIsBegun' /\ OffersAreAnswers' /\ AnswersWereProposed'
<1> DEFINE sid == context'.sid
<1>0. /\ context'.jmi /\ Live(context)'
      /\ <<sid, "propose">> \notin Begun(openings)
      /\ context'.incoming => <<sid, "proceed">> \notin Begun(openings)
      /\ ~pendingOffer' /\ answered' = answered
      /\ head.action \in {"none", "propose"}
      /\ \A i \in DOMAIN sent' : sent'[i].action \in EndActions => sent'[i].sid # sid
      /\ context'.state = "negotiating" =>
            /\ <<sid, "proceed">> \in Begun(openings')
            /\ \E i \in DOMAIN sent' : sent'[i].action = "proceed" /\ sent'[i].sid = sid
  BY DEF Comes
<1>1. sid \notin AnsweredSids
  BY <1>0 DEF SideInvariant, AnswersWereProposed, AnsweredSids
<1>2. Alive' = {sid} /\ Straight' = {} /\ Given' = {} /\ AnsweredSids' = AnsweredSids
  BY <1>0, <1>1 DEF Alive, Straight, Given, AnsweredSids
<1>3. Asking' \subseteq {sid}
  BY DEF Asking
<1>4. \A i \in DOMAIN sent' : sent'[i].action \notin SessionActions
  BY <1>0, ContextIsProposed DEF SessionWords, SideInvariant, ClientInvariant, EngineInvariant
<1>5. \A s \in Alive : Ends(sent', s)
  BY DEF Comes, Alive
<1>6. \A s, action : <<s, action>> \in NewlyBegun =>
         \/ s = sid /\ action = "propose"
         \/ s = sid /\ action = "proceed" /\ context'.state = "negotiating"
  <2> SUFFICES ASSUME NEW s, NEW action, <<s, action>> \in NewlyBegun
               PROVE  \/ s = sid /\ action = "propose"
                      \/ s = sid /\ action = "proceed" /\ context'.state = "negotiating"
    OBVIOUS
  <2>1. \/ <<s, action>> = <<sid, "propose">>
        \/ <<s, action>> = <<sid, "proceed">> /\ context'.state = "negotiating"
    BY DEF Comes
  <2> QED BY <2>1
<1>7. head.action \notin EndActions \cup SessionActions \cup {"proceed"}
  BY <1>0 DEF EndActions, SessionActions
<1>10. \A i \in DOMAIN sent' : sent'[i].action \in TalkActions => sent'[i].sid = sid
  BY <1>4, <1>6, OpenersAreNew DEF TalkActions
<1>11. \A s \in Alive' \ Asking' : head.action = "propose" /\ head.sid = s
  BY <1>2 DEF Comes, Asking
<1>8. SideMoves(head)
  <2> HIDE DEF sid
  <2> QED BY <1>0, <1>2, <1>3, <1>4, <1>5, <1>6, <1>7, <1>10, <1>11 DEF SideMoves
<1>9. TalkIsBegun'
  <2>1. IF context'.incoming THEN context'.state \in {"ringing", "negotiating"}
        ELSE context'.state = "proposing" /\ context'.full = NoJid
    BY DEF Comes
  <2>2. context'.state = "ringing" => <<sid, "proceed">> \notin Begun(openings')
    BY <1>0, <1>6, <2>1 DEF NewlyBegun
  <2> QED BY <1>0, <2>1, <2>2 DEF TalkIsBegun, TalkStates
<1> QED BY <1>0, <1>6, <1>8, <1>9, OffersStay

\* Nor is a session alone of a call that is live.
LEMMA RingsAloneMoves ==
    ASSUME SideInvariant, NEW head, RingsAlone(head), SessionWords, SpeaksInRole,
           Begun(openings) \subseteq Begun(openings')
    PROVE  SideMoves(head) /\ TalkIsBegun' /\ OffersAreAnswers' /\ AnswersWereProposed'
<1>0. /\ ~Live(context) /\ context'.state = "ringing" /\ ~context'.jmi /\ context'.incoming
      /\ head.action = "session-initiate" /\ head.sid = context'.sid /\ head.sid \in PeerSids
      /\ answered' = answered
      /\ \A i \in DOMAIN sent' : sent'[i].action \notin EndActions
  BY DEF RingsAlone
<1>1. /\ Alive = {} /\ Alive' = {} /\ Asking' = {} /\ Straight' \subseteq {head.sid}
      /\ Given' \subseteq {head.sid} /\ AnsweredSids' = AnsweredSids
  BY <1>0 DEF Alive, Asking, Straight, Given, AnsweredSids
<1>2. \A s, action : <<s, action>> \in NewlyBegun => s = head.sid /\ action = "session-initiate"
  <2> SUFFICES ASSUME NEW s, NEW action, <<s, action>> \in NewlyBegun
               PROVE  s = head.sid /\ action = "session-initiate"
    OBVIOUS
  <2>1. <<s, action>> = <<head.sid, "session-initiate">>
    BY DEF RingsAlone
  <2> QED BY <2>1
<1>3. \A i \in DOMAIN sent' : sent'[i].action \notin TalkActions
  <2>1. \A i \in DOMAIN sent' : sent'[i].action \notin SessionActions
    BY <1>0 DEF SessionWords
  <2>2. \A i \in DOMAIN sent' : sent'[i].action \notin {"propose", "proceed"}
    BY <1>2, OpenersAreNew
  <2> QED BY <2>1, <2>2 DEF TalkActions
<1>4. head.action \in SessionActions /\ head.action \notin EndActions \cup {"proceed"}
  BY <1>0 DEF EndActions, SessionActions
<1>5. SideMoves(head)
  BY <1>0, <1>1, <1>2, <1>3, <1>4 DEF SideMoves
<1>6. TalkIsBegun'
  BY <1>0 DEF TalkIsBegun, TalkStates
<1>7. \A sid \in OwnSids : <<sid, "session-initiate">> \notin NewlyBegun
  BY <1>0, <1>2, SidAssumption
<1> QED BY <1>0, <1>5, <1>6, <1>7, OffersStay

\* Whichever way the call goes.
LEMMA GoesMoves ==
    ASSUME Paired, SideInvariant, NEW head, Goes(head), SessionWords, SpeaksInRole,
           Begun(openings) \subseteq Begun(openings')
    PROVE  SideMoves(head) /\ TalkIsBegun' /\ OffersAreAnswers' /\ AnswersWereProposed'
BY GoesOnMoves, LeavesMoves, ComesMoves, RingsAloneMoves DEF Goes

-----------------------------------------------------------------------------
(* Each step goes one of these ways.                                       *)

\* Candidates open no session and end none.
LEMMA CandidatesEndNothing ==
    ASSUME NEW queued \in Seq(Engines)
    PROVE  /\ \E set : Candidates(queued) \in Seq(set)
           /\ \A j \in DOMAIN Candidates(queued) :
                 Candidates(queued)[j].action \notin SessionActions \cup EndActions
<1> DEFINE Word(e) == Carry(context.full, "transport-info", context.sid, e)
           words == {Word(e) : e \in Engines}
<1>1. \A j \in 1..Len(queued) : Word(queued[j]) \in words
  OBVIOUS
<1>2. Candidates(queued) = [j \in 1..Len(queued) |-> Word(queued[j])] /\ Len(queued) \in Nat
  BY DEF Candidates
<1>3. \A e : Word(e).action \notin SessionActions \cup EndActions
  BY DEF Carry, SessionActions, EndActions
<1> HIDE DEF Word, words
<1>4. Candidates(queued) \in Seq(words)
  BY <1>1, <1>2
<1> QED BY <1>2, <1>3, <1>4

\* No other stanzas open or accept a session than a local description.
LEMMA SessionsAreDescribed ==
    ASSUME ClientInvariant, Next
    PROVE  SessionWords
<1> SUFFICES ASSUME NEW i \in DOMAIN sent', sent'[i].action \in SessionActions
             PROVE  Live(context) /\ context' = context /\ sent'[i].sid = context.sid
  BY DEF SessionWords
<1>0. pendingLocal \in Seq(Engines)
  BY DEF ClientInvariant, EngineInvariant, CallInvariant, TypeOK, MediaTyped
<1>1. ~Plain(sent')
  <2> SUFFICES ASSUME Plain(sent') PROVE FALSE
    OBVIOUS
  <2>1. PICK set : sent' \in Seq(set) /\ \A s \in set : s.action \notin Carriers
    BY DEF Plain
  <2> QED BY <2>1 DEF SessionActions, Carriers
<1>2. \A queued \in Seq(Engines) :
         /\ \E set : Candidates(queued) \in Seq(set)
         /\ \A j \in DOMAIN Candidates(queued) :
               Candidates(queued)[j].action \notin SessionActions
  BY CandidatesEndNothing
<1>3. CASE LocalDescriptionReady /\ sent' # <<>>
  <2> DEFINE opening == Carry(context.full, IF context.incoming THEN "session-accept"
                                            ELSE "session-initiate", context.sid, Source)
             rest == Candidates(pendingLocal)
  <2>1. Live(context) /\ context' = context /\ sent' = <<opening>> \o rest
    BY <1>3 DEF LocalDescriptionReady, callVars
  <2>2. opening.sid = context.sid
    BY DEF Carry
  <2>3. \A j \in DOMAIN rest : rest[j].action \notin SessionActions
    BY <1>0, <1>2
  <2>4. \E set : rest \in Seq(set)
    BY <1>0, <1>2
  <2> HIDE DEF opening, rest
  <2>5. \A j \in DOMAIN sent' : \/ sent'[j] = opening
                                \/ \E k \in DOMAIN rest : sent'[j] = rest[k]
    BY <2>1, <2>4
  <2> QED BY <2>1, <2>2, <2>3, <2>5
<1>4. CASE LocalCandidateReady /\ sent' # <<>>
  <2>1. sent' = Candidates(<<Source>>)
    BY <1>4 DEF LocalCandidateReady
  <2>2. Source \in Engines
    BY <1>4, ReadyIsCurrent DEF LocalCandidateReady, ClientInvariant
  <2>3. <<Source>> \in Seq(Engines)
    BY <2>2
  <2> QED BY <1>2, <2>1, <2>3
<1>5. sent' # <<>>
  BY <1>1, PlainParts
<1> QED BY <1>1, <1>3, <1>4, <1>5, NextPlain

\* What a client rests on, in the parts these steps use.
LEMMA SideFacts ==
    ASSUME Paired, SideInvariant
    PROVE  /\ CallInvariant /\ SidesAreKnown /\ RoleInvariant /\ attached
           /\ waiting = NoCall /\ context \in CallRecord
           /\ Live(context) => /\ context # NoCall /\ context.sid \in Sids
                               /\ <<context.sid, "propose">> \in Begun(openings)
           /\ pendingOffer => Live(context) /\ <<context.sid, "session-initiate">> \in Begun(openings)
           /\ context.incoming /\ context # NoCall => context.sid \in PeerSids
           /\ context # NoCall /\ ~context.incoming => context.sid \in OwnSids /\ context.jmi
           /\ \A from \in Devices : Live(context) => Bare[from] = context.peer
<1>1. /\ CallInvariant /\ SidesAreKnown /\ RoleInvariant /\ attached /\ waiting = NoCall
  BY DEF SideInvariant, ClientInvariant, EngineInvariant
<1>2. context \in CallRecord
  BY <1>1 DEF CallInvariant, TypeOK, CallsTyped
<1>3. Live(context) => context # NoCall /\ context.sid \in Sids /\ context.peer \in Peers
  BY <1>1, LiveFacts, LiveIsWellFormed DEF CallInvariant
<1>4. Live(context) => <<context.sid, "propose">> \in Begun(openings)
  BY <1>1, ContextIsProposed
<1>5. pendingOffer => Live(context) /\ <<context.sid, "session-initiate">> \in Begun(openings)
  BY <1>1, BegunThen DEF SidesAreKnown, OffersAreKept
<1>6. /\ context.incoming /\ context # NoCall => context.sid \in PeerSids
      /\ context # NoCall /\ ~context.incoming => context.sid \in OwnSids /\ context.jmi
  BY <1>1 DEF SidesAreKnown, OfItsSide
<1>7. \A from \in Devices : Live(context) => Bare[from] = context.peer
  BY <1>3, JidAssumption DEF Paired
<1> QED BY <1>1, <1>2, <1>3, <1>4, <1>5, <1>6, <1>7

\* A step that leaves the call and what was opened as they are.
LEMMA StaysGoes ==
    ASSUME NEW head, context' = context, answered' = answered, openings' = openings,
           Live(context) /\ pendingOffer' => pendingOffer,
           \A i \in DOMAIN sent' : sent'[i].action \in EndActions => sent'[i].sid \notin Alive,
           head.action \in EndActions => head.sid \notin Alive,
           head.action = "proceed" /\ head.sid = context.sid => context.state # "proposing"
    PROVE  Goes(head)
<1>1. NewlyBegun = {}
  BY DEF NewlyBegun
<1> QED BY <1>1 DEF Goes, GoesOn, Live

\* What is begun with a session id the opening names.
LEMMA OnlyBegun ==
    ASSUME NEW one, openings' \subseteq openings \cup {one}
    PROVE  NewlyBegun \subseteq {<<one[1], one[3]>>}
BY DEF NewlyBegun, Begun

\* What hangup ends was the call; without one nothing changes.
LEMMA HangupGoes ==
    ASSUME Paired, SideInvariant, NEW head, head.action = "none", Hangup, openings' = openings
    PROVE  Goes(head)
<1>0. CallInvariant /\ SidesAreKnown /\ waiting = NoCall /\ context \in CallRecord
  BY SideFacts
<1>1. CASE Live(context)
  <2>1. FinishLocal("ended", window, "start") /\ sent' = HangupStanzas
    BY <1>1 DEF Hangup
  <2>2. context' = [context EXCEPT !.state = "ended"] /\ answered' = answered
    BY <1>0, <1>1, <2>1 DEF FinishLocal
  <2>3. Ends(sent', context.sid)
    BY <1>0, <1>1, <2>1, HangupEnds
  <2> QED BY <2>2, <2>3 DEF Goes, Leaves, Terminal
<1>2. CASE ~Live(context)
  <2>1. sent' = <<>> /\ context' = context /\ pendingOffer' = pendingOffer /\ answered' = answered
    BY <1>2 DEF Hangup, callVars, mediaVars
  <2> QED BY <2>1, StaysGoes DEF EndActions
<1> QED BY <1>1, <1>2

\* What the user does.
LEMMA UserGoes ==
    ASSUME Paired, SideInvariant, NEW head, head.action = "none",
           UserStep, NoClickQueued, attached'
    PROVE  Goes(head)
<1>0. /\ CallInvariant /\ SidesAreKnown /\ RoleInvariant /\ waiting = NoCall
      /\ pendingOffer => Live(context)
  BY SideFacts
<1>1. ASSUME NEW sid \in OwnSids, StartOutgoing(sid) PROVE Goes(head)
  <2>1. CASE Live(context)
    <3>1. /\ sent' = <<>> /\ context' = context /\ pendingOffer' = pendingOffer
          /\ answered' = answered /\ openings' = openings
      BY <1>1, <2>1 DEF StartOutgoing, mediaVars
    <3> QED BY <3>1, StaysGoes DEF EndActions
  <2>2. CASE ~Live(context)
    <3>1. /\ context' = OutgoingCall(sid) /\ sent' = <<Say(Party[sid], "propose", sid)>>
          /\ openings' = openings \cup {<<sid, NoJid, "propose">>}
          /\ <<sid, NoJid, "propose">> \notin openings
          /\ pendingOffer' = pendingOffer /\ answered' = answered /\ idle' = idle
      BY <1>1, <2>2 DEF StartOutgoing, mediaVars
    <3>2. /\ context'.sid = sid /\ context'.jmi /\ context'.state = "proposing"
          /\ context'.full = NoJid /\ ~context'.incoming /\ Live(context)'
      BY <3>1 DEF OutgoingCall, Live, LiveStates
    <3>3. <<sid, "propose">> \notin Begun(openings)
      <4> SUFFICES ASSUME <<sid, "propose">> \in Begun(openings) PROVE FALSE
        OBVIOUS
      <4>1. PICK d : <<sid, d, "propose">> \in openings
        BY <1>0, BegunIs DEF CallInvariant, TypeOK, NetworkTyped
      <4>2. d = NoJid
        <5>1. /\ <<sid, d, "propose">>[1] = sid /\ <<sid, d, "propose">>[2] = d
              /\ <<sid, d, "propose">>[3] = "propose"
          OBVIOUS
        <5> QED BY <1>0, <4>1, <5>1 DEF RoleInvariant, OpeningsAreNamed
      <4> QED BY <3>1, <4>1, <4>2
    <3>4. NewlyBegun \subseteq {<<sid, "propose">>}
      <4>1. /\ <<sid, NoJid, "propose">>[1] = sid /\ <<sid, NoJid, "propose">>[3] = "propose"
        OBVIOUS
      <4> QED BY <3>1, <4>1, OnlyBegun
    <3>5. \A i \in DOMAIN idle : idle[i].what \notin {"accept", "decline"}
      BY DEF NoClickQueued, Clicks, ButtonClicks
    <3>6. \A i \in DOMAIN sent' : sent'[i].action \notin EndActions
      BY <3>1 DEF Say, EndActions
    <3> QED BY <1>0, <2>2, <3>1, <3>2, <3>3, <3>4, <3>5, <3>6 DEF Goes, Comes
  <2> QED BY <2>1, <2>2
<1>2. CASE ToolbarHangup
  <2>1. Hangup /\ openings' = openings
    BY <1>2 DEF ToolbarHangup, networkVars
  <2> QED BY <2>1, HangupGoes
<1>3. CASE ClickAccept \/ ClickDecline \/ ClickHangup \/ CloseWindow
  <2>1. /\ sent' = <<>> /\ context' = context /\ pendingOffer' = pendingOffer
        /\ answered' = answered /\ openings' = openings
    BY <1>3 DEF ClickAccept, ClickDecline, ClickHangup, CloseWindow, Click, callVars,
       mediaVars, networkVars
  <2> QED BY <2>1, StaysGoes DEF EndActions
<1>4. ~Deactivate
  BY DEF Deactivate
<1> QED BY <1>1, <1>2, <1>3, <1>4 DEF UserStep

\* A call that is accepted, with the offer that came early or by a proceed.
LEMMA AcceptGoes ==
    ASSUME Paired, SideInvariant, NEW head, head.action = "none", AcceptRinging
    PROVE  Goes(head)
<1>0. /\ CallInvariant /\ context \in CallRecord /\ SidesAreKnown
      /\ pendingOffer => <<context.sid, "session-initiate">> \in Begun(openings)
      /\ context.incoming /\ context # NoCall => context.sid \in PeerSids
  BY SideFacts
<1>1. /\ context.state = "ringing" /\ context' = [context EXCEPT !.state = "negotiating"]
      /\ pendingOffer' = pendingOffer
  BY DEF AcceptRinging
<1>2. /\ context'.sid = context.sid /\ context'.jmi = context.jmi
      /\ context'.incoming = context.incoming /\ context'.full = context.full
      /\ context'.state = "negotiating" /\ Live(context) /\ Live(context)'
      /\ context.incoming /\ context.sid \in PeerSids /\ context.sid \notin OwnSids
  <2>1. context # NoCall /\ context.incoming /\ Live(context)
    BY <1>0, <1>1 DEF NoCall, Live, LiveStates, CallInvariant, CallsWellFormed
  <2>2. /\ context'.sid = context.sid /\ context'.jmi = context.jmi
        /\ context'.incoming = context.incoming /\ context'.full = context.full
        /\ context'.state = "negotiating"
    BY <1>0, <1>1, Written
  <2>3. Live(context)'
    BY <2>2 DEF Live, LiveStates
  <2>4. context.sid \in PeerSids
    BY <1>0, <2>1
  <2> QED BY <2>1, <2>2, <2>3, <2>4, SidAssumption
<1>3. head.action \notin EndActions \cup SessionActions \cup {"proceed"}
  BY DEF EndActions, SessionActions
<1>4. CASE pendingOffer
  <2>1. /\ answered' = answered \cup {<<context.sid, context.full>>}
        /\ sent' = <<>> /\ openings' = openings
    BY <1>4 DEF AcceptRinging, StartMedia
  <2>2. NewlyBegun = {} /\ Begun(openings') = Begun(openings)
    BY <2>1 DEF NewlyBegun
  <2>3. <<context.sid, context.full>>[1] = context.sid
    OBVIOUS
  <2>4. \A i \in DOMAIN sent' : sent'[i].action \notin EndActions
    BY <2>1
  <2>5. pendingOffer' = pendingOffer /\ <<context.sid, "session-initiate">> \in Begun(openings')
    BY <1>0, <1>1, <1>4, <2>2
  <2>6. \A e \in answered' : e \in answered \/ e[1] = context.sid
    BY <2>1, <2>3
  <2>7. answered \subseteq answered'
    BY <2>1
  <2> QED BY <1>2, <1>3, <1>4, <2>2, <2>4, <2>5, <2>6, <2>7 DEF Goes, GoesOn, TalkStates
<1>5. CASE ~pendingOffer
  <2>1. /\ answered' = answered /\ sent' = Proceed(context.full, context.sid)
        /\ openings' = openings \cup {<<context.sid, context.full, "proceed">>}
    BY <1>5 DEF AcceptRinging, mediaVars
  <2> DEFINE opening == <<context.sid, context.full, "proceed">>
  <2>2. opening[1] = context.sid /\ opening[3] = "proceed"
    OBVIOUS
  <2>3. opening \in openings'
    BY <2>1
  <2> HIDE DEF opening
  <2>4. /\ NewlyBegun \subseteq {<<context.sid, "proceed">>}
        /\ <<context.sid, "proceed">> \in Begun(openings')
    <3>1. openings' \subseteq openings \cup {opening}
      BY <2>1 DEF opening
    <3> QED BY <2>2, <2>3, <3>1, OnlyBegun DEF Begun
  <2>5. /\ DOMAIN sent' = {1, 2}
        /\ sent'[1].action = "proceed" /\ sent'[1].sid = context.sid
        /\ sent'[2].action = "presence"
    BY <2>1 DEF Proceed, Say
  <2>6. \A i \in DOMAIN sent' : sent'[i].action \notin EndActions
    BY <2>5 DEF EndActions
  <2>7. context.jmi
    BY <1>0, <1>2, <1>5 DEF SidesAreKnown, OffersAreKept
  <2>8. \A o \in NewlyBegun : o[1] = context.sid /\ o[2] = "proceed"
    BY <2>4
  <2> QED BY <1>1, <1>2, <1>3, <1>5, <2>1, <2>4, <2>5, <2>6, <2>7, <2>8
         DEF Goes, GoesOn, TalkStates
<1> QED BY <1>4, <1>5

\* decline turns a caller away: it is clicked for no other call.
LEMMA DeclineGoes ==
    ASSUME Paired, SideInvariant, NEW head, head.action = "none", Decline
    PROVE  Goes(head)
<1>0. /\ CallInvariant /\ context \in CallRecord /\ SidesAreKnown /\ waiting = NoCall
      /\ context.incoming /\ context # NoCall => context.sid \in PeerSids
  BY SideFacts
<1>1. openings' = openings /\ Pop("decline")
  BY DEF Decline
<1>2. CASE context = NoCall
  <2>1. sent' = <<>> /\ context' = context /\ pendingOffer' = pendingOffer /\ answered' = answered
    BY <1>0, <1>2 DEF Decline, callVars, mediaVars
  <2> QED BY <1>1, <2>1, StaysGoes DEF EndActions
<1>3. CASE context # NoCall
  <2> DEFINE word == IF pendingOffer THEN "session-terminate" ELSE "reject"
  <2>1. /\ sent' = When(context.incoming /\ context.full # NoJid,
                        Say(context.full, word, context.sid))
        /\ FinishLocal("ended", window, toolbar)
    BY <1>0, <1>3 DEF Decline
  <2>2. /\ context' = IF Live(context) THEN [context EXCEPT !.state = "ended"] ELSE context
        /\ ~pendingOffer' /\ answered' = answered
    BY <1>0, <2>1 DEF FinishLocal
  <2>3. word \in EndActions
    BY DEF EndActions
  <2> HIDE DEF word
  <2>4. CASE Live(context)
    <3>1. context.incoming
      <4>1. idle \in Seq(Callbacks) /\ idle # <<>> /\ Head(idle).what = "decline"
        BY <1>0, <1>1 DEF CallInvariant, TypeOK, QueueTyped, Pop
      <4>2. 1 \in DOMAIN idle /\ idle[1].what = "decline"
        BY <4>1
      <4> QED BY <2>4, <4>2 DEF SideInvariant, DeclinesFit
    <3>2. context.full # NoJid
      BY <1>0, <1>3, <3>1, Constants DEF SidesAreKnown, OfItsSide
    <3>3. Ends(sent', context.sid)
      BY <2>1, <2>3, <3>1, <3>2, EndsWith DEF When
    <3> QED BY <1>1, <2>2, <2>4, <3>3 DEF Goes, Leaves, Terminal
  <2>5. CASE ~Live(context)
    <3>1. Alive = {}
      BY <2>5 DEF Alive
    <3> QED BY <1>1, <2>2, <2>5, <3>1, StaysGoes DEF EndActions
  <2> QED BY <2>4, <2>5
<1> QED BY <1>2, <1>3

\* A description is sent on; a session is offered only to who proceeded.
LEMMA DescriptionGoes ==
    ASSUME Paired, SideInvariant, NEW head, head.action = "none", LocalDescriptionReady
    PROVE  Goes(head)
<1>0. /\ CallInvariant /\ context \in CallRecord /\ pendingLocal \in Seq(Engines)
      /\ context.incoming /\ context # NoCall => context.sid \in PeerSids
  BY SideFacts DEF CallInvariant, TypeOK, MediaTyped
<1>1. context' = context /\ pendingOffer' = pendingOffer /\ answered' = answered
  BY DEF LocalDescriptionReady, callVars
<1>2. \A i \in DOMAIN sent' : sent'[i].action \notin EndActions
  <2> DEFINE opening == Carry(context.full, IF context.incoming THEN "session-accept"
                                            ELSE "session-initiate", context.sid, Source)
             rest == Candidates(pendingLocal)
  <2>1. sent' = <<>> \/ sent' = <<opening>> \o rest
    BY DEF LocalDescriptionReady
  <2>2. opening.action \notin EndActions
    BY DEF Carry, EndActions
  <2>3. /\ \A j \in DOMAIN rest : rest[j].action \notin EndActions
        /\ \E set : rest \in Seq(set)
    BY <1>0, CandidatesEndNothing
  <2> HIDE DEF opening, rest
  <2>4. sent' = <<opening>> \o rest =>
           \A j \in DOMAIN sent' : \/ sent'[j] = opening
                                   \/ \E k \in DOMAIN rest : sent'[j] = rest[k]
    BY <2>3
  <2> QED BY <2>1, <2>2, <2>3, <2>4
<1>3. head.action \notin EndActions \cup SessionActions \cup {"proceed"}
  BY DEF EndActions, SessionActions
<1>4. CASE openings' = openings
  BY <1>1, <1>2, <1>3, <1>4, StaysGoes
<1>5. CASE openings' # openings
  <2> DEFINE opening == <<context.sid, context.full, "session-initiate">>
  <2>1. ~context.incoming /\ context.full # NoJid /\ openings' = openings \cup {opening}
    BY <1>5 DEF LocalDescriptionReady
  <2>2. opening[1] = context.sid /\ opening[3] = "session-initiate"
    OBVIOUS
  <2> HIDE DEF opening
  <2>3. NewlyBegun \subseteq {<<context.sid, "session-initiate">>}
    BY <2>1, <2>2, OnlyBegun
  <2>4. <<context.sid, "proceed">> \in Begun(openings)
    BY <2>1 DEF SideInvariant, TalkIsBegun
  <2>5. \A o \in NewlyBegun : o[1] = context.sid /\ o[2] = "session-initiate"
    BY <2>3
  <2> QED BY <1>1, <1>2, <1>3, <2>4, <2>5 DEF Goes, GoesOn, Live
<1> QED BY <1>4, <1>5

\* What the queue brings.
LEMMA IdleGoes ==
    ASSUME Paired, SideInvariant, NEW head, head.action = "none", IdleStep
    PROVE  Goes(head)
<1>0. /\ CallInvariant /\ context \in CallRecord /\ SidesAreKnown /\ waiting = NoCall
      /\ idle \in Seq(Callbacks)
  BY SideFacts DEF CallInvariant, TypeOK, QueueTyped
<1>1. ~AcceptWaiting
  BY <1>0 DEF AcceptWaiting
<1>2. CASE AcceptNothing
  <2>1. /\ sent' = <<>> /\ context' = context /\ pendingOffer' = pendingOffer
        /\ answered' = answered /\ openings' = openings
    BY <1>2 DEF AcceptNothing, callVars, mediaVars
  <2> QED BY <2>1, StaysGoes DEF EndActions
<1>3. CASE HangupClicked \/ WindowClosed
  BY <1>0, <1>3, HangupGoes DEF HangupClicked, WindowClosed
<1>4. CASE LocalCandidateReady
  <2>1. /\ context' = context /\ pendingOffer' = pendingOffer /\ answered' = answered
        /\ openings' = openings
        /\ sent' = <<>> \/ sent' = Candidates(<<Source>>)
    BY <1>4 DEF LocalCandidateReady, callVars
  <2>2. sent' # <<>> => Source \in Engines
    <3> SUFFICES ASSUME sent' # <<>> PROVE Source \in Engines
      OBVIOUS
    <3> QED BY <1>4, ReadyIsCurrent DEF LocalCandidateReady, SideInvariant, ClientInvariant
  <2>3. \A i \in DOMAIN sent' : sent'[i].action \notin EndActions
    <3>1. CASE sent' = <<>>
      BY <3>1
    <3>2. CASE sent' # <<>>
      <4>1. <<Source>> \in Seq(Engines)
        BY <2>2, <3>2
      <4> QED BY <2>1, <3>2, <4>1, CandidatesEndNothing
    <3> QED BY <3>1, <3>2
  <2> QED BY <2>1, <2>3, StaysGoes DEF EndActions
<1>5. CASE MediaConnected
  <2>1. sent' = <<>> /\ pendingOffer' = pendingOffer /\ answered' = answered /\ openings' = openings
    BY <1>5 DEF MediaConnected, mediaVars
  <2>2. CASE context.state = "negotiating"
    <3>1. context' = [context EXCEPT !.state = "connected"]
      BY <1>5, <2>2 DEF MediaConnected, Live, LiveStates
    <3>2. /\ context'.sid = context.sid /\ context'.jmi = context.jmi
          /\ context'.incoming = context.incoming /\ context'.full = context.full
          /\ context'.state = "connected"
      BY <1>0, <3>1, Written
    <3>3. Live(context) /\ Live(context)'
      BY <2>2, <3>2 DEF Live, LiveStates
    <3>4. NewlyBegun = {}
      BY <2>1 DEF NewlyBegun
    <3>5. head.action \notin EndActions
      BY DEF EndActions
    <3>6. DOMAIN sent' = {}
      BY <2>1
    <3> QED BY <2>1, <2>2, <3>2, <3>3, <3>4, <3>5, <3>6 DEF Goes, GoesOn, TalkStates
  <2>3. CASE context.state # "negotiating"
    <3>1. context' = context
      BY <1>5, <2>3 DEF MediaConnected
    <3> QED BY <2>1, <3>1, StaysGoes DEF EndActions
  <2> QED BY <2>2, <2>3
<1>6. CASE MediaFailed
  <2>1. CASE Live(context)
    <3>1. /\ sent' = FailureStanzas /\ FinishLocal("failed", window, "start")
          /\ openings' = openings
      BY <1>6, <2>1 DEF MediaFailed
    <3>2. context' = [context EXCEPT !.state = "failed"] /\ answered' = answered
      BY <1>0, <2>1, <3>1 DEF FinishLocal
    <3>3. context.jmi => Ends(sent', context.sid)
      BY <1>0, <2>1, <3>1, FailureEnds
    <3> QED BY <3>1, <3>2, <3>3 DEF Goes, Leaves, Terminal
  <2>2. CASE ~Live(context)
    <3>1. /\ sent' = <<>> /\ context' = context /\ pendingOffer' = pendingOffer
          /\ answered' = answered /\ openings' = openings
      BY <1>6, <2>2 DEF MediaFailed, callVars, mediaVars
    <3> QED BY <3>1, StaysGoes DEF EndActions
  <2> QED BY <2>1, <2>2
<1> QED BY <1>1, <1>2, <1>3, <1>4, <1>5, <1>6, AcceptGoes, DeclineGoes, DescriptionGoes
    DEF IdleStep

\* The timeouts and the reports.
LEMMA TimerGoes ==
    ASSUME Paired, SideInvariant, NEW head, head.action = "none", TimerStep
    PROVE  Goes(head)
<1>0. CallInvariant /\ SidesAreKnown /\ waiting = NoCall
  BY SideFacts
<1>1. ~WaitingTimeout
  BY <1>0 DEF WaitingTimeout, CallInvariant, WaitingBehindActive
<1>2. PhaseTimeout /\ phaseTimer # NoTimer
  BY <1>1 DEF TimerStep, PhaseTimeout
<1>3. context.sid = phaseTimer.sid /\ context.state \in PhaseStates(phaseTimer.phase)
  BY <1>0, <1>2 DEF CallInvariant, TimerIsOfCurrentPhase
<1>4. Live(context)
  BY <1>3 DEF PhaseStates, Live, LiveStates
<1>5. FinishLocal("ended", window, "start") /\ openings' = openings
  BY <1>2, <1>3 DEF PhaseTimeout, networkVars
<1>6. context' = [context EXCEPT !.state = "ended"] /\ answered' = answered
  BY <1>0, <1>4, <1>5 DEF FinishLocal
<1>7. Ends(sent', context.sid)
  BY <1>0, <1>2, TimeoutEnds
<1> QED BY <1>5, <1>6, <1>7 DEF Goes, Leaves, Terminal

\* A report of an engine changes nothing yet.
LEMMA ReportGoes ==
    ASSUME NEW head, head.action = "none", NEW e, NEW what, EngineReports(e, what)
    PROVE  Goes(head) /\ context' = context /\ answered' = answered
<1>1. /\ sent' = <<>> /\ context' = context /\ pendingOffer' = pendingOffer
      /\ answered' = answered /\ openings' = openings
  BY DEF EngineReports, callVars, mediaVars, networkVars
<1> QED BY <1>1, StaysGoes DEF EndActions

\* A proposal brings a call that nothing was opened with.
LEMMA ProposalIsAlone ==
    ASSUME Paired, SideInvariant, NEW from \in Devices, NEW sid, Proposal(from, sid)
    PROVE  /\ sid \in PeerSids /\ sid \notin Alive /\ idle' = idle
           /\ <<sid, "propose">> \notin Begun(openings)
           /\ <<sid, "proceed">> \notin Begun(openings)
           /\ Live(context) => context.sid # sid
           /\ Opens(from, "propose", sid) => NewlyBegun \subseteq {<<sid, "propose">>}
<1>1. /\ sid \in PeerSids /\ <<sid, "propose">> \notin Begun(openings)
      /\ <<sid, "proceed">> \notin Begun(openings)
  BY SideFacts, ProposalBegins
<1>2. Live(context) => context.sid # sid
  BY <1>1, SideFacts
<1>3. ASSUME Opens(from, "propose", sid) PROVE NewlyBegun \subseteq {<<sid, "propose">>}
  <2> DEFINE opening == <<sid, from, "propose">>
  <2>1. openings' \subseteq openings \cup {opening}
    BY <1>3 DEF Opens
  <2>2. opening[1] = sid /\ opening[3] = "propose"
    OBVIOUS
  <2> HIDE DEF opening
  <2> QED BY <2>1, <2>2, OnlyBegun
<1> QED BY <1>1, <1>2, <1>3 DEF Alive, Proposal

\* A call that is migrated ends, in JMI, and the new one is proceeded with.
LEMMA MigrateGoes ==
    ASSUME Paired, SideInvariant, NEW from \in Devices, NEW sid \in Sids, MigrateCall(from, sid),
           NEW head, head.action = "propose", head.sid = sid
    PROVE  Goes(head)
<1> DEFINE first == When(context.full # NoJid /\ JingleStarted,
                         Say(context.full, "session-terminate", context.sid))
           finish == <<Say(Target(context), "finish", context.sid)>>
           third == Proceed(from, sid)
           both == first \o finish
<1>0. /\ CallInvariant /\ SidesAreKnown
      /\ sid \in PeerSids /\ idle' = idle
      /\ <<sid, "propose">> \notin Begun(openings)
      /\ <<sid, "proceed">> \notin Begun(openings)
      /\ Live(context) => context.sid # sid
  BY SideFacts, ProposalIsAlone DEF MigrateCall
<1>1. sent' = both \o third
  BY DEF MigrateCall
<1>2. Live(context) /\ context.state \in TalkStates
  BY DEF MigrateCall, Migrates, Live, LiveStates, TalkStates
<1>3. /\ context' = IncomingCall(sid, from, "negotiating", TRUE)
      /\ ~pendingOffer' /\ answered' = answered
  BY DEF MigrateCall
<1>4. /\ context'.sid = sid /\ context'.jmi /\ context'.incoming
      /\ context'.state = "negotiating" /\ Live(context)'
  BY <1>3 DEF IncomingCall, Live, LiveStates
<1> DEFINE words == {stanza \in Stanzas : stanza.action \in EndActions => stanza.sid # sid}
<1>5. first \in Seq(words) /\ finish \in Seq(words)
  <2> DEFINE one == Say(context.full, "session-terminate", context.sid)
             two == Say(Target(context), "finish", context.sid)
  <2>1. context.full # NoJid => one \in Stanzas
    BY <1>0, <1>2, LiveFacts, StanzaTypes
  <2>2. two \in Stanzas
    BY <1>0, <1>2, LiveFacts, StanzaTypes
  <2>3. one.sid # sid /\ two.sid # sid
    BY <1>0, <1>2 DEF Say
  <2> HIDE DEF one, two
  <2>4. (context.full # NoJid => one \in words) /\ two \in words
    BY <2>1, <2>2, <2>3
  <2>5. <<two>> \in Seq(words)
    BY <2>4
  <2> DEFINE condition == context.full # NoJid /\ JingleStarted
  <2>6. condition => <<one>> \in Seq(words)
    BY <2>4
  <2> HIDE DEF condition, words
  <2>7. <<>> \in Seq(words)
    OBVIOUS
  <2>8. When(condition, one) \in Seq(words)
    BY <2>6, <2>7 DEF When
  <2> QED BY <2>5, <2>8 DEF one, two, condition
<1>6. /\ third \in Seq(words) /\ Len(third) = 2
      /\ third[1].action = "proceed" /\ third[1].sid = sid
  <2> DEFINE one == Say(from, "proceed", sid)
             two == Say(from, "presence", sid)
  <2>1. one \in Stanzas /\ two \in Stanzas
    BY StanzaTypes
  <2>2. /\ one.action = "proceed" /\ one.sid = sid /\ two.action = "presence"
        /\ "proceed" \notin EndActions /\ "presence" \notin EndActions
    BY DEF Say, EndActions
  <2>3. third = <<one, two>>
    BY DEF Proceed
  <2> HIDE DEF one, two, third
  <2>4. one \in words /\ two \in words
    BY <2>1, <2>2
  <2> QED BY <2>2, <2>3, <2>4
<1>7. Ends(both, context.sid)
  <2>1. first \in Seq(Stanzas) /\ finish \in Seq(Stanzas)
    BY <1>5
  <2>2. Ends(finish, context.sid)
    BY EndsWith DEF EndActions
  <2> HIDE DEF first, finish
  <2> QED BY <2>1, <2>2, EndsWith
<1> HIDE DEF first, finish, third
<1>8. both \in Seq(words)
  BY <1>5, ConcatProperties
<1> HIDE DEF both
<1>9. sent' \in Seq(words) /\ both \in Seq(Stanzas) /\ third \in Seq(Stanzas)
  BY <1>1, <1>6, <1>8, ConcatProperties
<1>10. Ends(sent', context.sid)
  BY <1>1, <1>7, <1>9, EndsWith
<1>11. \A i \in DOMAIN sent' : sent'[i].action \in EndActions => sent'[i].sid # sid
  BY <1>9
<1>12. \E i \in DOMAIN sent' : sent'[i].action = "proceed" /\ sent'[i].sid = sid
  <2>1. Len(both) + 1 \in DOMAIN sent' /\ sent'[Len(both) + 1] = third[1]
    <3> HIDE DEF words
    <3>1. both \in Seq(words) /\ third \in Seq(words) /\ Len(both) \in Nat
      BY <1>6, <1>8
    <3> DEFINE k == Len(both) + 1
    <3>2. /\ Len(sent') = Len(both) + Len(third)
          /\ \A i \in 1 .. Len(both) + Len(third) :
                sent'[i] = IF i <= Len(both) THEN both[i] ELSE third[i - Len(both)]
      BY <1>1, <3>1, ConcatProperties
    <3>3. k \in 1 .. Len(both) + Len(third) /\ ~(k <= Len(both)) /\ k - Len(both) = 1
      BY <1>6, <3>1
    <3> QED BY <1>9, <3>2, <3>3
  <2> QED BY <1>6, <2>1
<1>13. /\ NewlyBegun \subseteq {<<sid, "propose">>, <<sid, "proceed">>}
       /\ <<sid, "proceed">> \in Begun(openings')
  <2> DEFINE one == <<sid, from, "propose">>
             two == <<sid, from, "proceed">>
  <2>1. openings' = openings \cup {one, two}
    BY DEF MigrateCall
  <2>2. one[1] = sid /\ one[3] = "propose" /\ two[1] = sid /\ two[3] = "proceed"
    OBVIOUS
  <2> HIDE DEF one, two
  <2> QED BY <2>1, <2>2 DEF NewlyBegun, Begun
<1> QED BY <1>0, <1>2, <1>3, <1>4, <1>10, <1>11, <1>12, <1>13 DEF Goes, Comes

\* What the other proposals do.
LEMMA ProposalGoes ==
    ASSUME Paired, SideInvariant, NEW from \in Devices, NEW sid \in Sids,
           NEW head, head.action = "propose", head.sid = sid,
           \/ RejectExtraProposal(from, sid) \/ WinTieBreak(from, sid)
           \/ LoseTieBreak(from, sid) \/ RingForProposal(from, sid)
    PROVE  Goes(head)
<1>0. /\ sid \in PeerSids /\ sid \notin Alive /\ idle' = idle
      /\ <<sid, "propose">> \notin Begun(openings)
      /\ <<sid, "proceed">> \notin Begun(openings)
      /\ Live(context) => context.sid # sid
      /\ NewlyBegun \subseteq {<<sid, "propose">>}
  <2>1. Proposal(from, sid) /\ Opens(from, "propose", sid)
    BY DEF RejectExtraProposal, WinTieBreak, LoseTieBreak, RingForProposal
  <2> QED BY <2>1, ProposalIsAlone
<1>1. CASE RejectExtraProposal(from, sid) \/ WinTieBreak(from, sid)
  <2>1. /\ sent' = <<Say(from, "reject", sid)>> /\ context' = context
        /\ pendingOffer' = pendingOffer /\ answered' = answered
    BY <1>1 DEF RejectExtraProposal, WinTieBreak, callVars, mediaVars
  <2>2. DOMAIN sent' = {1} /\ sent'[1].sid = sid /\ sent'[1].action = "reject"
    BY <2>1 DEF Say
  <2>3. Ends(sent', sid)
    BY <2>2 DEF Ends
  <2>4. \A o \in NewlyBegun : o[1] = sid /\ o[2] = "propose" /\ sid \in PeerSids
    BY <1>0
  <2>5. head.action \notin EndActions
    BY DEF EndActions
  <2> QED BY <1>0, <2>1, <2>2, <2>3, <2>4, <2>5 DEF Goes, GoesOn, Live
<1>2. CASE LoseTieBreak(from, sid) \/ RingForProposal(from, sid)
  <2>1. /\ context' = IncomingCall(sid, from, "ringing", TRUE) /\ answered' = answered
        /\ ~pendingOffer'
    <3>1. pendingOffer => Live(context)
      BY SideFacts
    <3>2. CASE LoseTieBreak(from, sid)
      BY <3>2 DEF LoseTieBreak, Ring
    <3>3. CASE RingForProposal(from, sid)
      BY <3>1, <3>3 DEF RingForProposal, Ring, mediaVars
    <3> QED BY <1>2, <3>2, <3>3
  <2>2. /\ context'.sid = sid /\ context'.jmi /\ context'.incoming
        /\ context'.state = "ringing" /\ Live(context)'
    BY <2>1 DEF IncomingCall, Live, LiveStates
  <2>3. CASE LoseTieBreak(from, sid)
    <3> DEFINE one == Say(context.peer, "retract", context.sid)
               two == Say(from, "ringing", sid)
    <3>1. sent' = <<one, two>> /\ Live(context)
      BY <2>3 DEF LoseTieBreak, Glare, Live, LiveStates
    <3>2. /\ one.sid = context.sid /\ one.action = "retract" /\ two.action = "ringing"
          /\ "ringing" \notin EndActions
      BY DEF Say, EndActions
    <3> HIDE DEF one, two
    <3>3. DOMAIN sent' = {1, 2} /\ sent'[1] = one /\ sent'[2] = two
      BY <3>1
    <3>4. /\ Ends(sent', context.sid)
          /\ \A i \in DOMAIN sent' : sent'[i].action \in EndActions => sent'[i].sid # sid
      BY <1>0, <3>1, <3>2, <3>3 DEF Ends
    <3> QED BY <1>0, <2>1, <2>2, <3>4 DEF Goes, Comes
  <2>4. CASE RingForProposal(from, sid)
    <3>1. sent' = <<Say(from, "ringing", sid)>> /\ ~Live(context)
      BY <2>4 DEF RingForProposal
    <3>2. \A i \in DOMAIN sent' : sent'[i].action \notin EndActions
      BY <3>1 DEF Say, EndActions
    <3> QED BY <1>0, <2>1, <2>2, <3>1, <3>2 DEF Goes, Comes
  <2> QED BY <1>2, <2>3, <2>4
<1> QED BY <1>1, <1>2

\* The contact answers a call of this side's.
LEMMA ProceedGoes ==
    ASSUME Paired, SideInvariant, NEW from \in Devices, NEW sid \in Sids,
           NEW head, head.action = "proceed", head.sid = sid,
           PeerProceeds(from, sid) \/ LateProceed(from, sid)
    PROVE  Goes(head)
<1>0. /\ context \in CallRecord /\ context # NoCall /\ context.sid = sid /\ ~context.incoming
      /\ CallInvariant /\ sid \in OwnSids /\ sid \notin PeerSids
  <2>1. context # NoCall /\ context.sid = sid /\ ~context.incoming
    BY DEF PeerProceeds, LateProceed, ForActiveCall, ForContext
  <2> QED BY <2>1, SideFacts, SidAssumption
<1>1. /\ sent' = <<>> /\ answered' = answered /\ pendingOffer' = pendingOffer
      /\ openings' = openings \cup {<<sid, from, "proceed">>}
  BY DEF PeerProceeds, LateProceed, StartMedia, Opens, mediaVars
<1>2. /\ context'.sid = sid /\ context'.jmi = context.jmi
      /\ context'.incoming = context.incoming /\ context'.full = from
      /\ IF CanTransition(context, "negotiating") THEN context'.state = "negotiating"
                                                  ELSE context'.state = context.state
  <2>1. CASE PeerProceeds(from, sid)
    BY <1>0, <2>1 DEF PeerProceeds, CallRecord
  <2>2. CASE LateProceed(from, sid)
    BY <1>0, <2>2 DEF LateProceed, CallRecord
  <2> QED BY <2>1, <2>2
<1>3. /\ context'.state \notin {"ringing", "proposing"}
      /\ Live(context)' <=> Live(context)
  <2>1. context.state # "ringing"
    BY <1>0 DEF CallInvariant, CallsWellFormed
  <2>2. context.state = "proposing" => CanTransition(context, "negotiating")
    BY DEF CanTransition, Allowed
  <2>3. CanTransition(context, "negotiating") => Live(context)
    BY <1>0 DEF CanTransition, Allowed, CallRecord, CallStates, Live, LiveStates, Terminal
  <2> QED BY <1>2, <2>1, <2>2, <2>3 DEF Live, LiveStates
<1>4. /\ NewlyBegun \subseteq {<<sid, "proceed">>}
      /\ <<sid, "proceed">> \in Begun(openings')
  <2> DEFINE opening == <<sid, from, "proceed">>
  <2>1. openings' = openings \cup {opening}
    BY <1>1
  <2>2. opening[1] = sid /\ opening[3] = "proceed"
    OBVIOUS
  <2> HIDE DEF opening
  <2> QED BY <2>1, <2>2, OnlyBegun DEF Begun
<1>5. \A o \in NewlyBegun : o[1] = sid /\ o[2] = "proceed"
  BY <1>4
<1>6. DOMAIN sent' = {} /\ head.action \notin EndActions
  BY <1>1 DEF EndActions
<1>7. \/ context'.state = context.state
      \/ /\ context'.state \in TalkStates
         /\ context.state \in {"proposing"} \cup TalkStates
  <2>1. context.state # "ringing"
    BY <1>0 DEF CallInvariant, CallsWellFormed
  <2> QED BY <1>0, <1>2, <2>1 DEF CanTransition, Allowed, CallRecord, CallStates, LiveStates,
             Terminal, TalkStates
<1> QED BY <1>0, <1>1, <1>2, <1>3, <1>4, <1>5, <1>6, <1>7 DEF Goes, GoesOn

\* What JMI brings.
LEMMA JmiGoes ==
    ASSUME Paired, SideInvariant, NEW head, NEW from \in Devices, head.sid \in Sids,
           JmiHandler(from, head.action, head.sid)
    PROVE  Goes(head) /\ waiting' = NoCall
<1> DEFINE sid == head.sid
           action == head.action
<1>0. /\ CallInvariant /\ SidesAreKnown /\ waiting = NoCall /\ context \in CallRecord
      /\ Live(context) => context # NoCall /\ Bare[from] = context.peer
      /\ pendingOffer => Live(context)
  BY SideFacts
<1>1. ~ProposalWaits(from, sid)
  <2> SUFFICES ASSUME ProposalWaits(from, sid) PROVE FALSE
    OBVIOUS
  <2>1. context.state = "connected" /\ ~Migrates(from)
    BY DEF ProposalWaits
  <2>2. context.jmi /\ Live(context)
    BY <2>1 DEF SideInvariant, StraightIsQuiet, TalkStates, Live, LiveStates
  <2> QED BY <1>0, <2>1, <2>2 DEF Migrates
<1>2. ~WaitingCallerGone(from, action, sid)
  BY <1>0 DEF WaitingCallerGone, ForWaiting
<1>3. CASE action = "propose" /\ MigrateCall(from, sid)
  BY <1>0, <1>3, MigrateGoes DEF MigrateCall
<1>4. CASE action = "propose" /\ (\/ RejectExtraProposal(from, sid) \/ WinTieBreak(from, sid)
                                  \/ LoseTieBreak(from, sid) \/ RingForProposal(from, sid))
  <2>1. waiting' = NoCall
    BY <1>0, <1>4 DEF RejectExtraProposal, WinTieBreak, LoseTieBreak, RingForProposal,
       NoWaiting, callVars
  <2> QED BY <1>4, <2>1, ProposalGoes
<1>5. CASE action = "ringing" /\ PeerRings(from, sid)
  <2>1. /\ sent' = <<>> /\ context' = context /\ pendingOffer' = pendingOffer
        /\ answered' = answered /\ openings' = openings /\ waiting' = waiting
    BY <1>5 DEF PeerRings, callVars, mediaVars
  <2> QED BY <1>0, <1>5, <2>1, StaysGoes DEF EndActions
<1>6. CASE action = "proceed" /\ (PeerProceeds(from, sid) \/ LateProceed(from, sid))
  BY <1>0, <1>6, ProceedGoes DEF PeerProceeds, LateProceed
<1>7. CASE PeerEndsByJmi(from, action, sid)
  <2>1. /\ context.sid = sid /\ Ending(action) /\ sent' = <<>> /\ openings' = openings
        /\ FinishLocal("ended", Enabled(window), "start")
    BY <1>7 DEF PeerEndsByJmi, ForActiveCall, ForContext
  <2>2. /\ context' = IF Live(context) THEN [context EXCEPT !.state = "ended"] ELSE context
        /\ ~pendingOffer' /\ answered' = answered /\ waiting' = NoCall
    BY <1>0, <2>1 DEF FinishLocal, NoWaiting
  <2>3. action \in EndActions /\ action # "proceed"
    BY <2>1 DEF Ending, EndActions
  <2>4. CASE Live(context)
    BY <2>1, <2>2, <2>3, <2>4 DEF Goes, Leaves, Terminal
  <2>5. CASE ~Live(context)
    <3>1. Alive = {}
      BY <2>5 DEF Alive
    <3> QED BY <2>1, <2>2, <2>3, <2>5, <3>1, StaysGoes
  <2> QED BY <2>2, <2>4, <2>5
<1> QED BY <1>1, <1>2, <1>3, <1>4, <1>5, <1>6, <1>7 DEF JmiHandler

\* A session is offered by the other end: to the call, to none, or besides another.
LEMMA OfferGoes ==
    ASSUME Paired, SideInvariant, NEW head, head.action = "session-initiate",
           NEW from \in Devices, head.sid \in Sids,
           \/ RejectExtraSession(from, head.sid) \/ SessionAfterEnd(from, head.sid)
           \/ RingForSession(from, head.sid) \/ SessionInitiated(from, head.sid)
    PROVE  Goes(head)
<1> DEFINE sid == head.sid
           opening == <<sid, from, "session-initiate">>
<1>0. /\ CallInvariant /\ waiting = NoCall /\ context \in CallRecord
      /\ Live(context) => context # NoCall
      /\ pendingOffer => Live(context)
      /\ context # NoCall /\ ~context.incoming => context.sid \in OwnSids
  BY SideFacts
<1>1. Claimed(from, "session-initiate", sid)
  BY DEF RejectExtraSession, SessionAfterEnd, RingForSession, SessionInitiated,
     ForActiveSession
<1>2. /\ openings' = openings \cup {opening}
      /\ sid \in PeerSids /\ sid \notin OwnSids
  BY <1>1, SidAssumption DEF Claimed, MaySendJingle
<1>3. /\ NewlyBegun \subseteq {<<sid, "session-initiate">>}
      /\ \A o \in NewlyBegun : o[1] = sid /\ o[2] = "session-initiate"
  <2>1. opening[1] = sid /\ opening[3] = "session-initiate"
    OBVIOUS
  <2> HIDE DEF opening
  <2>2. NewlyBegun \subseteq {<<sid, "session-initiate">>}
    BY <1>2, <2>1, OnlyBegun
  <2> QED BY <2>2
<1>4. head.action \notin EndActions \cup {"proceed"} /\ head.action \in SessionActions
  BY DEF EndActions, SessionActions
<1> HIDE DEF opening
<1>5. ASSUME context' = context, answered' = answered, pendingOffer' = pendingOffer,
             \A i \in DOMAIN sent' : sent'[i].action \in EndActions => sent'[i].sid \notin Alive
      PROVE  Goes(head)
  BY <1>2, <1>3, <1>4, <1>5 DEF Goes, GoesOn, Live
<1>6. \A i \in DOMAIN Ack(from, sid) : Ack(from, sid)[i].action \notin EndActions
  BY DEF Ack, Say, EndActions
<1>7. CASE RejectExtraSession(from, sid)
  <2> DEFINE one == Say(from, "result", sid)
             two == Say(from, "session-terminate", sid)
  <2>1. /\ sent' = <<one>> \o <<two>> /\ Live(context) /\ ~Owns(sid)
        /\ context' = context /\ answered' = answered /\ pendingOffer' = pendingOffer
    BY <1>7 DEF RejectExtraSession, Ack, callVars, mediaVars
  <2>2. one.sid = sid /\ two.sid = sid
    BY DEF Say
  <2>3. sid \notin Alive
    BY <2>1 DEF Owns, Alive
  <2> HIDE DEF one, two
  <2>4. \A i \in DOMAIN sent' : sent'[i] \in {one, two}
    BY <2>1
  <2> QED BY <1>5, <2>1, <2>2, <2>3, <2>4
<1>8. CASE SessionAfterEnd(from, sid)
  BY <1>5, <1>6, <1>8 DEF SessionAfterEnd, callVars, mediaVars
<1>9. CASE RingForSession(from, sid)
  <2>1. /\ ~Live(context) /\ context' = IncomingCall(sid, from, "ringing", FALSE)
        /\ sent' = Ack(from, sid) /\ answered' = answered
    BY <1>9 DEF RingForSession, Ring, mediaVars
  <2>2. context'.state = "ringing" /\ ~context'.jmi /\ context'.incoming /\ context'.sid = sid
    BY <2>1 DEF IncomingCall
  <2> QED BY <1>2, <1>3, <1>6, <2>1, <2>2 DEF Goes, RingsAlone
<1>10. CASE SessionInitiated(from, sid)
  <2>1. /\ Live(context) /\ context.sid = sid /\ sent' = Ack(from, sid)
        /\ context' = [context EXCEPT !.full = from]
        /\ answered' = answered \/ answered' = answered \cup {<<sid, from>>}
    <3>1. Owns(sid) /\ sent' = Ack(from, sid) /\ context' = [context EXCEPT !.full = from]
      BY <1>10 DEF SessionInitiated, ForActiveSession
    <3>2. answered' = answered \/ answered' = answered \cup {<<sid, from>>}
      BY <1>10 DEF SessionInitiated, StartMedia, mediaVars
    <3> QED BY <1>0, <3>1, <3>2 DEF Owns, ForWaiting
  <2>2. /\ context'.sid = sid /\ context'.jmi = context.jmi
        /\ context'.incoming = context.incoming /\ context'.state = context.state
        /\ Live(context)' /\ context.incoming
    <3>1. context.incoming
      BY <1>0, <1>2, <2>1
    <3>2. /\ context'.sid = context.sid /\ context'.jmi = context.jmi
          /\ context'.incoming = context.incoming /\ context'.state = context.state
      BY <1>0, <2>1, Written
    <3> QED BY <2>1, <3>1, <3>2 DEF Live
  <2>3. <<sid, from>>[1] = sid
    OBVIOUS
  <2>4. /\ answered \subseteq answered'
        /\ \A e \in answered' : e \in answered \/ e[1] = sid
    BY <2>1, <2>3
  <2>5. \A i \in DOMAIN sent' : sent'[i].action \notin EndActions
    BY <1>6, <2>1
  <2>6. Live(context) /\ context.sid = sid
    BY <2>1
  <2> QED BY <1>2, <1>3, <1>4, <2>2, <2>4, <2>5, <2>6 DEF Goes, GoesOn
<1> QED BY <1>7, <1>8, <1>9, <1>10

\* What Jingle brings; a session besides a call that has one of its own is not offered.
LEMMA JingleGoes ==
    ASSUME Paired, SideInvariant, NEW head, NEW from \in Devices, head.sid \in Sids,
           head.action = "session-initiate" =>
              \A sid \in Given \cup (Alive \ Asking) : head.sid = sid,
           JingleHandler(from, head.action, head.sid)
    PROVE  Goes(head) /\ waiting' = NoCall
<1> DEFINE sid == head.sid
           action == head.action
<1>0. /\ CallInvariant /\ waiting = NoCall /\ context \in CallRecord
      /\ Live(context) => context # NoCall
  BY SideFacts
<1>1. /\ ~WaitingCallerInitiates(from, sid) /\ ~WaitingCallerTrickles(from, sid)
      /\ ~WaitingCallerTerminates(from, sid)
  BY <1>0 DEF WaitingCallerInitiates, WaitingCallerTrickles, WaitingCallerTerminates, ForWaiting
<1>2. action = "session-initiate" => ~SessionWaits(from, sid)
  <2> SUFFICES ASSUME action = "session-initiate", SessionWaits(from, sid) PROVE FALSE
    OBVIOUS
  <2>1. context.state = "connected" /\ ~Owns(sid)
    BY DEF SessionWaits
  <2>2. Live(context) /\ context.jmi
    BY <2>1 DEF SideInvariant, StraightIsQuiet, TalkStates, Live, LiveStates
  <2>3. context.sid \in Alive \ Asking
    BY <2>1, <2>2 DEF Alive, Asking
  <2>4. sid = context.sid
    BY <2>3
  <2> QED BY <2>1, <2>2, <2>4 DEF Owns
<1>3. CASE action = "session-initiate"
           /\ (\/ RejectExtraSession(from, sid) \/ SessionAfterEnd(from, sid)
               \/ RingForSession(from, sid) \/ SessionInitiated(from, sid))
  <2>1. waiting' = NoCall
    BY <1>0, <1>3 DEF RejectExtraSession, SessionAfterEnd, RingForSession, SessionInitiated,
       callVars
  <2> QED BY <1>3, <2>1, OfferGoes
<1>4. \A i \in DOMAIN Ack(from, sid) : Ack(from, sid)[i].action \notin EndActions
  BY DEF Ack, Say, EndActions
<1>5. ASSUME NEW a, a # "session-initiate", ForActiveSession(from, a, sid)
      PROVE  /\ Live(context) /\ context.sid = sid /\ openings' = openings
             /\ sent' = Ack(from, sid)
             /\ a = "session-accept" => sid \in OwnSids
  BY <1>0, <1>5 DEF ForActiveSession, Owns, ForWaiting, Claimed, MaySendJingle
<1>6. CASE action = "session-accept" /\ SessionAccepted(from, sid)
  <2>1. /\ Live(context) /\ context.sid = sid /\ openings' = openings
        /\ sent' = Ack(from, sid)
    BY <1>5, <1>6 DEF SessionAccepted
  <2>2. /\ context' = context /\ pendingOffer' = pendingOffer /\ waiting' = NoCall
        /\ answered' = IF media = NoEngine THEN answered ELSE answered \cup {media}
    BY <1>0, <1>6 DEF SessionAccepted, callVars
  <2>3. media # NoEngine => media[1] = sid
    BY <1>0, <2>1 DEF CallInvariant, MediaBelongsToCall
  <2>4. action \notin EndActions \cup {"proceed"} /\ action \in SessionActions
    BY <1>6 DEF EndActions, SessionActions
  <2>5. NewlyBegun = {}
    BY <2>1 DEF NewlyBegun
  <2>6. /\ answered \subseteq answered'
        /\ \A e \in answered' : e \in answered \/ e[1] = sid
    BY <2>2, <2>3
  <2>7. \A i \in DOMAIN sent' : sent'[i].action \notin EndActions
    BY <1>4, <2>1
  <2> QED BY <1>6, <2>1, <2>2, <2>4, <2>5, <2>6, <2>7 DEF Goes, GoesOn, Live
<1>7. CASE action = "transport-info" /\ PeerTrickles(from, sid)
  <2>1. /\ sent' = Ack(from, sid) /\ openings' = openings
        /\ context' = context /\ pendingOffer' = pendingOffer /\ waiting' = NoCall
        /\ answered' = answered
    BY <1>0, <1>5, <1>7 DEF PeerTrickles, callVars
  <2>2. action \notin EndActions \cup {"proceed"}
    BY <1>7 DEF EndActions
  <2> QED BY <1>4, <2>1, <2>2, StaysGoes
<1>8. CASE action = "session-terminate" /\ PeerTerminates(from, sid)
  <2>1. /\ Live(context) /\ context.sid = sid /\ openings' = openings
        /\ FinishLocal("ended", Enabled(window), "start")
    BY <1>5, <1>8 DEF PeerTerminates
  <2>2. /\ context' = [context EXCEPT !.state = "ended"]
        /\ answered' = answered /\ waiting' = NoCall
    BY <1>0, <2>1 DEF FinishLocal, NoWaiting
  <2> QED BY <1>8, <2>1, <2>2 DEF Goes, Leaves, Terminal, EndActions
<1> QED BY <1>1, <1>2, <1>3, <1>6, <1>7, <1>8 DEF JingleHandler

\* A stanza that is left unclaimed is none that the call waits for.
LEMMA UnclaimedGoes ==
    ASSUME Paired, SideInvariant, NEW head, NEW from \in Devices, Unclaimed(from, head)
    PROVE  Goes(head) /\ waiting' = NoCall
<1>0. /\ CallInvariant /\ RoleInvariant /\ waiting = NoCall /\ context \in CallRecord
      /\ Live(context) => context # NoCall /\ Bare[from] = context.peer
  BY SideFacts
<1>1. /\ sent' = <<>> /\ openings' = openings /\ context' = context
      /\ pendingOffer' = pendingOffer /\ waiting' = NoCall /\ answered' = answered
      /\ ~Takes(from, head)
  BY <1>0 DEF Unclaimed, callVars, mediaVars, networkVars
<1>2. ~ForWaiting(head.sid)
  BY <1>0 DEF ForWaiting
<1>3. ASSUME Live(context), head.sid = context.sid, Ending(head.action) PROVE FALSE
  <2>1. head.action \in JmiActions /\ ForContext(head.sid) /\ JmiSenderAllowed(context, from)
    BY <1>0, <1>3 DEF Ending, JmiActions, ForContext, JmiSenderAllowed
  <2> QED BY <1>1, <1>2, <1>3, <2>1 DEF Takes, TakesJmi
<1>4. ASSUME Live(context), head.sid = context.sid, head.action = "session-terminate" PROVE FALSE
  <2>1. /\ Owns(head.sid) /\ ForContext(head.sid)
        /\ head.action \in JingleActions
    BY <1>0, <1>4 DEF Owns, ForContext, JingleActions
  <2>2. context.full \in {NoJid, from}
    BY <1>0 DEF CallRecord, Paired
  <2>3. JingleSenderAllowed(context, from, head.action)
    BY <1>0, <1>4, <2>2 DEF JingleSenderAllowed
  <2>4. AcceptsSender(from, head.action, head.sid)
    BY <1>2, <1>4, <2>1, <2>3 DEF AcceptsSender
  <2>5. TakesJingle(from, head.action, head.sid)
    BY <1>2, <2>1, <2>4 DEF TakesJingle
  <2> QED BY <1>1, <2>1, <2>5 DEF Takes
<1>5. ASSUME context.state = "proposing", head.sid = context.sid, head.action = "proceed"
      PROVE  FALSE
  <2>1. Live(context) /\ ~context.incoming
    BY <1>0, <1>5 DEF Live, LiveStates, RoleInvariant
  <2>2. head.action \in JmiActions /\ ForContext(head.sid) /\ JmiSenderAllowed(context, from)
    BY <1>0, <1>5, <2>1 DEF JmiActions, ForContext, JmiSenderAllowed
  <2> QED BY <1>1, <1>2, <1>5, <2>1, <2>2 DEF Takes, TakesJmi
<1>6. head.action \in EndActions => head.sid \notin Alive
  BY <1>3, <1>4 DEF Alive, EndActions, Ending
<1>7. DOMAIN sent' = {}
  BY <1>1
<1> QED BY <1>1, <1>5, <1>6, <1>7, StaysGoes

-----------------------------------------------------------------------------
(* A client keeps to its side of a call between two.                       *)

\* Nobody waits behind a call unless a proposal or a session comes.
LEMMA NobodyWaits ==
    ASSUME waiting = NoCall,
           \/ UserStep /\ attached'
           \/ IdleStep
           \/ TimerStep
           \/ \E e, what : EngineReports(e, what)
    PROVE  waiting' = NoCall
<1>1. Hangup => waiting' = NoCall
  BY DEF Hangup, FinishLocal, NoWaiting, callVars
<1>2. DeclineWaiting => waiting' = NoCall
  BY DEF DeclineWaiting, ClearWaiting, NoWaiting
<1>3. CASE UserStep /\ attached'
  BY <1>1, <1>3 DEF UserStep, StartOutgoing, ToolbarHangup, ClickAccept, ClickDecline,
     ClickHangup, CloseWindow, Click, Deactivate, callVars
<1>4. CASE IdleStep
  BY <1>1, <1>2, <1>4 DEF IdleStep, AcceptWaiting, AcceptRinging, AcceptNothing, Decline,
     HangupClicked, WindowClosed, LocalDescriptionReady, LocalCandidateReady, MediaConnected,
     MediaFailed, FinishLocal, NoWaiting, callVars
<1>5. CASE TimerStep
  BY <1>2, <1>5 DEF TimerStep, PhaseTimeout, WaitingTimeout, FinishLocal, NoWaiting, callVars
<1>6. CASE \E e, what : EngineReports(e, what)
  BY <1>6 DEF EngineReports, callVars
<1> QED BY <1>3, <1>4, <1>5, <1>6

\* A click on Decline that stays queued is for a call that rang, and so came in.
LEMMA DeclinesStillFit ==
    ASSUME Paired, SideInvariant, NEW head, Goes(head), Next
    PROVE  DeclinesFit'
<1>0. /\ idle \in Seq(Callbacks) /\ CallInvariant /\ waiting = NoCall /\ RoleInvariant
      /\ WindowIsOfCall /\ StaleButtonsAreHidden /\ DeclinesFit
  BY SideFacts DEF SideInvariant, PeerInvariant, CallInvariant, TypeOK, QueueTyped
<1> SUFFICES ASSUME NEW i \in DOMAIN idle', idle'[i].what = "decline",
                    ~context'.incoming, Live(context)'
             PROVE  FALSE
  BY DEF DeclinesFit
<1>1. CASE ClickDecline
  <2>1. window.visible /\ window.controls = "incoming" /\ context' = context
    BY <1>1 DEF ClickDecline, Click, callVars
  <2>2. Live(context) /\ context.state = "ringing"
    BY <1>0, <2>1 DEF WindowIsOfCall, StaleButtonsAreHidden
  <2>3. context # NoCall
    BY <2>2 DEF NoCall
  <2>4. context.incoming
    BY <1>0, <2>2, <2>3 DEF CallInvariant, CallsWellFormed, WellFormed
  <2> QED BY <2>1, <2>4
<1>2. CASE ~ClickDecline
  <2>1. PICK j \in DOMAIN idle : idle[j].what = "decline"
    BY <1>0, <1>2, DeclinesAreClicked
  <2>2. context.incoming \/ ~Live(context)
    BY <1>0, <2>1 DEF DeclinesFit
  <2>3. ~GoesOn(head)
    BY <2>2 DEF GoesOn
  <2>4. ~Leaves(head)
    <3> SUFFICES ASSUME NEW state \in Terminal, context' = [context EXCEPT !.state = state]
                 PROVE  FALSE
      BY DEF Leaves
    <3>1. context'.state = state
      BY SideFacts, Written
    <3> QED BY <3>1 DEF Terminal, Live, LiveStates
  <2>5. ~Comes(head)
    BY <2>1 DEF Comes
  <2>6. ~RingsAlone(head)
    BY DEF RingsAlone
  <2> QED BY <2>3, <2>4, <2>5, <2>6 DEF Goes
<1> QED BY <1>1, <1>2

\* A step of a client whose user waits for the last click to take effect.
OrderlyNext == (UserStep /\ NoClickQueued) \/ IdleStep \/ TimerStep \/ MediaStep \/ NetworkStep

\* What a step does to the queue, if a call is accepted or connects by that.
LEMMA QueueMoves ==
    ASSUME idle \in Seq(Callbacks), OrderlyNext
    PROVE  \/ idle' = idle
           \/ idle # <<>> /\ idle' = Tail(idle)
           \/ \E callback :
                 /\ idle' = Append(idle, callback)
                 /\ callback.what = "accept" => ClickAccept /\ NoClickQueued
                 /\ callback.what = "connected" =>
                       \E e : <<e, "connected">> \in reports' \ reports
<1>1. ASSUME NEW what, Pop(what) PROVE idle # <<>> /\ idle' = Tail(idle)
  BY <1>1 DEF Pop
<1>2. ASSUME NEW what, NEW source, Queue(what, source)
      PROVE  \E callback : idle' = Append(idle, callback) /\ callback.what = what
  <2> DEFINE callback == [what |-> what, source |-> source]
  <2>1. idle' = Append(idle, callback) /\ callback.what = what
    BY <1>2 DEF Queue
  <2> HIDE DEF callback
  <2> QED BY <2>1
<1>3. CASE UserStep /\ NoClickQueued
  <2>1. CASE ClickAccept
    <3>1. Queue("accept", <<Shown, NoJid>>)
      BY <2>1 DEF ClickAccept, Click
    <3> QED BY <1>2, <1>3, <2>1, <3>1
  <2>2. CASE ClickDecline \/ ClickHangup \/ CloseWindow
    <3>1. PICK what \in {"decline", "hangup", "close"} : Queue(what, <<Shown, NoJid>>)
      BY <2>2 DEF ClickDecline, ClickHangup, CloseWindow, Click
    <3> QED BY <1>2, <3>1
  <2>3. CASE ~(ClickDecline \/ ClickAccept \/ ClickHangup \/ CloseWindow)
    BY <1>3, <2>3 DEF UserStep, StartOutgoing, ToolbarHangup, Deactivate
  <2> QED BY <2>1, <2>2, <2>3
<1>4. CASE IdleStep
  <2>1. \E what : Pop(what)
    BY <1>4 DEF IdleStep, AcceptWaiting, AcceptRinging, AcceptNothing, Decline, HangupClicked,
       WindowClosed, LocalDescriptionReady, LocalCandidateReady, MediaConnected, MediaFailed
  <2> QED BY <1>1, <2>1
<1>5. CASE TimerStep
  BY <1>5 DEF TimerStep, PhaseTimeout, WaitingTimeout
<1>6. CASE MediaStep
  <2>1. PICK e \in Engines, what \in Reports :
           /\ Queue(what, e) /\ <<e, what>> \notin reports
           /\ reports' = reports \cup {<<e, what>>}
    BY <1>6 DEF MediaStep, EngineReports
  <2>2. what # "accept"
    BY DEF Reports, Outcomes
  <2> QED BY <1>2, <2>1, <2>2
<1>7. CASE NetworkStep
  <2> PICK from \in Devices, sid \in Sids : JmiStep(from, sid) \/ JingleStep(from, sid)
    BY <1>7 DEF NetworkStep
  <2>1. CASE JmiStep(from, sid)
    BY <2>1
       DEF JmiStep, MigrateCall, RejectExtraProposal, ProposalWaits, WinTieBreak, LoseTieBreak,
           RingForProposal, Proposal, WaitingCallerGone, PeerRings, PeerProceeds, LateProceed,
           PeerEndsByJmi, ForActiveCall
  <2>2. CASE JingleStep(from, sid)
    BY <2>2
       DEF JingleStep, WaitingCallerInitiates, WaitingCallerTrickles, WaitingCallerTerminates,
           RejectExtraSession, SessionWaits, SessionAfterEnd, RingForSession, SessionInitiated,
           SessionAccepted, PeerTrickles, PeerTerminates, ForActiveSession, Claimed
  <2> QED BY <2>1, <2>2
<1> QED BY <1>3, <1>4, <1>5, <1>6, <1>7 DEF OrderlyNext

\* A ringing call is accepted by the click at the head of the queue, behind which
\* nothing connects it.
LEMMA AcceptTakesClick ==
    ASSUME idle \in Seq(Callbacks), AcceptIsAlone, AcceptRinging
    PROVE  \A i \in DOMAIN idle' : idle'[i].what \notin {"accept", "connected"}
<1>1. idle # <<>> /\ Head(idle).what = "accept" /\ idle' = Tail(idle)
  BY DEF AcceptRinging, Pop
<1>2. 1 \in DOMAIN idle /\ idle[1].what = "accept"
  BY <1>1
<1>3. \A i \in DOMAIN idle' : i + 1 \in DOMAIN idle /\ i + 1 > 1 /\ idle'[i] = idle[i + 1]
  BY <1>1
<1> QED BY <1>2, <1>3 DEF AcceptIsAlone

\* Where the call can go while a click on Accept is queued.
LEMMA AcceptWaits ==
    ASSUME Paired, SideInvariant, NEW head, Goes(head), ~AcceptRinging,
           NEW i \in DOMAIN idle, idle[i].what = "accept"
    PROVE  context'.state \notin {"proposing"} \cup TalkStates
<1>1. context.state \notin {"proposing"} \cup TalkStates
  BY DEF SideInvariant, AcceptIsAlone
<1>2. CASE GoesOn(head)
  BY <1>1, <1>2 DEF GoesOn, TalkStates
<1>3. CASE Leaves(head)
  <2>1. PICK state \in Terminal : context' = [context EXCEPT !.state = state]
    BY <1>3 DEF Leaves
  <2>2. context'.state = state
    BY <2>1, SideFacts, Written
  <2> QED BY <2>2 DEF Terminal, TalkStates
<1>4. CASE Comes(head)
  BY <1>1, <1>4 DEF Comes, TalkStates
<1>5. CASE RingsAlone(head)
  BY <1>5 DEF RingsAlone, TalkStates
<1> QED BY <1>2, <1>3, <1>4, <1>5 DEF Goes

\* A click on Accept stays alone in the queue.
LEMMA AcceptStaysAlone ==
    ASSUME Paired, SideInvariant, NEW head, Goes(head), OrderlyNext,
           \A e : <<e, "connected">> \in reports' \ reports => context.state \in TalkStates
    PROVE  AcceptIsAlone'
<1>0. /\ idle \in Seq(Callbacks) /\ waiting = NoCall
      /\ WindowIsOfCall /\ StaleButtonsAreHidden /\ AcceptIsAlone
  BY SideFacts DEF SideInvariant, PeerInvariant, CallInvariant, TypeOK, QueueTyped
<1>1. CASE AcceptRinging
  BY <1>0, <1>1, AcceptTakesClick DEF AcceptIsAlone
<1>2. ASSUME ~AcceptRinging, NEW i \in DOMAIN idle, idle[i].what = "accept"
      PROVE  context'.state \notin {"proposing"} \cup TalkStates
  BY <1>2, AcceptWaits
<1>3. CASE ~AcceptRinging /\ idle' = idle
  BY <1>0, <1>2, <1>3 DEF AcceptIsAlone
<1>4. CASE ~AcceptRinging /\ idle # <<>> /\ idle' = Tail(idle)
  <2>1. \A i \in DOMAIN idle' : /\ i + 1 \in DOMAIN idle /\ idle'[i] = idle[i + 1] /\ i \in Nat
                                /\ \A j \in DOMAIN idle' : j > i => j + 1 > i + 1
    BY <1>0, <1>4
  <2> QED BY <1>0, <1>2, <1>4, <2>1 DEF AcceptIsAlone
<1>5. ASSUME ~AcceptRinging, NEW callback, idle' = Append(idle, callback),
             callback.what = "accept" => ClickAccept /\ NoClickQueued,
             callback.what = "connected" => \E e : <<e, "connected">> \in reports' \ reports
      PROVE  AcceptIsAlone'
  <2>1. \A i \in DOMAIN idle' : \/ i \in DOMAIN idle /\ idle'[i] = idle[i]
                                \/ /\ idle'[i] = callback /\ i \notin DOMAIN idle
                                   /\ \A j \in DOMAIN idle' : ~(j > i)
    BY <1>0, <1>5
  <2>2. ASSUME callback.what = "accept"
        PROVE  context'.state \notin {"proposing"} \cup TalkStates
    <3>1. window.visible /\ window.controls = "incoming" /\ context' = context
      BY <1>5, <2>2 DEF ClickAccept, Click, callVars
    <3>2. context.state = "ringing"
      BY <1>0, <3>1 DEF WindowIsOfCall, StaleButtonsAreHidden
    <3> QED BY <3>1, <3>2 DEF TalkStates
  <2>3. ASSUME NEW i \in DOMAIN idle, idle[i].what = "accept"
        PROVE  callback.what \notin {"accept", "connected"}
    <3>1. callback.what # "accept"
      BY <1>5, <2>3 DEF NoClickQueued, Clicks, ButtonClicks
    <3>2. callback.what # "connected"
      BY <1>0, <1>5, <2>3 DEF AcceptIsAlone
    <3> QED BY <3>1, <3>2
  <2> SUFFICES ASSUME NEW i \in DOMAIN idle', idle'[i].what = "accept"
               PROVE  /\ context'.state \notin {"proposing"} \cup TalkStates
                      /\ \A j \in DOMAIN idle' : j > i =>
                            idle'[j].what \notin {"accept", "connected"}
    BY DEF AcceptIsAlone
  <2>4. CASE i \in DOMAIN idle /\ idle'[i] = idle[i]
    <3>1. idle[i].what = "accept"
      BY <2>4
    <3> QED BY <1>0, <1>2, <1>5, <2>1, <2>3, <2>4, <3>1 DEF AcceptIsAlone
  <2>5. CASE idle'[i] = callback /\ \A j \in DOMAIN idle' : ~(j > i)
    BY <2>2, <2>5
  <2> QED BY <2>1, <2>4, <2>5
<1> QED BY <1>0, <1>1, <1>3, <1>4, <1>5, QueueMoves

\* A session that rang alone stays quiet.
LEMMA StraightStaysQuiet ==
    ASSUME Paired, SideInvariant, NEW head, Goes(head), OrderlyNext, Next,
           \A e : <<e, "connected">> \in reports' \ reports => context.jmi
    PROVE  StraightIsQuiet'
<1>0. /\ idle \in Seq(Callbacks) /\ context \in CallRecord /\ EngineInvariant /\ RoleInvariant
      /\ StraightIsQuiet /\ AcceptIsAlone /\ OneDevicePerContact
      /\ context # NoCall /\ ~context.incoming => context.jmi
  BY SideFacts DEF SideInvariant, ClientInvariant, CallInvariant, TypeOK, QueueTyped, Paired,
     OneDevicePerContact
<1> SUFFICES ASSUME context'.state \in TalkStates, ~context'.jmi
             PROVE  /\ context'.state = "negotiating"
                    /\ \A i \in DOMAIN idle' : idle'[i].what # "connected"
  BY DEF StraightIsQuiet
<1>1. ~Leaves(head)
  <2> SUFFICES ASSUME NEW state \in Terminal, context' = [context EXCEPT !.state = state]
               PROVE  FALSE
    BY DEF Leaves
  <2>1. context'.state = state
    BY <1>0, Written
  <2> QED BY <2>1 DEF Terminal, TalkStates
<1>2. GoesOn(head)
  BY <1>1 DEF Goes, Comes, RingsAlone, TalkStates
<1>3. ~context.jmi
  BY <1>2 DEF GoesOn
<1>4. context.state # "proposing"
  BY <1>0, <1>3 DEF RoleInvariant, NoCall
<1>5. CASE AcceptRinging
  <2>1. context'.state = "negotiating"
    BY <1>0, <1>5, Written DEF AcceptRinging
  <2> QED BY <1>0, <1>5, <2>1, AcceptTakesClick
<1>6. CASE ~AcceptRinging
  <2>1. context.state \in TalkStates
    BY <1>2, <1>4, <1>6 DEF GoesOn
  <2>2. context.state = "negotiating" /\ \A i \in DOMAIN idle : idle[i].what # "connected"
    BY <1>0, <1>3, <2>1 DEF StraightIsQuiet
  <2>3. ~MediaConnected
    <3> SUFFICES ASSUME MediaConnected PROVE FALSE
      OBVIOUS
    <3>1. idle # <<>> /\ Head(idle).what = "connected"
      BY DEF MediaConnected, Pop
    <3>2. 1 \in DOMAIN idle /\ idle[1] = Head(idle)
      BY <1>0, <3>1
    <3> QED BY <2>2, <3>1, <3>2
  <2>4. context'.state = "negotiating"
    <3>1. MediaGoes
      BY <1>0, NextMedia
    <3>2. context'.state # "connected"
      BY <2>2, <2>3, <3>1 DEF MediaGoes, MediaKept, MediaDropped, MediaOpened, MediaDescribed,
         SameCall
    <3> QED BY <3>2 DEF TalkStates
  <2>5. CASE idle' = idle
    BY <2>2, <2>4, <2>5
  <2>6. CASE idle # <<>> /\ idle' = Tail(idle)
    <3>1. \A i \in DOMAIN idle' : i + 1 \in DOMAIN idle /\ idle'[i] = idle[i + 1]
      BY <1>0, <2>6
    <3> QED BY <2>2, <2>4, <3>1
  <2>7. ASSUME NEW callback, idle' = Append(idle, callback),
               callback.what = "connected" => \E e : <<e, "connected">> \in reports' \ reports
        PROVE  \A i \in DOMAIN idle' : idle'[i].what # "connected"
    <3>1. \A i \in DOMAIN idle' : \/ i \in DOMAIN idle /\ idle'[i] = idle[i]
                                  \/ idle'[i] = callback
      BY <1>0, <2>7
    <3> QED BY <1>3, <2>2, <2>7, <3>1
  <2> QED BY <1>0, <2>4, <2>5, <2>6, <2>7, QueueMoves
<1> QED BY <1>5, <1>6

\* The side a step leaves.
LEMMA SideKept ==
    ASSUME Paired, SideInvariant, NEW head, Goes(head), OrderlyNext, SpeaksInRole,
           ClientInvariant', waiting' = NoCall, Begun(openings) \subseteq Begun(openings'),
           \A e : <<e, "connected">> \in reports' \ reports =>
              context.jmi /\ context.state \in TalkStates
    PROVE  SideInvariant' /\ SideMoves(head)
<1>1. ClientInvariant /\ CallInvariant /\ PeerInvariant /\ Next
  BY DEF SideInvariant, ClientInvariant, EngineInvariant, OrderlyNext, Next
<1>2. SessionWords
  BY <1>1, SessionsAreDescribed
<1>3. SideMoves(head) /\ TalkIsBegun' /\ OffersAreAnswers' /\ AnswersWereProposed'
  BY <1>2, GoesMoves
<1>4. PeerInvariant' /\ DeclinesFit' /\ StraightIsQuiet' /\ AcceptIsAlone'
  BY <1>1, NextPeer, DeclinesStillFit, StraightStaysQuiet, AcceptStaysAlone
<1> QED BY <1>3, <1>4 DEF SideInvariant

\* What the lemmas about the role take the contact to be.
LEMMA PairedIsSingle == Paired => OneDevicePerContact
BY DEF Paired, OneDevicePerContact

\* At first no side has any.
LEMMA SideInit == EndpointInit => SideInvariant /\ Alive = {} /\ Straight = {} /\ answered = {}
<1> SUFFICES ASSUME EndpointInit
             PROVE  SideInvariant /\ Alive = {} /\ Straight = {} /\ answered = {}
  OBVIOUS
<1>1. ClientInvariant /\ Begun(openings) = {}
  BY ClientInit
<1>2. /\ context = NoCall /\ waiting = NoCall /\ ~pendingOffer /\ ~waitingOffer
      /\ idle = <<>> /\ ~window.visible /\ answered = {}
  BY DEF EndpointInit, Init
<1>3. /\ ~Live(context) /\ context.state \notin {"ringing", "proposing", "connected"} \cup TalkStates
      /\ context.full = NoJid /\ DOMAIN idle = {}
  BY <1>2 DEF NoCall, Live, LiveStates, TalkStates
<1>4. PeerInvariant
  BY FirstPeer DEF EndpointInit
<1>5. /\ TalkIsBegun /\ OffersAreAnswers /\ AnswersWereProposed
      /\ DeclinesFit /\ StraightIsQuiet /\ AcceptIsAlone
  BY <1>1, <1>2, <1>3 DEF TalkIsBegun, OffersAreAnswers, AnswersWereProposed, DeclinesFit,
     StraightIsQuiet, AcceptIsAlone
<1> QED BY <1>1, <1>2, <1>3, <1>4, <1>5 DEF SideInvariant, Alive, Straight

\* A client that does nothing is as before.
LEMMA SideWaits == ASSUME SideInvariant, UNCHANGED vars PROVE SideInvariant'
<1>1. ClientInvariant' /\ PeerInvariant'
  BY ClientWaits, SamePeer DEF SideInvariant, vars
<1> QED BY <1>1 DEF SideInvariant, vars, callVars, mediaVars, networkVars, TalkIsBegun,
     OffersAreAnswers, AnswersWereProposed, DeclinesFit, StraightIsQuiet, AcceptIsAlone, Live

\* Only an engine's report is a new report.
LEMMA OthersReportNothing ==
    ASSUME UserStep \/ IdleStep \/ TimerStep \/ NetworkStep
    PROVE  reports' = reports
<1>1. CASE UserStep
  BY <1>1 DEF UserStep, StartOutgoing, ToolbarHangup, ClickAccept, ClickDecline, ClickHangup,
     CloseWindow, Click, Deactivate
<1>2. CASE IdleStep
  BY <1>2 DEF IdleStep, AcceptWaiting, AcceptRinging, AcceptNothing, Decline, HangupClicked,
     WindowClosed, LocalDescriptionReady, LocalCandidateReady, MediaConnected, MediaFailed, Pop
<1>3. CASE TimerStep
  BY <1>3 DEF TimerStep, PhaseTimeout, WaitingTimeout
<1>4. ASSUME NEW from \in Devices, NEW sid \in Sids, JmiStep(from, sid)
      PROVE  reports' = reports
  BY <1>4 DEF JmiStep, MigrateCall, RejectExtraProposal, ProposalWaits, WinTieBreak,
     LoseTieBreak, RingForProposal, Proposal, WaitingCallerGone, PeerRings, PeerProceeds,
     LateProceed, PeerEndsByJmi, ForActiveCall
<1>5. ASSUME NEW from \in Devices, NEW sid \in Sids, JingleStep(from, sid)
      PROVE  reports' = reports
  BY <1>5 DEF JingleStep, WaitingCallerInitiates, WaitingCallerTrickles,
     WaitingCallerTerminates, RejectExtraSession, SessionWaits, SessionAfterEnd,
     RingForSession, SessionInitiated, SessionAccepted, PeerTrickles, PeerTerminates,
     ForActiveSession, Claimed
<1> QED BY <1>1, <1>2, <1>3, <1>4, <1>5 DEF NetworkStep

\* An open engine is the live call's.
LEMMA OpenIsLive ==
    ASSUME SideInvariant, NEW e \in Engines, engines[e] = "open"
    PROVE  Live(context) /\ context.sid = e[1] /\ context.state \in TalkStates
<1>1. NoEngineLeaks /\ MediaBelongsToCall
  BY DEF SideInvariant, ClientInvariant, EngineInvariant, EnginesAreCurrent, CallInvariant
<1>2. e = media /\ media # NoEngine
  BY <1>1, Constants DEF NoEngineLeaks
<1> QED BY <1>1, <1>2 DEF MediaBelongsToCall, Live, LiveStates, TalkStates

\* Of its own accord a client does what the other end knows of.
LEMMA SideActs ==
    ASSUME Paired, SideInvariant,
           NEW reportable \in SUBSET (Engines \X Reports), Act(reportable),
           \A r \in reportable :
              r[2] = "connected" => engines[r[1]] = "open" /\ context.jmi,
           NEW head, head.action = "none"
    PROVE  SideInvariant' /\ SideMoves(head)
<1>1. ClientInvariant /\ StepInRole /\ waiting = NoCall
  BY ClientActs, PairedIsSingle DEF SideInvariant
<1>2. ClientInvariant' /\ Begun(openings) \subseteq Begun(openings') /\ SpeaksInRole
  BY <1>1 DEF StepInRole
<1>3. CASE UserStep /\ NoClickQueued /\ attached'
  <2>1. reports' = reports /\ OrderlyNext
    BY <1>3, OthersReportNothing DEF OrderlyNext
  <2>2. Goes(head) /\ waiting' = NoCall
    BY <1>1, <1>3, UserGoes, NobodyWaits
  <2> QED BY <1>2, <2>1, <2>2, SideKept
<1>4. CASE IdleStep
  <2>1. reports' = reports /\ OrderlyNext
    BY <1>4, OthersReportNothing DEF OrderlyNext
  <2>2. Goes(head) /\ waiting' = NoCall
    BY <1>1, <1>4, IdleGoes, NobodyWaits
  <2> QED BY <1>2, <2>1, <2>2, SideKept
<1>5. CASE TimerStep
  <2>1. reports' = reports /\ OrderlyNext
    BY <1>5, OthersReportNothing DEF OrderlyNext
  <2>2. Goes(head) /\ waiting' = NoCall
    BY <1>1, <1>5, TimerGoes, NobodyWaits
  <2> QED BY <1>2, <2>1, <2>2, SideKept
<1>6. ASSUME NEW r \in reportable, EngineReports(r[1], r[2])
      PROVE  SideInvariant' /\ SideMoves(head)
  <2>1. r[1] \in Engines /\ r[2] \in Reports
    OBVIOUS
  <2>2. OrderlyNext
    BY <1>6, <2>1 DEF OrderlyNext, MediaStep
  <2>3. Goes(head) /\ waiting' = NoCall
    BY <1>1, <1>6, ReportGoes, NobodyWaits
  <2>4. ASSUME NEW e, <<e, "connected">> \in reports' \ reports
        PROVE  context.jmi /\ context.state \in TalkStates
    <3>1. <<e, "connected">> = <<r[1], r[2]>>
      BY <1>6, <2>4 DEF EngineReports
    <3>2. r[2] = "connected"
      BY <3>1
    <3> QED BY <2>1, <3>2, OpenIsLive
  <2> QED BY <1>2, <2>2, <2>3, <2>4, SideKept
<1> QED BY <1>3, <1>4, <1>5, <1>6 DEF Act

\* And so it does when it takes a stanza.
LEMMA SideReceives ==
    ASSUME Paired, SideInvariant, NEW from \in Devices, Receive(from),
           Head(inbox).sid \in Sids,
           Head(inbox).action = "session-initiate" =>
              \A sid \in Given \cup (Alive \ Asking) : Head(inbox).sid = sid
    PROVE  SideInvariant' /\ SideMoves(Head(inbox))
<1> DEFINE stanza == Head(inbox)
<1>1. ClientInvariant /\ StepInRole /\ stanza.sid \in Sids
  BY ClientReceives, PairedIsSingle DEF SideInvariant
<1>2. ClientInvariant' /\ Begun(openings) \subseteq Begun(openings') /\ SpeaksInRole
  BY <1>1 DEF StepInRole
<1>3. Handler(from, stanza) \/ Unclaimed(from, stanza)
  BY DEF Receive
<1>4. stanza.action = "session-initiate" =>
         \A sid \in Given \cup (Alive \ Asking) : stanza.sid = sid
  OBVIOUS
<1> HIDE DEF stanza
<1>5. CASE Handler(from, stanza)
  <2>1. NetworkStep /\ OrderlyNext
    BY <1>1, <1>5, HandlerSteps DEF OrderlyNext, NetworkStep
  <2>2. reports' = reports
    BY <2>1, OthersReportNothing
  <2>3. Goes(stanza) /\ waiting' = NoCall
    BY <1>1, <1>4, <1>5, JmiGoes, JingleGoes DEF Handler
  <2>4. SideInvariant' /\ SideMoves(stanza)
    BY <1>2, <2>1, <2>2, <2>3, SideKept
  <2> QED BY <2>4 DEF stanza
<1>6. CASE Unclaimed(from, stanza)
  <2>1. Goes(stanza) /\ waiting' = NoCall
    BY <1>6, UnclaimedGoes
  <2>2. /\ UNCHANGED <<callVars, mediaVars, uiVars, networkVars, idle>> /\ sent' = <<>>
    BY <1>6 DEF Unclaimed
  <2>3. SessionWords
    BY <2>2 DEF SessionWords
  <2>4. SideMoves(stanza) /\ TalkIsBegun' /\ OffersAreAnswers' /\ AnswersWereProposed'
    BY <1>2, <2>1, <2>3, GoesMoves
  <2>5. PeerInvariant'
    BY <2>2, SamePeer DEF SideInvariant
  <2>6. DeclinesFit' /\ StraightIsQuiet' /\ AcceptIsAlone'
    BY <2>2 DEF SideInvariant, DeclinesFit, StraightIsQuiet, AcceptIsAlone, Live, callVars
  <2>7. SideInvariant' /\ SideMoves(stanza)
    BY <1>2, <2>1, <2>4, <2>5, <2>6 DEF SideInvariant
  <2> QED BY <2>7 DEF stanza
<1> QED BY <1>3, <1>5, <1>6

\* The other end's view of a client: see Accord of PartyProofs.
View == [begun |-> Begun(openings), alive |-> Alive, straight |-> Straight, asking |-> Asking,
         given |-> Given, answered |-> AnsweredSids]

\* Such a side has one live call, that it placed, or was proposed, and is heard of then.
LEMMA SideIsSound ==
    ASSUME Paired, SideInvariant
    PROVE  /\ \A sid \in Alive \cup Straight : <<sid, "propose">> \in Begun(openings)
           /\ Alive \subseteq OwnSids \cup PeerSids /\ Straight \subseteq PeerSids
           /\ Asking \subseteq Alive \cap OwnSids
           /\ Alive \cap Straight = {} /\ Given \subseteq Alive \cup Straight
           /\ \A s, t \in Alive \cup Straight : s = t
           /\ \A sid \in OwnSids : <<sid, "session-initiate">> \in Begun(openings) =>
                 <<sid, "proceed">> \in Begun(openings)
           /\ \A sid \in PeerSids : <<sid, "proceed">> \in Begun(openings) =>
                 <<sid, "propose">> \in Begun(openings)
<1>1. /\ RoleInvariant
      /\ Live(context) => /\ context # NoCall /\ context.sid \in Sids
                          /\ <<context.sid, "propose">> \in Begun(openings)
      /\ context.incoming /\ context # NoCall => context.sid \in PeerSids
      /\ context # NoCall /\ ~context.incoming => context.sid \in OwnSids /\ context.jmi
  BY SideFacts
<1>2. Asking \subseteq Alive \cap OwnSids
  <2>1. context.state = "proposing" => Live(context) /\ ~context.incoming
    BY <1>1 DEF RoleInvariant, Live, LiveStates
  <2> QED BY <1>1, <2>1 DEF Asking, Alive
<1>3. /\ Alive \subseteq OwnSids \cup PeerSids /\ Straight \subseteq PeerSids
      /\ Alive \cap Straight = {} /\ Given \subseteq Alive \cup Straight
      /\ \A s, t \in Alive \cup Straight : s = t
      /\ \A sid \in Alive \cup Straight : <<sid, "propose">> \in Begun(openings)
  BY <1>1 DEF Alive, Straight, Given, Sids
<1>4. OffersAreAnswers
  BY DEF SideInvariant
<1> QED BY <1>1, <1>2, <1>3, <1>4 DEF OffersAreAnswers, RoleInvariant, RingingIsNotAccepted, Paired

\* In which phase a side has a call, and what began for that.
LEMMA SidePhases ==
    ASSUME Paired, SideInvariant, NEW sid \in Sids, context.sid = sid => context.jmi
    PROVE  /\ sid \in Alive <=> Phase(sid) \in {"proposing", "ringing"} \cup TalkStates
           /\ sid \in Asking <=> Phase(sid) = "proposing"
           /\ Phase(sid) = "proposing" => sid \in OwnSids
           /\ Phase(sid) = "ringing" => sid \in PeerSids /\ <<sid, "proceed">> \notin Begun(openings)
           /\ Phase(sid) \in TalkStates =>
                 IF sid \in OwnSids THEN <<sid, "proceed">> \in Begun(openings)
                 ELSE \/ <<sid, "proceed">> \in Begun(openings)
                      \/ <<sid, "session-initiate">> \in Begun(openings)
<1>1. /\ CallInvariant /\ RoleInvariant /\ waiting = NoCall /\ context \in CallRecord
      /\ context.incoming /\ context # NoCall => context.sid \in PeerSids
      /\ context # NoCall /\ ~context.incoming => context.sid \in OwnSids
  BY SideFacts
<1>2. TalkIsBegun
  BY DEF SideInvariant
<1>3. ASSUME ~(context # NoCall /\ context.sid = sid)
      PROVE  Phase(sid) \notin {"proposing", "ringing"} \cup TalkStates /\ sid \notin Alive \cup Asking
  <2>1. ~ForWaiting(sid) /\ ~ForContext(sid)
    BY <1>1, <1>3 DEF ForWaiting, ForContext
  <2>2. sid \notin Alive \cup Asking
    BY <1>3 DEF Alive, Asking, Live, LiveStates, NoCall
  <2> QED BY <1>1, <1>3, <2>1, <2>2 DEF Phase, TalkStates
<1>4. CASE context # NoCall /\ context.sid = sid
  <2>1. context.state = "ringing" => context.incoming
    BY <1>1, <1>4 DEF CallInvariant, CallsWellFormed, WellFormed
  <2>2. context.state = "proposing" => ~context.incoming
    BY <1>1 DEF RoleInvariant
  <2>3. CASE Live(context)
    <3>1. Phase(sid) = context.state
      BY <1>4, <2>3 DEF Phase, ForContext
    <3>2. sid \in Alive <=> context.state \in {"proposing", "ringing"} \cup TalkStates
      BY <1>4, <2>3 DEF Alive, Live, LiveStates, TalkStates
    <3>3. sid \in Asking <=> context.state = "proposing"
      BY <1>4, <2>3 DEF Asking
    <3> QED BY <1>1, <1>2, <1>4, <2>1, <2>2, <3>1, <3>2, <3>3, SidAssumption DEF TalkIsBegun
  <2>4. CASE ~Live(context)
    <3>1. Phase(sid) = "none"
      BY <1>1, <2>4 DEF Phase, ForContext, ForWaiting
    <3>2. sid \notin Alive \cup Asking
      BY <2>4 DEF Alive, Asking, Live, LiveStates
    <3> QED BY <3>1, <3>2 DEF TalkStates
  <2> QED BY <2>3, <2>4
<1> QED BY <1>3, <1>4
=============================================================================
