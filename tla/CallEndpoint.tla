---------------------------- MODULE CallEndpoint ----------------------------
(***************************************************************************)
(* One client as the network sees it: the call controller with the stanzas *)
(* on their way to it, which it handles in the order they were sent.       *)
(***************************************************************************)
EXTENDS CallProperties

VARIABLE inbox  \* stanzas on their way to this client

endpointVars == <<vars, inbox>>

JmiHandler(from, action, sid) ==
    \/ /\ action = "propose"
       /\ \/ MigrateCall(from, sid)
          \/ RejectExtraProposal(from, sid)
          \/ ProposalWaits(from, sid)
          \/ WinTieBreak(from, sid)
          \/ LoseTieBreak(from, sid)
          \/ RingForProposal(from, sid)
    \/ action = "ringing" /\ PeerRings(from, sid)
    \/ action = "proceed" /\ (PeerProceeds(from, sid) \/ LateProceed(from, sid))
    \/ WaitingCallerGone(from, action, sid)
    \/ PeerEndsByJmi(from, action, sid)

JingleHandler(from, action, sid) ==
    \/ /\ action = "session-initiate"
       /\ \/ WaitingCallerInitiates(from, sid)
          \/ RejectExtraSession(from, sid)
          \/ SessionWaits(from, sid)
          \/ SessionAfterEnd(from, sid)
          \/ RingForSession(from, sid)
          \/ SessionInitiated(from, sid)
    \/ action = "session-accept" /\ SessionAccepted(from, sid)
    \/ /\ action = "transport-info"
       /\ WaitingCallerTrickles(from, sid) \/ PeerTrickles(from, sid)
    \/ /\ action = "session-terminate"
       /\ WaitingCallerTerminates(from, sid) \/ PeerTerminates(from, sid)

\* _on_jmi and _on_jingle_iq
Handler(from, stanza) ==
    \/ stanza.action \in JmiActions /\ JmiHandler(from, stanza.action, stanza.sid)
    \/ stanza.action \in JingleActions /\ JingleHandler(from, stanza.action, stanza.sid)

\* Which JMI messages change something: every proposal, and those for the call or
\* the waiting caller that fit its state.
TakesJmi(from, action, sid) ==
    \/ action = "propose"
    \/ ForWaiting(sid) /\ JmiSenderAllowed(waiting, from) /\ Ending(action)
    \/ /\ ForContext(sid) /\ JmiSenderAllowed(context, from) /\ ~ForWaiting(sid)
       /\ \/ Ending(action)
          \/ action = "ringing" /\ context.state = "proposing"
          \/ action = "proceed" /\ ~context.incoming

\* Which Jingle IQs do: those the gate lets through, but nobody accepts a session
\* that is offered to this side.
TakesJingle(from, action, sid) ==
    IF Owns(sid) THEN /\ AcceptsSender(from, action, sid)
                      /\ action = "session-accept" => ~ForWaiting(sid)
    ELSE action = "session-initiate"

Takes(from, stanza) ==
    \/ stanza.action \in JmiActions /\ TakesJmi(from, stanza.action, stanza.sid)
    \/ stanza.action \in JingleActions /\ TakesJingle(from, stanza.action, stanza.sid)

\* Any other stanza is left to the rest of Gajim.
Unclaimed(from, stanza) ==
    /\ MayOvertake
    /\ ~Takes(from, stanza)
    /\ sent' = <<>>
    /\ UNCHANGED <<callVars, mediaVars, timerVars, uiVars, networkVars, idle, reports>>

\* The next stanza arrives: nothing else takes one from the inbox.
Arrives == inbox # <<>> /\ MayOvertake /\ inbox' = Tail(inbox)

\* It was sent by the device `from`.
Receive(from) ==
    /\ Arrives
    /\ Handler(from, Head(inbox)) \/ Unclaimed(from, Head(inbox))

\* What a client does of its own accord.  Two bounds: a user waits for the last
\* click to take effect, and nobody deactivates the plugin, which leaves the peer
\* to its timeouts.
Act(reportable) ==
    /\ \/ UserStep /\ NoClickQueued /\ attached'
       \/ IdleStep
       \/ TimerStep
       \/ \E report \in reportable : EngineReports(report[1], report[2])
    /\ UNCHANGED inbox

EndpointInit == Init /\ inbox = <<>>
=============================================================================
