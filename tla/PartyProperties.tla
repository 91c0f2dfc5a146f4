-------------------------- MODULE PartyProperties --------------------------
(***************************************************************************)
(* What two clients that run this plugin promise each other.               *)
(***************************************************************************)
EXTENDS TwoParty

\* MaySendJmi and MaySendJingle are all CallController assumes of a contact, and
\* a client that runs this plugin keeps to them: whatever the users do and however
\* late stanzas arrive, none comes that the other controller's model leaves out.
RolesAreKept ==
    /\ inbox # <<>> /\ Here!MayOvertake =>
         LET stanza == Head(inbox) IN
         IF stanza.action \in Here!JmiActions
           THEN Here!MaySendJmi(contactDevice, stanza.action, stanza.sid)
           ELSE Here!MaySendJingle(contactDevice, stanza.action, stanza.sid)
    /\ thereInbox # <<>> /\ There!MayOvertake =>
         LET stanza == Head(thereInbox) IN
         IF stanza.action \in There!JmiActions
           THEN There!MaySendJmi(selfDevice, stanza.action, stanza.sid)
           ELSE There!MaySendJingle(selfDevice, stanza.action, stanza.sid)

-----------------------------------------------------------------------------
\* Nothing is on its way, from either client or from a window to its controller.
Quiet == inbox = <<>> /\ thereInbox = <<>> /\ idle = <<>> /\ thereIdle = <<>>

Talking == {"negotiating", "connected"}

\* A client remembers the last call only, so a session-initiate that was on its
\* way while its call was hung up and another one placed rings as a direct call.
Belated(sid) == \/ context.sid = sid /\ ~context.jmi
                \/ thereContext.sid = sid /\ ~thereContext.jmi

Agree(sid) ==
    /\ Here!Phase(sid) \in Talking <=> There!Phase(sid) \in Talking
    /\ Here!Phase(sid) = "proposing" <=> There!Phase(sid) = "ringing"
    /\ Here!Phase(sid) = "ringing" <=> There!Phase(sid) = "proposing"

\* Once every stanza has arrived the two sides agree on the call: a side that
\* proposes is ringing at the other, a side that negotiates or is connected has
\* the other in the same session, and both agree which session that is, also
\* when both had proposed at once or one cancelled while the other accepted.
SidesAgree == Quiet => \A sid \in Sids : Agree(sid) \/ Belated(sid)

-----------------------------------------------------------------------------
\* Stanzas that were sent arrive, and on both sides GLib runs the callbacks that
\* stay queued and the timeouts that stay armed.
FairParties ==
    /\ PartiesSpec
    /\ WF_inbox(Here!Arrives)
    /\ WF_thereInbox(There!Arrives)
    /\ WF_idle(Here!IdleStep) /\ WF_thereIdle(There!IdleStep)
    /\ WF_phaseTimer(Here!PhaseTimeout) /\ WF_therePhaseTimer(There!PhaseTimeout)

\* The sides come to agree again whatever happened, also about a belated session:
\* nobody stays in a call, or keeps ringing for one, that the other side has left.
SidesComeToAgree == \A sid \in Sids : ~Agree(sid) ~> Agree(sid)
=============================================================================
