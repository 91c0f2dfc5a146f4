--------------------------- MODULE CallSignalling ---------------------------
(***************************************************************************)
(* The pure rules the call controller is built from: the call record and   *)
(* its legal state transitions (state.py), who may speak for a call        *)
(* (peer_validation.py), which Jingle stanzas the plugin may consume       *)
(* (incoming.py), and what a phase timeout sends (timeout_policy.py).      *)
(*                                                                         *)
(* A full JID is a member of Devices, a bare JID a member of Peers, and    *)
(* Bare maps the one to the other.  A session id is a number, because the  *)
(* JMI tie-break orders them.  One Gajim account is modelled.  Reasons,    *)
(* initiator/responder attributes and SDP are left out of the stanzas; a   *)
(* description or a candidate is named by the media engine it came from.   *)
(***************************************************************************)
EXTENDS Naturals, Sequences

CONSTANTS
    Peers,      \* bare JIDs of the contacts
    Devices,    \* their full JIDs
    Bare,       \* the bare JID of each full JID
    OwnSids,    \* session ids this client draws for its calls (uuid4)
    PeerSids,   \* session ids the contacts draw for theirs
    Party,      \* the contact at the other end of each session id
    Direct,     \* session ids of callers that do not speak XEP-0353
    NoJid       \* Python's None where a JID is expected

Sids == OwnSids \cup PeerSids
NoSid == 0

ASSUME JidAssumption == /\ Bare \in [Devices -> Peers]
                        /\ NoJid \notin Devices \cup Peers
ASSUME SidAssumption == /\ OwnSids \subseteq Nat \ {NoSid}
                        /\ PeerSids \subseteq Nat \ {NoSid}
                        /\ OwnSids \cap PeerSids = {}
                        /\ Party \in [Sids -> Peers]
                        /\ Direct \subseteq PeerSids

-----------------------------------------------------------------------------
(* The call context.  IDLE lasts only inside the constructor calls and     *)
(* nothing enters ENDING, so neither is a state a handler can meet; "none" *)
(* stands for a context that is None.                                      *)

Terminal == {"ended", "failed"}
LiveStates == {"proposing", "ringing", "negotiating", "connected"}
CallStates == LiveStates \cup Terminal \cup {"none"}

CallRecord == [sid: Sids \cup {NoSid}, peer: Peers \cup {NoJid},
               full: Devices \cup {NoJid}, incoming: BOOLEAN,
               state: CallStates, jmi: BOOLEAN]

NoCall == [sid |-> NoSid, peer |-> NoJid, full |-> NoJid,
           incoming |-> FALSE, state |-> "none", jmi |-> FALSE]

\* Mutant: the full JID of a new call is set to the bare one.
OutgoingCallToBare(sid) ==
    [sid |-> sid, peer |-> Party[sid], full |-> Party[sid],
     incoming |-> FALSE, state |-> "proposing", jmi |-> TRUE]

OutgoingCall(sid) ==
    [sid |-> sid, peer |-> Party[sid], full |-> NoJid,
     incoming |-> FALSE, state |-> "proposing", jmi |-> TRUE]

IncomingCall(sid, from, state, jmi) ==
    [sid |-> sid, peer |-> Bare[from], full |-> from,
     incoming |-> TRUE, state |-> state, jmi |-> jmi]

Live(call) == call.state \in LiveStates

\* `context.peer_full or context.peer_bare`
Target(call) == IF call.full # NoJid THEN call.full ELSE call.peer

Allowed(state) ==
    CASE state = "proposing"   -> {"negotiating", "ended", "failed"}
      [] state = "ringing"     -> {"negotiating", "ended", "failed"}
      [] state = "negotiating" -> {"connected", "ended", "failed"}
      [] state = "connected"   -> {"ended", "failed"}
      [] state = "failed"      -> {"ended"}
      [] OTHER                 -> {}

\* Mutant: a state may be entered again from anywhere.
CanTransitionAlways(call, new) == call.sid # NoSid /\ new \in CallStates

\* False where CallContext.transition raises InvalidTransition.
CanTransition(call, new) == new = call.state \/ new \in Allowed(call.state)

-----------------------------------------------------------------------------
(* Who may speak for a call.                                               *)

JmiSenderAllowed(call, sender) == Bare[sender] = call.peer

JingleSenderAllowed(call, sender, action) ==
    /\ Bare[sender] = call.peer
    /\ \/ action = "session-initiate" /\ call.incoming
       \/ call.full \in {NoJid, sender}

-----------------------------------------------------------------------------
(* A media engine is named by the call and the device it was started for:  *)
(* a device opens media for a session id at most once.                     *)

Engines == Sids \X Devices
NoEngine == <<NoSid, NoJid>>

(* Stanzas.  `media` names the engine whose description or candidate a     *)
(* Jingle stanza carries.                                                  *)

JmiActions == {"propose", "ringing", "proceed", "reject", "retract", "finish"}
JingleActions == {"session-initiate", "session-accept", "transport-info",
                  "session-terminate"}

Stanzas == [to: Devices \cup Peers,
            action: JmiActions \cup JingleActions \cup {"result", "presence"},
            sid: Sids, media: Engines \cup {NoEngine}]

Say(to, action, sid) ==
    [to |-> to, action |-> action, sid |-> sid, media |-> NoEngine]

Carry(to, action, sid, engine) ==
    [to |-> to, action |-> action, sid |-> sid, media |-> engine]

\* send_jmi follows a proceed with a directed presence.
Proceed(to, sid) == <<Say(to, "proceed", sid), Say(to, "presence", sid)>>

When(condition, stanza) == IF condition THEN <<stanza>> ELSE <<>>

-----------------------------------------------------------------------------
(* plan_timeout: "none" where jmi_action is None.                          *)

TimeoutPhases == {"ringing", "negotiating"}

\* Mutant: the two sides' words for a call that was not answered are swapped.
PlanTimeoutSwapped(phase, incoming, usesJmi, jingleStarted) ==
    IF phase = "ringing" /\ usesJmi
      THEN [jmi |-> IF incoming THEN "retract" ELSE "reject",
            terminate |-> FALSE]
      ELSE [jmi |-> IF usesJmi THEN "finish" ELSE "none",
            terminate |-> jingleStarted]

PlanTimeout(phase, incoming, usesJmi, jingleStarted) ==
    IF phase = "ringing" /\ usesJmi
      THEN [jmi |-> IF incoming THEN "reject" ELSE "retract",
            terminate |-> FALSE]
      ELSE [jmi |-> IF usesJmi THEN "finish" ELSE "none",
            terminate |-> jingleStarted]
=============================================================================
