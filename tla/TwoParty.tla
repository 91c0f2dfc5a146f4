------------------------------ MODULE TwoParty ------------------------------
(***************************************************************************)
(* A call between two clients, Here and There, that both run this plugin.  *)
(* The stanzas one sends reach the other in order, as XMPP has it, at any  *)
(* later time.  Acknowledgements and presence change nothing at the        *)
(* receiver and are not put on the wire.                                   *)
(***************************************************************************)
EXTENDS Naturals, Sequences, FiniteSets

CONSTANTS
    self, selfDevice,        \* bare and full JID of the one client
    contact, contactDevice,  \* and of the other
    OwnSids,                 \* session ids the one draws
    PeerSids,                \* and the other
    NoJid,
    MaxIdle, StaleReports,   \* as in CallController
    Reported                 \* bound: the kinds of report engines make

ASSUME PartiesAssumption ==
    /\ NoJid \notin {self, selfDevice, contact, contactDevice}
    /\ OwnSids \cap PeerSids = {} /\ OwnSids \cup PeerSids \subseteq Nat \ {0}
    /\ MaxIdle \in Nat /\ StaleReports \in BOOLEAN

VARIABLES
    context, waiting, pendingOffer, waitingOffer, media, localDescription,
    pendingLocal, early, phaseTimer, waitTimer, alert, window, toolbar, idle,
    sent, attached, engines, answered, reports, openings, inbox

VARIABLES
    thereContext, thereWaiting, therePendingOffer, thereWaitingOffer, thereMedia,
    thereLocalDescription, therePendingLocal, thereEarly, therePhaseTimer,
    thereWaitTimer, thereAlert, thereWindow, thereToolbar, thereIdle, thereSent,
    thereAttached, thereEngines, thereAnswered, thereReports, thereOpenings,
    thereInbox

Sids == OwnSids \cup PeerSids

\* The one client, whose contacts are the other: a CallEndpoint, with the lemmas about
\* one that the proofs about two cite.
Here == INSTANCE CallPeerProofs WITH
    Peers <- {contact}, Devices <- {contactDevice}, Direct <- {},
    Bare <- [d \in {contactDevice} |-> contact], Party <- [s \in Sids |-> contact]

\* The other, with variables of its own.
There == INSTANCE CallPeerProofs WITH
    Peers <- {self}, Devices <- {selfDevice}, Direct <- {},
    Bare <- [d \in {selfDevice} |-> self], Party <- [s \in Sids |-> self],
    OwnSids <- PeerSids, PeerSids <- OwnSids,
    context <- thereContext, waiting <- thereWaiting,
    pendingOffer <- therePendingOffer, waitingOffer <- thereWaitingOffer,
    media <- thereMedia, localDescription <- thereLocalDescription,
    pendingLocal <- therePendingLocal, early <- thereEarly,
    phaseTimer <- therePhaseTimer, waitTimer <- thereWaitTimer,
    alert <- thereAlert, window <- thereWindow, toolbar <- thereToolbar,
    idle <- thereIdle, sent <- thereSent, attached <- thereAttached,
    engines <- thereEngines, answered <- thereAnswered,
    reports <- thereReports, openings <- thereOpenings, inbox <- thereInbox

hereVars ==
    <<context, waiting, pendingOffer, waitingOffer, media, localDescription,
      pendingLocal, early, phaseTimer, waitTimer, alert, window, toolbar, idle,
      sent, attached, engines, answered, reports, openings>>

thereVars ==
    <<thereContext, thereWaiting, therePendingOffer, thereWaitingOffer, thereMedia,
      thereLocalDescription, therePendingLocal, thereEarly, therePhaseTimer,
      thereWaitTimer, thereAlert, thereWindow, thereToolbar, thereIdle, thereSent,
      thereAttached, thereEngines, thereAnswered, thereReports, thereOpenings>>

bothVars == <<hereVars, thereVars, inbox, thereInbox>>

PartiesInit == Here!EndpointInit /\ There!EndpointInit

-----------------------------------------------------------------------------
\* The stanzas that count, and those of them that come before the i-th stanza.
Counting(stanzas) ==
    {i \in DOMAIN stanzas : stanzas[i].action \notin {"result", "presence"}}
Before(stanzas, i) == {j \in Counting(stanzas) : j < i}

OnTheWire(stanzas) ==
    [k \in 1..Cardinality(Counting(stanzas)) |->
       stanzas[CHOOSE i \in Counting(stanzas) : Cardinality(Before(stanzas, i)) = k - 1]]

ToThere == thereInbox' = thereInbox \o OnTheWire(sent')
ToHere == inbox' = inbox \o OnTheWire(thereSent')

\* Each client has an engine that was given the other's description.
Joined(sid) ==
    /\ engines[<<sid, contactDevice>>] = "open"
    /\ <<sid, contactDevice>> \in answered
    /\ thereEngines[<<sid, selfDevice>>] = "open"
    /\ <<sid, selfDevice>> \in thereAnswered

\* Engines connect to each other only.
CanReport(e, what) == what \in Reported /\ (what = "connected" => Joined(e[1]))

HereActs ==
    /\ Here!Act({r \in Here!Engines \X Here!Reports : CanReport(r[1], r[2])})
    /\ ToThere
    /\ UNCHANGED thereVars

ThereActs ==
    /\ There!Act({r \in There!Engines \X There!Reports : CanReport(r[1], r[2])})
    /\ ToHere
    /\ UNCHANGED hereVars

\* The one takes the other's next stanza, and sends what it has to answer.
HereReceives == Here!Receive(contactDevice) /\ ToThere /\ UNCHANGED thereVars

ThereReceives == There!Receive(selfDevice) /\ ToHere /\ UNCHANGED hereVars

PartiesNext == HereActs \/ ThereActs \/ HereReceives \/ ThereReceives

PartiesSpec == PartiesInit /\ [][PartiesNext]_bothVars
=============================================================================
