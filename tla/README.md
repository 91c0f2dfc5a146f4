# Formal models of the GajimVC call plugin

The plugin adds calls to the XMPP client Gajim: XEP-0353 (JMI) proposals,
XEP-0166 Jingle sessions, GStreamer `webrtcbin` for the media. This directory
models its calls, their media, their descriptions on the wire and the plugin
around them in TLA+, checks the models with TLC and proves part of them with
TLAPS. Paths are relative to `src/gajim_calls/` unless they begin with `src/`.

## Inventory

| Component (files) | State | Operations | Talks to |
|---|---|---|---|
| Call controller: `CallController` < `RuntimeCallController` < `CallWaitingController` < `JMIMigrationController` (`controller.py`, `controller_runtime.py`, `call_waiting.py`, `jmi_migration.py`, composed in `__init__.py`) | current and waiting call, pending offers, the engine, buffered local and remote candidates, two timeouts | a handler per JMI and Jingle action, accept, decline, hang up, close the window, start a call, media callbacks, timeouts, shutdown | everything below |
| Call record (`state.py`) | account, sid, peer, state, metadata | `transition`, checked against a table | the controller |
| Pure rules (`peer_validation.py`, `incoming.py`, `timeout_policy.py`) | the candidate buffer | who may speak for a call, which stanzas are ours, what a timeout sends | the controller, the stanza module |
| Stanza module (`module.py`) | the controllers by account | gate, acknowledge and parse incoming stanzas, send ours | Gajim, the controller |
| Call window (`gtk/call_window.py`) | shown or not, which buttons, sensitive or not | click handlers, which queue the controller's operation with `GLib.idle_add` | the controller |
| Toolbar button, life cycle (`plugin.py`) | the current message box and button, two searches with their timeouts and attempts, the call it shows | find, attach, move and remove the button; a click starts or ends a call; activate, deactivate | Gajim's widgets, the controller |
| Capabilities (`capabilities.py`) | none | add the call features to an account's | the plugin, Gajim |
| Alerts (`alerts.py`, `runtime_features.py`), ringtones (`ringtone.py`), settings (`gtk/config.py`) | the announced sid, the player, the notification; the cache of decoded ringtones; the settings | start, stop by sid; normalise, decode, write; save | the controller, the desktop |
| Media facade (`media_engine.py`) | flags, pending answer and candidates under a lock; a starting and a stopping thread | begin, remote answer and candidate, microphone, close | the controller, the engine |
| GStreamer engine (`media.py`, `runtime_features.py`) | remote-description flag, candidate queue, failed flag, pipeline | start, set descriptions, add candidates, close | the facade, `webrtcbin` |
| Muting (`runtime_features.py`) | a flag in the controller, a button in the window | toggle; set again for each engine; cleared with the call | controller, window, facade |
| Translation (`sdp.py`, `protocol.py`) | none | SDP to model to Jingle XML and back | the engine, the stanza module |
| Packaging scripts (`src/scripts/`) | files | build and verify archives | nothing at run time |

What is hard in this code:

* **Main-loop interleavings.** All controller code runs on GLib's main loop, so a
  handler is atomic; but a click, or a report of an engine, waits in the idle
  queue while stanzas and timeouts overtake it, and acts on whatever call it then
  finds.
* **A waiting call behind an active one.** Ending, failing, timing out, switching
  or migrating the call in front must hand over call, offer, alert, window, button,
  timeout and candidates, through four classes that override each other's methods.
* **Two peers at once.** Both sides propose; a contact replaces its call; a contact
  has several devices, and two of them answer; one cancels while the other accepts.
* **Candidates that come too early**: before there is an engine, before the local
  description, before the remote one, for a call that only rings or waits.
* **Threads.** The facade's engine is built, published, started and closed by
  different threads while the main loop and GStreamer use it.
* **Patches from outside.** `runtime_features.py` replaces methods of controller,
  window and engine at import; whether the mute flag follows the calls depends on
  which of the patched methods each path happens to run.
* **Widgets that come and go.** Gajim makes and destroys the box and the toolbar
  the button belongs to, while timeouts that look for them are armed.
* **Three places for an attribute.** An SDP attribute may stand for the session,
  for a section or nowhere, and a direction is relative to who wrote it.

`PROJECT.json` lists every hazard at its line with the properties aimed at it.

## The modules

| Module | Models |
|---|---|
| `CallSignalling` | call record and transition table, sender rules, stanzas, timeout plan |
| `CallController` | the composed controller with gate, window, button, alert, timeouts and idle queue |
| `CallLifecycle` | abstract specification: the phase of each session id as a user sees it |
| `CallProperties` | properties of the controller, its inductive invariant, the refinement to `CallLifecycle` |
| `MediaEngine`, `MediaProperties` | one facade, its threads, the engine, GStreamer's callbacks |
| `CallEndpoint`, `TwoParty`, `PartyProperties` | two controllers joined by two streams of stanzas |
| `Muting` | the mute flag, its button and the engines' settings, composed with the controller |
| `SessionTranslation`, `SessionProperties` | a media description and its candidates from one `webrtcbin` to the other |
| `Toolbar`, `Plugin`, `PluginProperties` | the button and its searches; the plugin's life cycle and its features |
| `IncomingAlerts` | notification and ringtone of the announced call |
| `CallControllerProofs`, `CallMediaProofs`, `CallPeerProofs` | TLAPS proofs about the controller, each module upon the ones before |
| `StreamProofs`, `PartyProofs` | about the stream from one client to the other; about two clients, upon all those |
| `MutingProofs` | about the mute flag, upon `CallControllerProofs` |
| `MediaEngineProofs`, `PluginProofs` | about the facade; about the plugin and the alerts |
| `MCCalls`, `MCMedia`, `MCParties`, `MCMuting`, `MCSession`, `MCPlugin`, `MCAlerts` | small instances for TLC |

`TwoParty` instantiates `CallEndpoint` twice with variables of their own (by way of
`CallPeerProofs`, so that `PartyProofs` can cite what is proved of one client of each of
the two); `CallEndpoint` and `Muting` extend `CallProperties`. The others stand alone, and meet
in what one leaves to the other: `CallController` knows the facade by its reports,
the alert by the sid, the button by what it shows, descriptions by their engine.

### CallController

`context`, `waiting`, `pendingOffer`, `waitingOffer` are the controller's fields of
those names; `early` holds the session ids with buffered remote candidates;
`localDescription` and `pendingLocal` name the engine a description or a
candidate came from, which stands for its content. An engine is named by the session
and device it was started for; `engines` says whether its facade is open or
closed. `window`, `toolbar` and `alert` are what the user sees. `idle` is GLib's
idle queue; a click or a report is queued by one action (`ClickAccept`, ...,
`EngineReports`) and run by another. `sent` holds the stanzas the last step sent.

A handler is one action, including the finishing steps the subclasses and monkey
patches add to it. Each JMI and Jingle handler is split into one action per case
it distinguishes (a proposal that rings, waits, is busy, wins or loses the
tie-break, migrates), named after the case. Where the code catches an
exception around a send, the send succeeds in the model: Gajim queues stanzas. So does the
facade's start, which only starts a thread, and `_start_media`'s own `except`
(`controller.py:324-326`) is left out; what the thread runs into comes as a report.

The peers are an environment that keeps to its role (`MaySendJmi`,
`MaySendJingle`): an opening stanza (`propose`, `proceed`, `session-initiate`) is
delivered once per device and session, since XMPP neither duplicates nor reorders a
stream, but from one stanza to the next a contact may choose any action legal for
it, and its devices need not agree.

### TwoParty

The environment is replaced by a second controller. Each client has an `inbox`,
the stanzas the other has sent in the order it sent them; `Receive` takes the first
and runs the handler that claims it, or leaves it to the rest of Gajim (`Takes` says
which), and what the handler sends goes to the other inbox. That a client which runs
this plugin is one of the peers `CallController` allows is itself a property,
`RolesAreKept`: it joins what `core` says of one client with what `parties` says of two.

### MediaEngine

The facade's variables are its attributes; what runs under `_lock` is one step.
`worker` is the starting thread with its place and local variables;
`appending[t]` is the candidate thread `t` has found no remote description for and
has yet to queue: the engine has no lock. `pipeline` and `remoteDescription` are
the library's states as the engine drives them, and the actions of GStreamer's
threads are the callbacks it registers, one per outcome of each promise.
`RunIdle` delivers what `_idle` queued; `heard` is what the controller was told.
Of the exceptions in the facade's own code only that of the starting thread is modelled
(`StartRaises`); one in setting an answer that was waiting, or comes late
(`media_engine.py:245-247`, `:314`), is not.
`CallController` uses this component only through `heard`: a description or a
candidate comes from an open facade only (`ClosedFacadeIsSilent`), an outcome also
from a closed one (its constant `StaleReports`).

### Muting

The patches run inside the controller's own handlers, so `ControllerStep` is
`CallController!Next` together with what they do in it: `Clears` recognises the
steps that run `_finish_local` or `_cleanup`, `StartsMedia` those that start an
engine, `PreparesShow` and `ShowsConnected` those of the window. `ClickMute` is the
one step of its own. How the setting gets from the facade into the engine's volume
element is in `MediaEngine`.

### SessionTranslation

An SDP text is the sequence of its lines, and `ParseSdp` one fold over them as
`parse_sdp` is one loop; `BuildSdp` gives the lines in the order `build_sdp` writes
them. Jingle XML is a record per content. `Foreign` rewrites it as another client
may: feedback once for all payload types, senders left out where both send. The
actions are the description's stages; candidates that are found later arrive at any
stage and are routed by their mid. `SessionProperties` states what a text *means*
without a parser (an attribute of the section, else of the session), and
compares meanings before and after.

### Toolbar and Plugin

The plugin's handlers call each other, so `Toolbar` has an operator for each from the
plugin's state `bar` before it to the state after it, and `Plugin` an action per event
that reaches the plugin: Gajim makes a box, destroys one, builds the toolbar, shows a
chat; a timeout fires; the user clicks; the controller shows a call; the plugin is
activated or deactivated; an account goes or comes back. `bar.sources` are the timeouts GLib really has,
which the ids the plugin holds have to match. `call` is what the controller last showed, or
`"dropped"` when `shutdown` ended it without a word to the button. When the plugin is activated or
deactivated Gajim may tell its handlers of none of the boxes, of one or of two, in any order.

### IncomingAlerts

`ringing` has the call and the content the player was started with; the cache
has, for each bundled ringtone, nothing, the whole file or a broken one. Announcing
may fail at each place where the code catches an exception. Stopping does not: the code only
logs an exception of the player or of the notification there (`alerts.py:117-132`), after which
either could remain, and `Silence` leaves that out.

## What the runs check

| Run | Question |
|---|---|
| `core` | eleven properties of the controller and that it implements `CallLifecycle`, with one outgoing call and two of contacts, direct or with JMI, and late outcomes of engines |
| `queue` | two callbacks wait and overtake each other: a ringing call can be answered, a live one ended, and the phases move as they should |
| `forked` | two devices of one contact answer, propose and migrate: the phases are right and the peer is told |
| `liveness` | no call and no waiting caller stays unserved |
| `parties` | two clients keep their roles, agree who is in which call once nothing is on its way, and come to agree in the end |
| `engine` | every interleaving of one facade's threads: nothing handed over is lost, every start is reported |
| `muting` | whether the user is heard is what controller and button believe, and the flag ends with the call |
| `wire` | a description means at the peer what it meant here, and a candidate reaches its section |
| `plugin` | one button, that shows the call the controller has; timeouts that are held; searches that go on until they succeed or give up; features that follow the plugin |
| `alerts` | nothing rings or is shown for a call that is not announced, and no broken file is played |
| `close`, `late` | violated: the first two of the disagreements below |

`CallLifecycle` says that the phases a user sees change only by its ten steps: a
waiting caller is promoted in the very step in which the call in front ends, no call
begins while there is another, none goes back. Only `Drop` ends both calls at once, and it
is the step that deactivates the plugin (`on`), which is mapped to `attached`; so no step
of the calls themselves can pass for it.

Where a property does not hold in an instance it is left out there, and said so:
`NoEngineLeaks` in `forked`, because a second device that proceeds makes
`_start_media` drop an engine without closing it (`controller.py:309`).

Where a single step breaks a property, the property names that step instead of leaving it out of
the model, and says that no other does:

* `LateConnection`, the connection reported by an engine whose call is over (`late` shows that
  the controller hears of it): it disarms the timeout of the call it hits, hides the buttons of
  one that rings, or makes one connected that has no engine. `TransientCallIsTimed`,
  `RingingCallCanBeAnswered` and `ConnectedCallHasMedia` allow that step, and what it broke to
  stay so until there is another call or another state.
* `LateFailure`, likewise: `PeerIsTold` allows it to end, without a word, a direct call that
  rings.
* `DeclinesAnother`: *Decline* was clicked for a waiting caller who is gone when the click runs, and
  ends the outgoing call in front, of which nobody is told (`controller.py:248-266`).
  `PeerIsTold` allows it, and `Deactivate`.
* `StartsAfterStop`: the starting thread starts an engine that was stopped after it was published
  (`media_engine.py:283`). `ClosedEngineHasACloser` allows it.
* `"dropped"` in `ButtonShowsTheCall`: a call that deactivation ended is still on the button
  until another is shown (`plugin.py:114-120`).

`SidesAgree` excepts a *belated* session: a client remembers its last call only, so
the session-initiate of a call that was replaced meanwhile rings as a direct call.
`SidesComeToAgree` makes no exception: such a ringing ends too.

**Bounds.**

* Controller: three session ids, enough for an active call, a waiting one, and a third
  that replaces or collides; own id 2 lies between the contacts' 1 and 3, so the
  tie-break goes either way. Two contacts, or one with two devices. `MaxIdle` bounds the
  callbacks waiting at once to 2 (1 where the states multiply otherwise): two are
  needed for a click to overtake a report. Each engine reports each kind of event once,
  a candidate too. `VIEW RelevantState` leaves out what no later step
  reads: the stanzas sent last (properties about them are action properties, evaluated
  on every step) and the report history of closed engines. `SYMMETRY` exchanges the two
  devices and is used for safety only.
* `StaleReports` says whether the outcome of an engine the controller no longer holds
  may reach it. The facade lets it (`media_engine.py:203-204`), so it is TRUE in `core`, `queue`
  and `late`. It is FALSE in `forked`, `liveness`, `parties` and `muting`, where the
  states would be too many: there an outcome is only reported to an empty queue by the
  engine the controller holds, and nothing overtakes it. Descriptions, candidates and
  clicks are overtaken in every run. What these four check and can be proved is
  proved for late outcomes too; the liveness properties are not.
* Two parties: one device and one call to place each, `MaxIdle` 1; a user waits for the last
  click to take effect; nobody deactivates the plugin, which leaves the peer to its
  timeouts; engines report no candidates (`Reported`), which change no call; engines
  connect only when each has the other's description. Nothing bounds the streams but
  what the clients send.
* Facade: two candidates, which may then be at two places, or with two threads, at once;
  begin, answer and connection happen at most once, as controller and WebRTC have
  it; toggling the microphone and every interleaving are unbounded.
* Muting: the controller's bounds with `MaxIdle` 1 and without direct callers, whose
  calls run the same patches.
* Wire: one section or two; an offer leaves the transport's role open and an answer is
  active, as `webrtcbin` has it; attributes in the session, in the section, in both or
  nowhere; feedback for all payload types before or after them; one candidate found later
  (`MaxFound`), since candidates are routed one by one, over UDP or TCP, with a known mid or
  a foreign name. Codec formats and candidates are tokens.
* Plugin: two boxes, one account; a search gives up after `MaxAttempts` = 3 instead of
  40: the code only compares attempts with the limit, so counting stops there. A box is
  out of the window's tree when its destroyed handler runs, except at deactivation,
  where Gajim may or may not tell the handlers.
* Alerts: two calls, two bundled ringtones, all settings.

**Deadlock** is not checked where the system rightly stops: no call at hand, a
deactivated plugin, a description that has arrived.

**Fairness.** `CallController!FairSpec` assumes that GLib runs a callback that stays
queued and a timeout that stays armed, and nothing about peers, user or media.
`FairParties` assumes the same of both sides, and that a stanza that was sent
arrives. `MediaEngine!FairSpec` assumes that a running handler ends, queued callbacks
run, threads are scheduled, and `webrtcbin` completes a promise it was given, well or
badly; nothing about the controller, the connection or the network. `FairPlugin`
assumes that GLib calls a timeout that stays armed and an idle callback, and
`SearchesEnd` speaks of runs in which widgets and plugin stay as they are from
some point on.

## Known disagreements

Shown by a run, each against a sentence of the repository:

1. `close`: clicking close on a waiting caller's window hangs up the connected call
   if the caller gives up before the idle callback runs (`call_waiting.py:212`).
2. `late`: outcomes of a closed engine are not filtered and end, or connect, the
   next call (`media_engine.py:203`).

Met while modelling; the models do what the code does, and no property says otherwise:

* Cancelling a ringing direct-Jingle call from the button or by closing the window
  sends a JMI reject, which such a caller does not understand (`controller.py:281`).
* Migrating the active call takes the window, with its answer buttons, from the waiting
  caller (`jmi_migration.py:114`).
* A second device's proceed replaces the selected device (`controller.py:159`), where
  `src/docs/ARCHITECTURE.md:37-39` binds a call to the one that answered.
* A candidate can be queued in the engine just after the queue was emptied for the last
  time; it is kept but never added (`media.py:259`).
* A facade closed between publishing and starting its engine leaves the pipeline playing
  after it was stopped, with nobody to stop it (`media_engine.py:283`): `StartsAfterStop`.
* *Decline* runs for whatever call is there by then (`controller.py:248-266`). Clicked for a waiting
  caller who withdraws before the idle callback runs, it ends the call in front, where
  `src/tests/test_call_waiting.py:296` has a waiting call declined keep the current call's media
  and state; and if that call is outgoing it sends nothing, so the peer goes on alone:
  `DeclinesAnother`. (The `close` run shows the same race for closing the window.)
* A toggle of the microphone while the starting thread applies the setting it took
  before is overwritten (`media_engine.py:292`).
* `parse_sdp` loses a section's transport role, because it is read only after the
  fingerprint and `webrtcbin` writes it before (`sdp.py:179`). From end to end the role is
  right again, since offers leave it open and `build_sdp` makes an open answer active;
  `LocalDescriptionIsUnderstood` leaves the role out, `PeerIsToldTheSame` does not. A client
  other than this one gets the open role in our session-accept too, and has to make up for
  it itself.
* A search for the toolbar that gives up keeps its attempts, since cancelling does
  nothing without a timeout: the next one has a single attempt (`plugin.py:248`).
* `deactivate` removes the module's controller, which only `init` sets: after `activate`
  the button starts calls whose answers nobody handles (`plugin.py:119`). And the button
  still shows the call that deactivation dropped (`plugin.py:114-120`).
* The plugin makes one call button (`plugin.py:335-362`), where `src/docs/ARCHITECTURE.md:13` says
  that it "Registers two chat action buttons"; the model and `ButtonShowsTheCall` follow the code.
* A mute button that was hidden for a waiting caller stays hidden when that caller is gone
  (`runtime_features.py:152`).

## What is proved

All proofs are for every value of the constants, from assumptions on constants only:
`JidAssumption` (every device has a contact, `None` is no JID), `SidAssumption` (session
ids are positive numbers, drawn from disjoint sets by the two sides),
`EnvironmentAssumption`, for the alerts `AlertAssumption`, and for the button
`ToolbarAssumption` (no box is called `NoBox`, and a search has at least one attempt). The
theorems about engines state one condition, `OneDevicePerContact`, because a second
device that proceeds breaks them (`controller.py:309`); `TwoParty` is about clients of one
device each. No theorem excludes the late outcomes of closed engines: where one
step of that kind breaks a property, the property names it (see above).

**The controller's invariant** (`CallControllerProofs`): `TypeOK`, `WaitingBehindActive`,
`AlertIsForRingingCall`, `TimerIsOfCurrentPhase` and `MediaBelongsToCall`, for every set
of contacts, devices and session ids, every queue bound, and stale reports or not. They
are not inductive one by one. `WaitingBehindActive` needs to know that a waiting call is
well-formed and names a session other than the current one; that needs
`CallsWereOpened`, since a new call must not reuse the id of one that is kept; the
timeouts rely on the alert and the phase. `CallInvariant` conjoins the five with
`CallsWellFormed`, `CallsWereOpened` and `ReportsNameEngines` (a queued report names an
engine, so a media callback is typed). The proof goes in three passes, each with one
lemma per action or per shared ending of actions (`FinishLocal`, `StartMedia`, ...):
every action keeps the types; keeps the five consistent; keeps calls opened.
`InvariantHolds` puts them together.

**The refinement** (`CallControllerProofs` too): `ControllerImplementsLifecycle`, stale
reports or not. `PhaseOfCalls` says what the invariant makes of the phases: one call is
active, one at most waits. Then there is one lemma per kind of change (`EndRefines`,
`AnswerRefines`, `BeginRefines`, `WaitRefines`, `ReplaceRefines`, `ClearWaitingRefines`)
that names the abstract step it maps to, and each action is one of these or changes no
phase. That a late outcome cannot break it is why `core` and `queue` may admit them.

**Candidates and timeouts** (`CallControllerProofs` too): `EarlyCandidatesAreOwned` again from
`CallInvariant`, since every path that ends a call, or starts its engine, discards or
flushes its buffer. `TransientCallsAreTimed` goes through the actions: each leaves a call
that proposes, rings or negotiates timed, or leaves call and state as they were, or is
`LateConnection`. A connected report of the engine the controller holds finds its
own call negotiating or connected, by `MediaBelongsToCall`, and makes it connected.

**Window and button** (there too): `RingingCallsCanBeAnswered`, by the same argument about
steps: a click leaves the buttons dead only while it is queued, and the window's callback for
a connected call hides the buttons of another one only in `LateConnection`.
`LiveCallsCanBeEnded` needs no exception. It is not inductive: *Decline* and
*Hang up* reset the button before the click runs, so `EndIsOffered` says that exactly a
click that ends a call, or turns one away, is queued then. `WindowIsOfCall`, that the
window is never seen without a live call, is proved on the way.

**Engines** (`CallMediaProofs`), where each contact has one device: `EnginesDoNotLeak`, stale
reports or not. That only the held engine is open is not inductive: `_start_media` drops what
the controller holds, so one has to know that it holds nothing whenever a proceed or a
session-initiate starts one, hence that no session is opened twice. `EngineInvariant` adds
`SidesAreKnown` (whose session a call is, and from which device), `EnginesAreCurrent` (the
engine held was opened by the device that is selected; the description and the candidates that
are kept are its own), `EnginesStartOnce` (an engine that was ever started was started for an
opening stanza, and a call that rings or waits has none) and `ReportsAreOfStarted`. What a step
may do to the engines is one of four things, `MediaGoes`: keep them, close the one held, open
one where there was none, take a description; one lemma per group of handlers says which, and
the theorems go through these four instead of all actions. `ConnectedCallsHaveMedia`, which is
about steps and excepts `LateConnection`, needs `DescriptionIsComing` and
`ConnectionsAreDescribed`, that the idle queue brings an engine's description before its
connection. `CandidatesFollowDescriptions` says of every stanza of a step whose engine it
belongs to (`Current`), or that it is none of an engine's (`Plain`).

**The peer** (`CallPeerProofs`): `PeersAreTold`, that no step of this side leaves a peer
hanging. `SidesAreKnown` says that every call has something to be ended with: a call
without JMI came in with its offer, from a device. That a click on *Decline* runs
for a call that came in takes two facts more, since the click is queued and the call may
have changed by then: `DeclinesAreForCallers`, that it was made for one of the other side's
sessions, and `StaleButtonsAreHidden`, that the buttons left over from a waiting caller who
is gone are in a window that nothing shows again with them. A call of this side's in front is
the one that a stale *Decline* can still reach, which is `DeclinesAnother`.

**Two clients keep their roles** (`PartyProofs`): `RolesKept`. The theorems above are about one
client and contacts that keep to `MaySendJmi` and `MaySendJingle`; this one says that two
clients that run the plugin do, for any session ids, queue bound and kinds of report, so that
the model of the controller leaves nothing out that such a contact sends. It is proved in two
halves.

*One client* (`CallPeerProofs`, second part): `StepInRole`, that in a step nothing is said out of
role (`SpeaksInRole`: retract and session-initiate are the caller's words, ringing, proceed and
reject the callee's, nothing is said of a call before it is proposed, and a session is offered
before it is accepted), that what opens something opens it for the first time, that
a proposal is the first thing said in its step, and that openings are never forgotten. The
invariant for it, `RoleInvariant`, has to know why a client cannot offer or accept twice:
`OfferedOnce` (the session was begun with the one description of its engine, which is reported once,
`DescriptionsAreReported`) and `RingingIsNotAccepted` (a call that rings without its offer was
not told to proceed). There is a lemma for each way a client takes a step: `ClientActs` of its
own accord, `ClientReceives` a stanza, which may open what the stanza opens and no other call
or session, `ClientWaits` while the other one moves.

*The two streams* (`StreamProofs`): `Link`, of a stream and of what its sender has begun and its
receiver has heard of. Each stanza on its way is in role; what opens something is in the
stream once and was not heard of; the receiver has heard of nothing that its
sender did not begin; and a proposal that was made was heard of, or is in the stream
*before all else* that is said of the call. `LinkSends`, `LinkTakes` and `LinkHears` keep
it, without a word about controllers; `PartiesInvariant` has one link in each direction. That
what arrives was opened before (`HeadFits`) takes both: a callee's session-accept suits
the caller because the caller has heard of what the callee heard from it.

**Two clients agree** (`PartyProofs` too): `SidesAlwaysAgree`, late outcomes included. An agreement
about moments in which nothing is on its way is far from inductive: between two such moments
any number of stanzas cross. What is kept is an account of what both streams still have to tell.

*One client* (`CallPeerProofs`, third part): `View` is what the other side needs to know of it,
the call it has (`alive`, or `straight` when it rings for a session alone), whether it waits for
an answer, and which descriptions it was given. `SideMoves` says what a step may do to that: a
call that goes away is told to the other side, unless it was the other side that ended it; one
that comes was never proposed before; nothing is offered, accepted or given a description but the
call at hand. `SideInvariant` is what these need: `TalkIsBegun` and `AnswersWereProposed`, that
a call that negotiates was opened; `OffersAreAnswers`; `DeclinesFit`, that a queued click ends
what it was for; and two that keep a late outcome from doing harm, `StraightIsQuiet`, that no
connection is queued while a session that rang alone negotiates, and `AcceptIsAlone`, that none
is queued behind the click that accepts a call. So a connection that comes late makes a call
connected only that both sides are in:
it needs no proceed of its own, since a call that is proposing or rings stays what it is.
There is never a waiting caller between two clients.

*The two streams* (`StreamProofs`): `Accord`, of a stream and the views at its two ends. If the
receiver has a call that the sender does not, the stream ends it (`LossIsTold`); what it ends, the
sender has left for good (`EndsAreFinal`); an answer the caller has not yet seen is in the stream
(`AnswerIsComing`); whatever it says that sets up another call comes before what it says of
the call that the sender has and does not wait to see answered (`Held`, `CallComesLast`); a
session that is offered or accepted belongs to the call at hand
(`NoOtherOffer`, `NoOtherGiven`, `OffersAreSingle`, `AnswersWereOffered`), or its call is lost at the
other end (`BelatedIsLost`). `AccordSends`, `AccordHears` and `AccordMoves` keep it, and
`EndsAgree` is what it says of two empty streams. `PartyProofs` shows that every step of
`TwoParty` is such a step (`NextSides`), with one lemma more for the pair: two engines connect
to each other only in a call set up in JMI, since the other end has left one that rang alone.

**The facade** (`MediaEngineProofs`): `MediaTypeOK`, `CandidatesAreKept`,
`ClosedEngineHasACloser` and `FirstMicrophoneSettingHolds`, for any set of candidates.
`ClosedEngineHasACloser` is about steps, which `KeepsCloser` goes through: none leaves a closed
facade with a living engine and nobody to close it, but `StartsAfterStop`.
`MediaInvariant` adds what each place of the starting thread says of the pipeline and of
the facade's `engine` (it holds one only when the thread has published it, which is why a
close before that leaves the engine to the thread and a close after it to the stopping
thread), and `MicrophoneAgrees`: the setting the starting thread still holds is the one made.
`ClosedFacadeStaysSilent` needs no invariant: only queued callbacks reach the controller, and
each looks at `closed` under the lock or is an outcome.

**Muting** (`MutingProofs`): `MicrophoneIsRight`. Instead of going through the
controller's actions again, it takes from the refinement what a step may do to a call:
`CallsGo` says that one that was not there before is proposed or rings, and that one
that negotiates or is connected stays so, ends, or makes way for one that rings. So the
flag is never cleared under an engine (`ClearsForRinging`) nor a button shown for another call's
flag.
`MuteDoesNotOutliveCall` holds whatever outcomes come late: a late connected report may show
the mute button for a call that rings, but every end of a call runs `_finish_local`, which
clears the flag. `EndInvariant` adds `WindowIsOfCall`, since the button is only clicked in a
window that is seen, and `MutedInCall`; `StartsHeard` is the part about steps.

**The plugin** (`PluginProofs`), for any number of boxes, accounts and attempts:
`ButtonAlwaysShowsTheCall`, `TimeoutsAreAlwaysHeld`, `AlwaysKeepsLooking`. Each handler is a
composition of steps on one record, nested up to five deep, and in the middle of a callback that
GLib is running `TimeoutsAreHeld` is false: its id is forgotten while GLib still has the timeout,
and the callback may arm another. So the steps are proved for `Good(b, stale)`, the state
with one timeout that is running and forgotten; each step has a lemma that says what it
leaves, and the handlers follow. It also shows why three ids are enough for the
model: two searches and a stale timeout. `PluginInvariant` adds that the box is one of the
window's, that no button is left without a toolbar, and that an inactive plugin has
nothing armed, which is why no timeout fires then; and that the plugin's flag is the call the
controller has, unless a deactivation dropped that call without telling the flag.
`FeaturesAlwaysFollow`: every account that can be reached advertises what Gajim computes with the
handlers it has, or a refresh is queued. `FeaturesAreThePlugins` concludes
`CapabilitiesFollowPlugin` from it under `ExtensionAddsWhatIsMissing`, what the loop of
`extend_call_capabilities` computes: a fold over a sequence, so nothing this prover can show
for every sequence. The run `plugin` evaluates it, since `CapabilitiesFollowPlugin` says the
same of an active plugin.

**Alerts** (`PluginProofs` too): `AlertsLeaveNoTrace`, by the rule that an
existing file is played only after it was compared or written whole.

**Only model-checked.**

* Liveness, which this prover cannot do: `TransientCallsEnd`, `WaitingCallersAreServed`,
  `SidesComeToAgree`, `StartIsReported`, `AnswerIsApplied`, `SearchesEnd`.
* `LocalDescriptionIsUnderstood`, `PeerIsToldTheSame` and `CandidateReachesItsSection`: what
  a parser computes for texts of every length needs induction over them.

## Not modelled

* The packaging scripts: they run at build time, in sequence, on files.
* GTK layout, names, avatars, the failure dialog; the settings dialog's widgets.
* Building the pipeline's elements and links, remote video and state texts, which are
  passed through between GTK and GStreamer.
* `IceCandidate.from_sdp` and the numbers in codecs and candidates: conversions of one
  token, with nothing before or after them to get wrong.
* JMI and Jingle XML beyond action, session id, sender and description: reason
  texts and error forms change no state.
* Several accounts: a controller exists per account and shares only the window and the
  button. A contact's second device is in `forked` but not in `TwoParty`.

## Plan

Done: the controller, its abstract specification, proofs and refinement; the facade and
its proofs; two parties, that they keep to their roles and that they agree; muting; translation; the
plugin's life cycle; alerts.

Left, in this order:

1. A third client in `TwoParty`: the contact's second device, whose proceed and reject
   cross the first one's (`controller.py:159`, `:166`).
2. Two accounts that share the window and the button.
