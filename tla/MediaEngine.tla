----------------------------- MODULE MediaEngine -----------------------------
(***************************************************************************)
(* One media facade (media_engine.WebRTCMediaEngine), the GStreamer engine *)
(* it owns (media.WebRTCMediaEngine and its hardened subclass), and the    *)
(* four parties that run their code:                                       *)
(*                                                                         *)
(*   - GLib's main loop, from which the call controller calls the facade   *)
(*     and on which the callbacks queued with idle_add run;                *)
(*   - the thread "gajim-calls-media-start", which builds and starts the   *)
(*     engine;                                                             *)
(*   - the thread "gajim-calls-media-stop", which closes it;               *)
(*   - GStreamer's own threads, which call the engine back.                *)
(*                                                                         *)
(* What runs under the facade's lock is one atomic step.  The engine has   *)
(* no lock: between its test of _remote_description_set and the append to  *)
(* _queued_remote_candidates the other threads may run, and so they may    *)
(* between any two statements of the starting thread outside the lock.     *)
(***************************************************************************)
EXTENDS Sequences

CONSTANTS
    Candidates,   \* the peer's trickled candidates
    NoCandidate   \* no candidate

ASSUME CandidateAssumption == NoCandidate \notin Candidates

VARIABLES
    closed,             \* _closed
    starting,           \* _starting
    engine,             \* _engine is not None
    localReady,         \* _local_ready
    pendingAnswer,      \* _pending_answer is not None
    pendingCandidates,  \* _pending_candidates
    micEnabled,         \* _mic_enabled, "unset" for None
    mode,               \* "none" before _begin, then "offer" or "answer"
    worker,             \* the starting thread: at, and its local variables
    appending,          \* per thread: the candidate it is about to queue
    stopping,           \* the stopping thread: "none", "close" or "done"
    pipeline,           \* the GStreamer pipeline, "none" until it is built
    remoteDescription,  \* the peer's description in webrtcbin
    described,          \* webrtcbin holds the local description
    gathered,           \* webrtcbin emitted a local candidate
    queued,             \* _queued_remote_candidates
    added,              \* candidates handed to webrtcbin
    failed,             \* the engine's _failed
    volume,             \* the element "microphone_volume"
    idle,               \* the facade's callbacks queued with idle_add
    heard,              \* what the controller has been called back with
    given,              \* candidates the controller has passed on
    answerGiven         \* the controller has passed on the peer's answer

facadeVars == <<closed, starting, engine, localReady, pendingAnswer,
                pendingCandidates, micEnabled, mode>>
threadVars == <<worker, appending, stopping>>
engineVars == <<pipeline, remoteDescription, described, gathered, queued, added,
                failed, volume>>
controllerVars == <<heard, given, answerGiven>>
vars == <<facadeVars, threadVars, engineVars, idle, controllerVars>>

-----------------------------------------------------------------------------
Settings == {"on", "off"}
Reports == {"description", "candidate", "connected", "failed"}
Threads == {"main", "worker"}
Places == {"none", "build", "publish", "discard", "start", "add", "mic", "done"}
Worker == [at: Places, candidates: SUBSET Candidates,
           mic: Settings \cup {"unset"}]

Init ==
    /\ closed = FALSE /\ starting = FALSE /\ engine = FALSE
    /\ localReady = FALSE /\ pendingAnswer = FALSE
    /\ pendingCandidates = {} /\ micEnabled = "unset" /\ mode = "none"
    /\ worker = [at |-> "none", candidates |-> {}, mic |-> "unset"]
    /\ appending = [t \in Threads |-> NoCandidate]
    /\ stopping = "none"
    /\ pipeline = "none" /\ remoteDescription = "none"
    /\ described = FALSE /\ gathered = FALSE
    /\ queued = {} /\ added = {} /\ failed = FALSE /\ volume = "on"
    /\ idle = <<>> /\ heard = {} /\ given = {} /\ answerGiven = FALSE

Queue(report) == idle' = Append(idle, report)

\* _fail: only the first failure of an engine is reported.
Fail ==
    /\ failed' = TRUE
    /\ IF failed THEN UNCHANGED idle ELSE Queue("failed")

\* The engine's add_remote_candidate up to its test: thread t either hands the
\* candidate to webrtcbin or is left about to queue it.
OfferCandidate(t, c) ==
    IF remoteDescription \in {"set", "flushed"}
    THEN added' = added \cup {c} /\ UNCHANGED appending
    ELSE appending' = [appending EXCEPT ![t] = c] /\ UNCHANGED added

AppendCandidate(t) ==
    /\ appending[t] # NoCandidate
    /\ queued' = queued \cup {appending[t]}
    /\ appending' = [appending EXCEPT ![t] = NoCandidate]
    /\ UNCHANGED <<facadeVars, worker, stopping, pipeline, remoteDescription,
                   described, gathered, added, failed, volume, idle,
                   controllerVars>>

-----------------------------------------------------------------------------
(* The main loop.  The controller makes a facade, begins it and sets the   *)
(* microphone in one handler, and lets go of a facade it has closed.       *)

Begin(m) ==
    /\ ~closed /\ ~starting /\ ~engine
    /\ mode = "none"
    /\ mode' = m
    /\ starting' = TRUE
    /\ worker' = [worker EXCEPT !.at = "build"]
    /\ UNCHANGED <<closed, engine, localReady, pendingAnswer, pendingCandidates,
                   micEnabled, appending, stopping, engineVars, idle,
                   controllerVars>>

SetMicrophone(setting) ==
    /\ ~closed
    /\ micEnabled' = setting
    /\ volume' = IF engine THEN setting ELSE volume
    /\ UNCHANGED <<closed, starting, engine, localReady, pendingAnswer,
                   pendingCandidates, mode, threadVars, pipeline,
                   remoteDescription, described, gathered, queued, added,
                   failed, idle, controllerVars>>

\* _start_media sets the microphone right after it has begun.
SetFirstMicrophone(setting) ==
    mode # "none" /\ micEnabled = "unset" /\ SetMicrophone(setting)

\* No other handler runs before the one at work is done.
MainLoopIsFree == appending["main"] = NoCandidate /\ micEnabled # "unset"

\* The window shows the mute button once the controller heard "connected".
ToggleMicrophone ==
    /\ MainLoopIsFree
    /\ "connected" \in heard
    /\ \E setting \in Settings \ {micEnabled} : SetMicrophone(setting)

\* The peer answers an offer once; nothing keeps it from doing so early.
SetRemoteAnswer ==
    /\ MainLoopIsFree
    /\ mode = "offer" /\ ~answerGiven
    /\ ~closed
    /\ answerGiven' = TRUE
    /\ IF engine /\ localReady
       THEN remoteDescription' = "applying" /\ UNCHANGED pendingAnswer
       ELSE pendingAnswer' = TRUE /\ UNCHANGED remoteDescription
    /\ UNCHANGED <<closed, starting, engine, localReady, pendingCandidates,
                   micEnabled, mode, threadVars, pipeline, described, gathered,
                   queued, added, failed, volume, idle, heard, given>>

AddRemoteCandidate(c) ==
    /\ MainLoopIsFree
    /\ c \notin given
    /\ ~closed
    /\ given' = given \cup {c}
    /\ IF engine
       THEN OfferCandidate("main", c) /\ UNCHANGED pendingCandidates
       ELSE /\ pendingCandidates' = pendingCandidates \cup {c}
            /\ UNCHANGED <<appending, added>>
    /\ UNCHANGED <<closed, starting, engine, localReady, pendingAnswer,
                   micEnabled, mode, worker, stopping, pipeline,
                   remoteDescription, described, gathered, queued, failed,
                   volume, idle, heard, answerGiven>>

Close ==
    /\ MainLoopIsFree
    /\ ~closed
    /\ closed' = TRUE
    /\ engine' = FALSE
    /\ pendingAnswer' = FALSE
    /\ pendingCandidates' = {}
    /\ stopping' = IF engine THEN "close" ELSE "none"
    /\ UNCHANGED <<starting, localReady, micEnabled, mode, worker, appending,
                   engineVars, idle, controllerVars>>

-----------------------------------------------------------------------------
(* Callbacks on the main loop.                                             *)

\* Mutant: the pending answer is cleared but never applied.
DropPendingAnswer == UNCHANGED remoteDescription

ApplyPendingAnswer ==
    remoteDescription' = IF engine /\ pendingAnswer THEN "applying"
                         ELSE remoteDescription

\* Mutant: closing the facade does not silence it.
HearAlways(report) == heard' = heard \cup {report}

Hear(report) == heard' = IF closed THEN heard ELSE heard \cup {report}

\* _local_description_ready: the controller gets the description, then an answer
\* that came too early goes to the engine.
DeliverDescription ==
    /\ idle' = Tail(idle)
    /\ Hear("description")
    /\ IF closed
       THEN UNCHANGED <<localReady, pendingAnswer, remoteDescription>>
       ELSE localReady' = TRUE /\ ApplyPendingAnswer /\ pendingAnswer' = FALSE
    /\ UNCHANGED <<closed, starting, engine, pendingCandidates, micEnabled, mode,
                   threadVars, pipeline, described, gathered, queued, added,
                   failed, volume, given, answerGiven>>

DeliverCandidate ==
    /\ idle' = Tail(idle)
    /\ Hear("candidate")
    /\ UNCHANGED <<facadeVars, threadVars, engineVars, given, answerGiven>>

\* on_connected and on_failed are the controller's own callbacks: the facade
\* does not look at them.
DeliverOutcome ==
    /\ idle' = Tail(idle)
    /\ heard' = heard \cup {Head(idle)}
    /\ UNCHANGED <<facadeVars, threadVars, engineVars, given, answerGiven>>

RunIdle ==
    /\ MainLoopIsFree
    /\ idle # <<>>
    /\ \/ Head(idle) = "description" /\ DeliverDescription
       \/ Head(idle) = "candidate" /\ DeliverCandidate
       \/ Head(idle) \in {"connected", "failed"} /\ DeliverOutcome

-----------------------------------------------------------------------------
(* The starting thread.                                                    *)

At(place) == worker.at = place /\ appending["worker"] = NoCandidate
Go(place) == worker' = [worker EXCEPT !.at = place]

BuildEngine ==
    /\ At("build")
    /\ Go("publish")
    /\ pipeline' = "ready"
    /\ UNCHANGED <<facadeVars, appending, stopping, remoteDescription, described,
                   gathered, queued, added, failed, volume, idle,
                   controllerVars>>

\* Mutant: an engine that cannot be built is logged and nothing else.
BuildFailsSilently ==
    /\ At("build")
    /\ Go("done")
    /\ starting' = FALSE
    /\ UNCHANGED <<closed, engine, localReady, pendingAnswer, pendingCandidates,
                   micEnabled, mode, appending, stopping, engineVars, idle,
                   controllerVars>>

BuildFails ==
    /\ At("build")
    /\ Go("done")
    /\ starting' = FALSE
    /\ Queue("failed")
    /\ UNCHANGED <<closed, engine, localReady, pendingAnswer, pendingCandidates,
                   micEnabled, mode, appending, stopping, engineVars,
                   controllerVars>>

\* Mutants: close is not looked for; the candidates, or the microphone setting, that
\* came before the engine are not taken along.
NeverDiscard == FALSE
TakeNoCandidates == [at |-> "start", candidates |-> {}, mic |-> micEnabled]
TakeNoSetting == [at |-> "start", candidates |-> pendingCandidates, mic |-> "unset"]

MustDiscard == closed
TakeOver == [at |-> "start", candidates |-> pendingCandidates, mic |-> micEnabled]

PublishEngine ==
    /\ At("publish")
    /\ starting' = FALSE
    /\ IF MustDiscard
       THEN Go("discard") /\ UNCHANGED <<engine, pendingCandidates>>
       ELSE /\ engine' = TRUE
            /\ worker' = TakeOver
            /\ pendingCandidates' = {}
    /\ UNCHANGED <<closed, localReady, pendingAnswer, micEnabled, mode, appending,
                   stopping, engineVars, idle, controllerVars>>

DiscardEngine ==
    /\ At("discard")
    /\ Go("done")
    /\ pipeline' = "null"
    /\ UNCHANGED <<facadeVars, appending, stopping, remoteDescription, described,
                   gathered, queued, added, failed, volume, idle,
                   controllerVars>>

\* start_offer and start_answer: set_state(PLAYING), whatever the state was.
StartEngine ==
    /\ At("start")
    /\ Go("add")
    /\ pipeline' = "playing"
    /\ remoteDescription' = IF mode = "answer" THEN "applying"
                            ELSE remoteDescription
    /\ UNCHANGED <<facadeVars, appending, stopping, described, gathered, queued,
                   added, failed, volume, idle, controllerVars>>

\* set_state(PLAYING) fails, and the thread goes on.
StartFails ==
    /\ At("start")
    /\ Go("add")
    /\ Fail
    /\ UNCHANGED <<facadeVars, appending, stopping, pipeline, remoteDescription,
                   described, gathered, queued, added, volume, controllerVars>>

\* The peer's offer cannot be set: an exception ends the thread.  Where an answer is
\* set, by GStreamer's thread or the main loop, the call is taken not to raise: an
\* exception there would end in Python's default handler.
StartRaises ==
    /\ At("start") /\ mode = "answer"
    /\ Go("done")
    /\ pipeline' = "playing"
    /\ Queue("failed")
    /\ UNCHANGED <<facadeVars, appending, stopping, remoteDescription, described,
                   gathered, queued, added, failed, volume, controllerVars>>

AddPendingCandidate ==
    /\ At("add")
    /\ \E c \in worker.candidates :
          /\ OfferCandidate("worker", c)
          /\ worker' = [worker EXCEPT !.candidates = @ \ {c}]
    /\ UNCHANGED <<facadeVars, stopping, pipeline, remoteDescription, described,
                   gathered, queued, failed, volume, idle, controllerVars>>

AllCandidatesAdded ==
    /\ At("add") /\ worker.candidates = {}
    /\ Go("mic")
    /\ UNCHANGED <<facadeVars, appending, stopping, engineVars, idle,
                   controllerVars>>

\* Mutant: a setting that was never made is applied all the same.
UncheckedVolume == worker.mic

VolumeToApply == IF worker.mic = "unset" THEN volume ELSE worker.mic

ApplyMicrophone ==
    /\ At("mic")
    /\ Go("done")
    /\ volume' = VolumeToApply
    /\ UNCHANGED <<facadeVars, appending, stopping, pipeline, remoteDescription,
                   described, gathered, queued, added, failed, idle,
                   controllerVars>>

WorkerStep ==
    \/ BuildEngine \/ BuildFails \/ PublishEngine \/ DiscardEngine
    \/ StartEngine \/ StartFails \/ StartRaises
    \/ AddPendingCandidate \/ AllCandidatesAdded \/ ApplyMicrophone
    \/ AppendCandidate("worker")

\* The stopping thread: engine.close.
StopEngine ==
    /\ stopping = "close"
    /\ stopping' = "done"
    /\ pipeline' = "null"
    /\ UNCHANGED <<facadeVars, worker, appending, remoteDescription, described,
                   gathered, queued, added, failed, volume, idle,
                   controllerVars>>

-----------------------------------------------------------------------------
(* GStreamer's threads.                                                    *)

\* _remote_set_common, its first half: the description is set ...
RemoteDescriptionSet ==
    /\ pipeline = "playing" /\ remoteDescription = "applying"
    /\ remoteDescription' = "set"
    /\ UNCHANGED <<facadeVars, threadVars, pipeline, described, gathered, queued,
                   added, failed, volume, idle, controllerVars>>

RemoteDescriptionRefused ==
    /\ pipeline = "playing" /\ remoteDescription = "applying"
    /\ remoteDescription' = "refused"
    /\ Fail
    /\ UNCHANGED <<facadeVars, threadVars, pipeline, described, gathered, queued,
                   added, volume, controllerVars>>

\* ... and its second half: the queued candidates follow.
FlushRemoteCandidates ==
    /\ remoteDescription = "set"
    /\ remoteDescription' = "flushed"
    /\ added' = added \cup queued
    /\ queued' = {}
    /\ UNCHANGED <<facadeVars, threadVars, pipeline, described, gathered, failed,
                   volume, idle, controllerVars>>

\* An offer is created when the pipeline plays, an answer when the offer is set.
CanDescribe ==
    pipeline = "playing" /\ (mode = "offer" \/ remoteDescription = "flushed")

LocalDescriptionSet ==
    /\ CanDescribe /\ ~described
    /\ described' = TRUE
    /\ Queue("description")
    /\ UNCHANGED <<facadeVars, threadVars, pipeline, remoteDescription, gathered,
                   queued, added, failed, volume, controllerVars>>

\* Gathering begins before the description is reported.  Bound: one candidate.
LocalCandidate ==
    /\ CanDescribe /\ ~gathered
    /\ gathered' = TRUE
    /\ IF closed THEN UNCHANGED idle ELSE Queue("candidate")
    /\ UNCHANGED <<facadeVars, threadVars, pipeline, remoteDescription, described,
                   queued, added, failed, volume, controllerVars>>

\* Bound: the connection is made once.
Connected ==
    /\ pipeline = "playing" /\ described /\ ~failed
    /\ remoteDescription \in {"set", "flushed"}
    /\ "connected" \notin heard
    /\ \A i \in DOMAIN idle : idle[i] # "connected"
    /\ Queue("connected")
    /\ UNCHANGED <<facadeVars, threadVars, engineVars, controllerVars>>

\* A bus error, a failed promise, or a connection that failed or was closed.
EngineFails ==
    /\ pipeline \in {"playing", "null"} /\ ~failed
    /\ Fail
    /\ UNCHANGED <<facadeVars, threadVars, pipeline, remoteDescription, described,
                   gathered, queued, added, volume, controllerVars>>

-----------------------------------------------------------------------------
ControllerStep ==
    \/ \E m \in {"offer", "answer"} : Begin(m)
    \/ ToggleMicrophone
    \/ SetRemoteAnswer
    \/ \E c \in Candidates : AddRemoteCandidate(c)
    \/ Close

MainStep ==
    \/ \E setting \in Settings : SetFirstMicrophone(setting)
    \/ AppendCandidate("main")
    \/ RunIdle

NegotiationStep ==
    \/ RemoteDescriptionSet \/ RemoteDescriptionRefused
    \/ FlushRemoteCandidates \/ LocalDescriptionSet

Next ==
    \/ ControllerStep \/ MainStep \/ WorkerStep \/ StopEngine
    \/ NegotiationStep \/ LocalCandidate \/ Connected \/ EngineFails

Spec == Init /\ [][Next]_vars

\* A handler ends, queued callbacks run, threads are scheduled, and webrtcbin
\* completes each promise one way or the other.
Fairness ==
    /\ WF_vars(MainStep)
    /\ WF_vars(WorkerStep)
    /\ WF_vars(StopEngine)
    /\ WF_vars(NegotiationStep)

FairSpec == Spec /\ Fairness
=============================================================================
