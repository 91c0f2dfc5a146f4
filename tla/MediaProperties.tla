--------------------------- MODULE MediaProperties ---------------------------
(***************************************************************************)
(* What one media facade promises the call controller, whichever way its   *)
(* threads interleave.                                                     *)
(***************************************************************************)
EXTENDS MediaEngine

FacadeTyped ==
    /\ closed \in BOOLEAN /\ starting \in BOOLEAN /\ engine \in BOOLEAN
    /\ localReady \in BOOLEAN /\ pendingAnswer \in BOOLEAN
    /\ pendingCandidates \subseteq Candidates
    /\ micEnabled \in Settings \cup {"unset"}
    /\ mode \in {"none", "offer", "answer"}

ThreadsTyped ==
    /\ worker \in Worker
    /\ appending \in [Threads -> Candidates \cup {NoCandidate}]
    /\ stopping \in {"none", "close", "done"}

EngineTyped ==
    /\ pipeline \in {"none", "ready", "playing", "null"}
    /\ remoteDescription \in {"none", "applying", "set", "flushed", "refused"}
    /\ described \in BOOLEAN /\ gathered \in BOOLEAN /\ failed \in BOOLEAN
    /\ queued \subseteq Candidates /\ added \subseteq Candidates
    /\ volume \in Settings

ControllerTyped ==
    /\ idle \in Seq(Reports) /\ heard \subseteq Reports
    /\ given \subseteq Candidates /\ answerGiven \in BOOLEAN

\* Every variable keeps to its type.
MediaTypeOK == FacadeTyped /\ ThreadsTyped /\ EngineTyped /\ ControllerTyped

\* The candidates that a thread is about to queue in the engine.
InFlight == {appending[t] : t \in Threads} \ {NoCandidate}

\* Until the facade is closed, every candidate the controller passed on is held
\* somewhere: by the facade, by a thread, by the engine or by webrtcbin.  And the
\* facade keeps none back once it holds the engine, because nobody would come
\* for it (add_remote_candidate against the worker's hand-over).
CandidatesAreKept ==
    ~closed =>
        /\ given = pendingCandidates \cup worker.candidates \cup queued \cup added
                     \cup InFlight
        /\ engine => pendingCandidates = {}

\* The report has reached the controller, or is on its way.
Told(report) == report \in heard \cup {idle[i] : i \in DOMAIN idle}

\* The microphone is as the controller set it when it began the call, once the
\* starting thread is done and until the user toggles it: whether the setting
\* came before the engine was there or after (set_microphone_enabled).
FirstMicrophoneSettingHolds ==
    (worker.at = "done" /\ pipeline = "playing" /\ ~closed
       /\ micEnabled # "unset" /\ "connected" \notin heard)
    => \/ volume = micEnabled
       \/ Told("failed")

\* A closed facade calls back with outcomes only: neither a description nor a
\* candidate of its engine reaches the controller, which by then may have
\* another call (_local_description_ready, _deliver_ice_candidate).
ClosedFacadeIsSilent ==
    [][closed => heard' \subseteq heard \cup {"connected", "failed"}]_vars

\* The engine of a closed facade is gone, about to be closed by the stopping thread,
\* or still with the starting thread, which will find the facade closed.
HasCloser == \/ pipeline \in {"none", "null"}
             \/ stopping = "close"
             \/ worker.at \in {"publish", "discard"}

\* The starting thread plays an engine that the stopping thread has closed.
StartsAfterStop == stopping = "done" /\ (StartEngine \/ StartRaises)

\* Closing never orphans an engine, whichever thread has it when the facade is closed
\* (close against the worker's hand-over): the only step after which a closed facade's
\* engine lives on with nobody to close it is the one that starts it after it was
\* stopped (media_engine.py:283).
ClosedEngineHasACloser ==
    [][closed' /\ ~HasCloser' => (closed /\ ~HasCloser) \/ StartsAfterStop]_vars

\* A facade that was begun tells the controller how it went: it has the local
\* description or has failed, unless the controller closes it first; an engine
\* that cannot be built or started is not silent (_begin, _fail).
StartIsReported ==
    (mode # "none") ~> (closed \/ heard \cap {"description", "failed"} # {})

\* The peer's answer takes effect even when it is there before the local offer
\* is (set_remote_answer, _local_description_ready).
AnswerIsApplied ==
    answerGiven ~> \/ remoteDescription \in {"flushed", "refused"}
                   \/ closed \/ "failed" \in heard

-----------------------------------------------------------------------------
(* The inductive invariant of MediaEngineProofs.                           *)

\* The facade holds the engine from the step in which the starting thread gives
\* it away until close, and from then on the stopping thread has it.
EngineHasOneOwner ==
    /\ mode = "none" => worker.at = "none"
    /\ worker.at \in {"none", "build"} => pipeline = "none"
    /\ worker.at \in {"none", "build", "publish", "discard"} => ~engine
    /\ worker.at = "discard" => closed
    /\ worker.at \in {"start", "add", "mic"} => engine \/ stopping # "none"
    /\ engine => ~closed
    /\ stopping # "none" => closed /\ worker.at \in {"start", "add", "mic", "done"}
    /\ ~closed => pipeline = "none" \/ engine \/ worker.at = "publish"

\* The starting thread takes candidates and a setting with the engine, not before.
NothingTakenEarly ==
    /\ worker.at \in {"none", "build", "publish"} => worker.candidates = {}
    /\ micEnabled = "unset" => worker.mic = "unset"

\* While the starting thread is at work, the setting it holds is the one that was
\* made; with none in hand the volume is already right.
MicrophoneAgrees ==
    (~closed /\ micEnabled # "unset" /\ "connected" \notin heard /\ ~Told("failed")) =>
        /\ worker.at \in {"start", "add", "mic"} =>
              IF worker.mic = "unset" THEN volume = micEnabled
              ELSE worker.mic = micEnabled
        /\ worker.at = "done" /\ engine => volume = micEnabled

MediaInvariant ==
    /\ MediaTypeOK /\ EngineHasOneOwner /\ NothingTakenEarly
    /\ CandidatesAreKept /\ MicrophoneAgrees
=============================================================================
