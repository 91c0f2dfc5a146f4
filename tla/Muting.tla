------------------------------- MODULE Muting -------------------------------
(***************************************************************************)
(* runtime_features.py: muting, patched into the controller and the call   *)
(* window from outside.  The patches run in the controller's own handlers, *)
(* so each step of CallController is taken together with what they do in   *)
(* it; only the mute button adds a step.                                   *)
(***************************************************************************)
EXTENDS CallProperties

VARIABLES
    muted,      \* self._muted
    audible,    \* the microphone setting of the engine in self.media
    muteButton  \* of the window: shown, and its icon says muted

muteVars == <<muted, audible, muteButton>>
allVars == <<vars, muteVars>>

-----------------------------------------------------------------------------
(* Which of the patched methods the step of the controller runs.           *)

\* _finish_local, or _cleanup by the plugin or for a proposal of both sides: the
\* call ends or another one rings in its place.  A switch and a migration, whose
\* new call is negotiating at once, run neither.
Clears ==
    \/ Live(context) /\ ~Live(context')
    \/ Live(context) /\ context'.sid # context.sid /\ context'.state = "ringing"
    \/ attached # attached'

StartsMedia == media' \notin {media, NoEngine}

\* show_outgoing, or show_incoming for a ringing or a waiting call
PreparesShow ==
    \/ /\ context'.state \in {"proposing", "ringing"}
       /\ context'.sid # context.sid \/ ~Live(context)
    \/ waiting'.sid \notin {waiting.sid, NoSid}

\* CallWindow.connected
ShowsConnected ==
    /\ idle # <<>> /\ idle' = Tail(idle)
    /\ Head(idle).what = "connected"
    /\ Live(context)

-----------------------------------------------------------------------------
\* Mutant: the flag outlives the call.
KeepMuted == muted' = muted

\* finish_local and cleanup
MutedAfter == muted' = (muted /\ ~Clears)

\* Mutant: a new engine is not told.
AudibleUnlessToggled == audible' = IF media' = media THEN audible ELSE TRUE

\* start_media: an engine is heard until it is told otherwise.
AudibleAfter ==
    audible' = IF StartsMedia THEN ~muted'
               ELSE IF media' = NoEngine THEN TRUE ELSE audible

\* prepare_show and connected
ButtonAfter ==
    muteButton' = IF PreparesShow THEN [shown |-> FALSE, icon |-> muted']
                  ELSE IF ShowsConnected THEN [shown |-> TRUE, icon |-> muted']
                  ELSE muteButton

ControllerStep == Next /\ MutedAfter /\ AudibleAfter /\ ButtonAfter

\* on_mute: toggle_mute, set_muted and the button.
ClickMute ==
    /\ MayOvertake
    /\ window.visible /\ window.controls = "active" /\ window.sensitive
    /\ muteButton.shown
    /\ muted' = ~muted
    /\ audible' = IF media = NoEngine THEN audible ELSE muted
    /\ muteButton' = [muteButton EXCEPT !.icon = ~muted]
    /\ UNCHANGED vars

MutingInit ==
    /\ Init
    /\ muted = FALSE /\ audible = TRUE
    /\ muteButton = [shown |-> FALSE, icon |-> FALSE]

MutingNext == ControllerStep \/ ClickMute

MutingSpec == MutingInit /\ [][MutingNext]_allVars

-----------------------------------------------------------------------------
\* Whether the user is heard is what the controller believes and what the button
\* shows while it can be seen: also when the engine is one of another call than
\* the one that was muted, and when the button was hidden behind a waiting call
\* (runtime_features.py:66-80, 112-126, 150-168).
MicrophoneIsAsShown ==
    media # NoEngine =>
        /\ audible = ~muted
        /\ window.visible /\ window.controls = "active" /\ muteButton.shown =>
              muteButton.icon = ~audible

\* The flag does not wait for a later call: nobody is muted without a call, and a
\* call that starts to ring or is placed is not muted, whatever became of the one
\* before it (runtime_features.py:82-92).
MuteEndsWithCall ==
    /\ [](muted => Live(context))
    /\ [][context'.sid # context.sid /\ context'.state \in {"proposing", "ringing"}
            => ~muted']_allVars
=============================================================================
