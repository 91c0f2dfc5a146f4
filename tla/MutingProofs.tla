---------------------------- MODULE MutingProofs ----------------------------
(***************************************************************************)
(* Theorems about Muting, for every value of the constants of              *)
(* CallController.  What a step may do to the call is taken from           *)
(* CallLifecycle, which the controller implements.                         *)
(***************************************************************************)
EXTENDS Muting, CallControllerProofs

MutingTyped ==
    muted \in BOOLEAN /\ audible \in BOOLEAN /\ muteButton \in [shown: BOOLEAN, icon: BOOLEAN]

\* While there is a call the button, if it is shown, is right about the flag.
ButtonIsRight == Live(context) /\ muteButton.shown => muteButton.icon = muted

EngineIsRight == media # NoEngine => audible = ~muted

MutingInvariant ==
    /\ CallInvariant /\ MutingTyped
    /\ EngineIsRight /\ ButtonIsRight

-----------------------------------------------------------------------------
(* What CallLifecycle says of a call from one state to the next.           *)

NoneActive == \A t \in Sids : Phase(t) \notin Lifecycle!Active

\* A call begins by being proposed or by ringing, and is proposed only without
\* another.
Goes(s) ==
    /\ NoneActive => Phase(s)' \in {"none", "waiting", "proposing", "ringing"}
    /\ Phase(s)' = "proposing" => Phase(s) = "proposing" \/ NoneActive

\* Every session is in one of the phases.
LEMMA PhaseTypes == ASSUME CallInvariant PROVE \A s \in Sids : Phase(s) \in Lifecycle!Phases
BY PhaseOfCalls DEF Lifecycle!Phases, Lifecycle!Active, Live, LiveStates

\* The steps that move one call go this way.
LEMMA MoveGoes ==
    ASSUME CallInvariant, NEW s \in Sids, NEW r \in Sids,
           \/ Lifecycle!Begin(r) \/ Lifecycle!Wait(r) \/ Lifecycle!Answer(r)
           \/ Lifecycle!Connect(r) \/ Lifecycle!TurnAway(r)
    PROVE  Goes(s)
<1>0. Phase(s) \in Lifecycle!Phases
  BY PhaseTypes
<1>1. CASE Lifecycle!Begin(r)
  <2>1. NoneActive
    BY <1>1 DEF Lifecycle!Begin, Lifecycle!Free, Lifecycle!In, NoneActive
  <2>2. Phase(s)' = Phase(s) \/ (Phase(s)' \in {"proposing", "ringing"} /\ Phase(s) = "none")
    BY <1>1 DEF Lifecycle!Begin, Lifecycle!Move
  <2> QED BY <1>0, <2>1, <2>2 DEF Goes, NoneActive, Lifecycle!Phases, Lifecycle!Active
<1>2. CASE Lifecycle!Wait(r)
  <2>1. Phase(s)' = Phase(s) \/ (Phase(s)' = "waiting" /\ Phase(s) = "none")
    BY <1>2 DEF Lifecycle!Wait, Lifecycle!Move
  <2> QED BY <1>0, <2>1 DEF Goes, NoneActive, Lifecycle!Phases, Lifecycle!Active
<1>3. CASE Lifecycle!Answer(r)
  <2>1. \/ Phase(s)' = Phase(s)
        \/ Phase(s)' = "negotiating" /\ Phase(s) \in {"proposing", "ringing"}
    BY <1>3 DEF Lifecycle!Answer, Lifecycle!Move
  <2> QED BY <1>0, <2>1 DEF Goes, NoneActive, Lifecycle!Phases, Lifecycle!Active
<1>4. CASE Lifecycle!Connect(r)
  <2>1. Phase(s)' = Phase(s) \/ (Phase(s)' = "connected" /\ Phase(s) = "negotiating")
    BY <1>4 DEF Lifecycle!Connect, Lifecycle!Move
  <2> QED BY <1>0, <2>1 DEF Goes, NoneActive, Lifecycle!Phases, Lifecycle!Active
<1>5. CASE Lifecycle!TurnAway(r)
  <2>1. Phase(s)' = Phase(s) \/ (Phase(s)' = "none" /\ Phase(s) = "waiting")
    BY <1>5 DEF Lifecycle!TurnAway, Lifecycle!Move
  <2> QED BY <1>0, <2>1 DEF Goes, NoneActive, Lifecycle!Phases, Lifecycle!Active
<1> QED BY <1>1, <1>2, <1>3, <1>4, <1>5

\* So do those that move two, and the end of a call.
LEMMA Move2Goes ==
    ASSUME CallInvariant, NEW s \in Sids, NEW r \in Sids,
           \/ Lifecycle!End(r) \/ Lifecycle!Switch(r) \/ Lifecycle!Migrate(r)
           \/ Lifecycle!GiveWay(r)
    PROVE  Goes(s)
<1>0. Phase(s) \in Lifecycle!Phases
  BY PhaseTypes
<1>1. Phase(r) \in Lifecycle!Active
  BY DEF Lifecycle!End, Lifecycle!Switch, Lifecycle!Migrate, Lifecycle!GiveWay,
         Lifecycle!Move, Lifecycle!Move2, Lifecycle!Active
<1>2. \/ Phase(s)' = Phase(s) \/ Phase(s)' = "none"
      \/ /\ Phase(s)' \in {"ringing", "negotiating"}
         /\ Phase(s) \in {"waiting", "none"}
  BY DEF Lifecycle!End, Lifecycle!Switch, Lifecycle!Migrate, Lifecycle!GiveWay,
         Lifecycle!Move, Lifecycle!Move2
<1> QED BY <1>0, <1>1, <1>2 DEF Goes, NoneActive

\* Every step goes this way.
LEMMA LifecycleGoes ==
    ASSUME CallInvariant, Refined, NEW s \in Sids
    PROVE  Goes(s)
<1>0. Phase(s) \in Lifecycle!Phases
  BY PhaseTypes
<1>1. CASE UNCHANGED Calls
  BY <1>0, <1>1 DEF Calls, Goes, NoneActive, Lifecycle!Phases, Lifecycle!Active
<1> QED BY <1>1, MoveGoes, Move2Goes DEF Refined, Lifecycle!CallStep

\* A call that was not there before is proposed or rings, and none is proposed in
\* place of another.
LEMMA CallsGo ==
    ASSUME CallInvariant, CallInvariant', Next, Live(context)'
    PROVE  /\ ~Live(context) => context'.state \in {"proposing", "ringing"}
           /\ Live(context) /\ context'.state = "proposing" => context'.sid = context.sid
<1>0. context'.sid \in Sids
  BY DEF CallInvariant, CallsWellFormed, WellFormed, Live, LiveStates, NoCall
<1> PICK s \in Sids : s = context'.sid
  BY <1>0
<1>1. Phase(s)' = context'.state
  BY DEF CallInvariant, CallsWellFormed, WellFormed, Phase, ForContext, Live, LiveStates, NoCall
<1>2. Goes(s)
  <2>1. ~Deactivate
    BY DEF Deactivate, Live, LiveStates, NoCall
  <2> QED BY <2>1, NextRefines, LifecycleGoes
<1>3. CASE ~Live(context)
  <2>1. NoneActive
    BY <1>3, PhaseOfCalls DEF NoneActive, Lifecycle!Active
  <2> QED BY <1>1, <1>2, <1>3, <2>1 DEF Goes, Live, LiveStates
<1>4. CASE Live(context)
  <2>1. context.sid \in Sids /\ Phase(context.sid) = context.state /\ ~NoneActive
    BY <1>4, PhaseOfCalls DEF NoneActive, Lifecycle!Active, Live, LiveStates
  <2>2. Phase(s) = "proposing" => s = context.sid
    BY <1>1, PhaseOfCalls
  <2> QED BY <1>1, <1>2, <1>4, <2>1, <2>2 DEF Goes, Live, LiveStates
<1> QED BY <1>3, <1>4

-----------------------------------------------------------------------------
(* Muting.                                                                 *)

\* Only deactivation detaches the controller, and it leaves no call.
LEMMA DetachedWithoutCall ==
    ASSUME Next, attached' # attached
    PROVE  ~Live(context)'
<1>1. Deactivate
  BY StaysAttached
<1> QED BY <1>1 DEF Deactivate, Live, LiveStates, NoCall

\* A call that goes on after the flag is cleared is a new one that rings.
LEMMA ClearsForRinging ==
    ASSUME Next, Clears, Live(context)'
    PROVE  context'.state = "ringing" /\ context'.sid # context.sid
<1>1. Live(context') <=> Live(context)'
  BY DEF Live
<1> QED BY <1>1, DetachedWithoutCall DEF Clears

\* What a step of the controller means for the flag, its engine and its button.
LEMMA ControllerStepMutes ==
    ASSUME MutingInvariant, CallInvariant', ControllerStep
    PROVE  MutingInvariant'
<1>0. Next /\ MutingTyped
  BY DEF ControllerStep, MutingInvariant
<1>1. muted' = (muted /\ ~Clears)
  BY DEF ControllerStep, MutedAfter
<1>2. MutingTyped'
  <2>1. muted' \in BOOLEAN
    BY <1>1
  <2>2. audible' \in BOOLEAN
    BY <1>0, <2>1 DEF ControllerStep, AudibleAfter, MutingTyped
  <2>3. muteButton' \in [shown: BOOLEAN, icon: BOOLEAN]
    BY <1>0, <2>1 DEF ControllerStep, ButtonAfter, MutingTyped
  <2> QED BY <2>1, <2>2, <2>3 DEF MutingTyped
<1>3. EngineIsRight'
  <2> SUFFICES ASSUME media' # NoEngine PROVE audible' = ~muted'
    BY DEF EngineIsRight
  <2>1. CASE StartsMedia
    BY <2>1 DEF ControllerStep, AudibleAfter
  <2>2. CASE ~StartsMedia
    <3>1. media' = media /\ audible' = audible
      BY <2>2 DEF StartsMedia, ControllerStep, AudibleAfter
    <3>2. context'.state \in {"negotiating", "connected"}
      BY DEF CallInvariant, MediaBelongsToCall
    <3>3. ~Clears
      BY <1>0, <3>2, ClearsForRinging DEF Live, LiveStates
    <3>4. audible = ~muted
      BY <3>1 DEF MutingInvariant, EngineIsRight
    <3>5. muted' = muted
      BY <1>0, <1>1, <3>3 DEF MutingTyped
    <3> QED BY <3>1, <3>4, <3>5
  <2> QED BY <2>1, <2>2
<1>4. ButtonIsRight'
  <2> SUFFICES ASSUME Live(context)', muteButton'.shown PROVE muteButton'.icon = muted'
    BY DEF ButtonIsRight
  <2>1. ~PreparesShow
    BY DEF ControllerStep, ButtonAfter
  <2>2. CASE ShowsConnected
    BY <2>1, <2>2 DEF ControllerStep, ButtonAfter
  <2>3. CASE ~ShowsConnected
    <3>1. muteButton' = muteButton
      BY <2>1, <2>3 DEF ControllerStep, ButtonAfter
    <3>2. Live(context)
      BY <1>0, <2>1, CallsGo DEF PreparesShow, Live, MutingInvariant
    <3>3. ~Clears
      BY <1>0, <2>1, ClearsForRinging DEF PreparesShow
    <3>4. muteButton.icon = muted
      BY <3>1, <3>2 DEF MutingInvariant, ButtonIsRight
    <3>5. muted' = muted
      BY <1>0, <1>1, <3>3 DEF MutingTyped
    <3> QED BY <3>1, <3>4, <3>5
  <2> QED BY <2>2, <2>3
<1> QED BY <1>2, <1>3, <1>4 DEF MutingInvariant

\* The user presses the button of a call that is going on.
LEMMA ClickMutes ==
    ASSUME MutingInvariant, ClickMute
    PROVE  MutingInvariant'
<1>1. UNCHANGED vars /\ muted' = ~muted /\ MutingTyped
  BY DEF ClickMute, MutingInvariant
<1>2. CallInvariant' /\ UNCHANGED <<context, media>>
  BY <1>1, NextInvariant DEF MutingInvariant, vars, callVars, mediaVars
<1>3. /\ muteButton' = [muteButton EXCEPT !.icon = ~muted]
      /\ audible' = IF media = NoEngine THEN audible ELSE muted
  BY DEF ClickMute
<1>4. MutingTyped'
  BY <1>1, <1>3 DEF MutingTyped
<1>5. EngineIsRight'
  BY <1>1, <1>2, <1>3 DEF EngineIsRight, MutingTyped
<1>6. ButtonIsRight'
  <2>1. muteButton'.icon = ~muted
    BY <1>1, <1>3 DEF MutingTyped
  <2> QED BY <1>1, <2>1 DEF ButtonIsRight
<1> QED BY <1>2, <1>4, <1>5, <1>6 DEF MutingInvariant

\* The invariant of muting holds from the start and at every step.
THEOREM MutingInvariantHolds == MutingSpec => []MutingInvariant
<1>1. MutingInit => MutingInvariant
  <2> SUFFICES ASSUME MutingInit PROVE MutingInvariant
    OBVIOUS
  <2>1. CallInvariant
    BY InitInvariant DEF MutingInit
  <2>2. MutingTyped
    BY DEF MutingInit, MutingTyped
  <2>3. media = NoEngine /\ muteButton.shown = FALSE
    BY DEF MutingInit, Init
  <2> QED BY <2>1, <2>2, <2>3 DEF MutingInvariant, EngineIsRight, ButtonIsRight
<1>2. MutingInvariant /\ [MutingNext]_allVars => MutingInvariant'
  <2> SUFFICES ASSUME MutingInvariant, [MutingNext]_allVars PROVE MutingInvariant'
    OBVIOUS
  <2>1. CASE ControllerStep
    BY <2>1, ControllerStepMutes, NextInvariant DEF ControllerStep, MutingInvariant
  <2>2. CASE UNCHANGED allVars
    <3>1. UNCHANGED vars /\ UNCHANGED muteVars
      BY <2>2 DEF allVars
    <3> QED BY <3>1, NextInvariant DEF vars, callVars, mediaVars, muteVars, MutingInvariant,
           MutingTyped, EngineIsRight, ButtonIsRight, Live
  <2> QED BY <2>1, <2>2, ClickMutes DEF MutingNext
<1> QED BY <1>1, <1>2, PTL DEF MutingSpec

\* Whether the user is heard is what the controller believes, and what the button
\* shows while it can be seen, across ends, switches and migrations of calls.
THEOREM MicrophoneIsRight == MutingSpec => []MicrophoneIsAsShown
<1>1. MutingInvariant => MicrophoneIsAsShown
  BY DEF MutingInvariant, MutingTyped, EngineIsRight, ButtonIsRight, MicrophoneIsAsShown,
     CallInvariant, MediaBelongsToCall, Live, LiveStates
<1> QED BY <1>1, MutingInvariantHolds, PTL
-----------------------------------------------------------------------------
(* The end of muting.                                                      *)

MutedInCall == muted => Live(context)

EndInvariant == MutingInvariant /\ WindowIsOfCall /\ MutedInCall

\* What the action part of MuteEndsWithCall says of a step.
StartsHeard ==
    context'.sid # context.sid /\ context'.state \in {"proposing", "ringing"} => ~muted'

\* The flag is cleared or its call goes on, or is switched or migrated.
LEMMA ControllerStepEndsMute ==
    ASSUME EndInvariant, CallInvariant', ControllerStep
    PROVE  MutedInCall' /\ StartsHeard
<1>0. Next /\ CallInvariant
  BY DEF ControllerStep, EndInvariant, MutingInvariant
<1> SUFFICES ASSUME muted'
             PROVE  /\ Live(context)'
                    /\ context'.state \in {"proposing", "ringing"} => context'.sid = context.sid
  BY DEF MutedInCall, StartsHeard
<1>1. muted /\ ~Clears
  BY DEF ControllerStep, MutedAfter
<1>2. Live(context)
  BY <1>1 DEF EndInvariant, MutedInCall
<1>3. Live(context')
  BY <1>1, <1>2 DEF Clears
<1>4. Live(context)'
  BY <1>3 DEF Live
<1>5. context'.state = "proposing" => context'.sid = context.sid
  BY <1>0, <1>2, <1>4, CallsGo
<1> QED BY <1>1, <1>2, <1>4, <1>5 DEF Clears

\* Only the button of a window that is shown for a call sets the flag.
LEMMA ClickMutesCall ==
    ASSUME EndInvariant, ClickMute
    PROVE  EndInvariant' /\ StartsHeard
<1>1. context' = context /\ window' = window /\ window.visible
  BY DEF ClickMute, vars, callVars, uiVars
<1>2. Live(context)
  BY <1>1 DEF EndInvariant, WindowIsOfCall
<1>3. MutingInvariant'
  BY ClickMutes DEF EndInvariant
<1> QED BY <1>1, <1>2, <1>3 DEF EndInvariant, WindowIsOfCall, MutedInCall, StartsHeard, Live

\* The flag does not wait for a later call: nobody is muted without a call, and a
\* call that starts to ring or is placed is not muted.
THEOREM MuteDoesNotOutliveCall == MutingSpec => MuteEndsWithCall
<1>1. MutingInit => EndInvariant
  <2> SUFFICES ASSUME MutingInit PROVE EndInvariant
    OBVIOUS
  <2>1. CallInvariant
    BY InitInvariant DEF MutingInit
  <2>2. MutingTyped
    BY DEF MutingInit, MutingTyped
  <2>3. /\ media = NoEngine /\ window.visible = FALSE
        /\ muteButton.shown = FALSE /\ muted = FALSE
    BY DEF MutingInit, Init
  <2>4. MutingInvariant
    BY <2>1, <2>2, <2>3 DEF MutingInvariant, EngineIsRight, ButtonIsRight
  <2> QED BY <2>3, <2>4 DEF EndInvariant, WindowIsOfCall, MutedInCall
<1>2. EndInvariant /\ [MutingNext]_allVars => EndInvariant' /\ [StartsHeard]_allVars
  <2> SUFFICES ASSUME EndInvariant, [MutingNext]_allVars
               PROVE  EndInvariant' /\ [StartsHeard]_allVars
    OBVIOUS
  <2>0. CallInvariant /\ TypeOK
    BY DEF EndInvariant, MutingInvariant, CallInvariant
  <2>1. CASE ControllerStep
    <3>1. Next /\ CallInvariant'
      BY <2>0, <2>1, NextInvariant DEF ControllerStep
    <3>2. MutingInvariant' /\ MutedInCall' /\ StartsHeard
      BY <2>1, <3>1, ControllerStepMutes, ControllerStepEndsMute DEF EndInvariant
    <3>3. WindowIsOfCall'
      BY <2>0, <3>1, NextHides DEF EndInvariant
    <3> QED BY <3>2, <3>3 DEF EndInvariant
  <2>2. CASE UNCHANGED allVars
    <3>1. /\ context' = context /\ window' = window /\ media' = media
          /\ muteButton' = muteButton /\ muted' = muted /\ audible' = audible
      BY <2>2 DEF allVars, vars, callVars, uiVars, mediaVars, muteVars
    <3>2. CallInvariant'
      BY <2>0, <2>2, NextInvariant DEF allVars
    <3> QED BY <2>2, <3>1, <3>2 DEF EndInvariant, MutingInvariant, MutingTyped, EngineIsRight,
           ButtonIsRight, WindowIsOfCall, MutedInCall, Live
  <2> QED BY <2>1, <2>2, ClickMutesCall DEF MutingNext
<1>3. EndInvariant => (muted => Live(context))
  BY DEF EndInvariant, MutedInCall
<1> QED BY <1>1, <1>2, <1>3, PTL DEF MutingSpec, MuteEndsWithCall, StartsHeard
=============================================================================
