------------------------------- MODULE Plugin -------------------------------
(***************************************************************************)
(* plugin.py: the life cycle of the plugin around its toolbar button and   *)
(* the features it adds to what the accounts advertise.  The controller    *)
(* is the one who shows calls on the button: here any, in any order.  The  *)
(* alerts it starts and stops are the subject of IncomingAlerts.           *)
(***************************************************************************)
EXTENDS Toolbar, Sequences, SequencesExt

CONSTANTS
    Accounts,
    Own,        \* the features Gajim advertises without the plugin
    Audio,      \* _BASE_CALL_CAPABILITIES
    Video,      \* RTP_VIDEO
    HasVideo    \* _video_available: the runtime can send video

VARIABLES
    call,       \* the call the controller has, as it shows it, or "dropped"
    active,     \* Gajim has the plugin's handlers
    registered, \* module._controller is not None
    online,     \* accounts whose client can be reached
    advertised, \* the features each account advertises
    refreshes   \* _refresh_caps_idle is queued

lifeVars == <<active, registered, online, advertised, refreshes>>
vars == <<bar, call, widgets, lifeVars>>

-----------------------------------------------------------------------------
(* capabilities.py                                                         *)

CallCapabilities(video) == IF video THEN Append(Audio, Video) ELSE Audio

\* Mutant: features are appended whether they are there or not.
ExtendTwice(features, video) == features \o CallCapabilities(video)

ExtendCallCapabilities(features, video) ==
    LET AddNew(list, feature) ==
          IF Contains(list, feature) THEN list ELSE Append(list, feature)
    IN  FoldLeft(AddNew, features, CallCapabilities(video))

\* What Gajim computes with the handlers it has after the step: _update_caps.
Computed == IF active' THEN ExtendCallCapabilities(Own, HasVideo) ELSE Own

\* _refresh_caps: an account that cannot be reached is skipped.
RefreshCaps ==
    advertised' = [a \in Accounts |-> IF a \in online THEN Computed ELSE advertised[a]]

-----------------------------------------------------------------------------
(* Life cycle.                                                             *)

\* The bars after a handler was called for none of the boxes, for one or, at most,
\* for two of them, one after the other.
ToldOfBoxes ==
    LET Told(b, box) == MessageActionsBoxCreated(b, box)
    IN  {bar} \cup {Told(bar, box) : box \in boxes}
              \cup {Told(Told(bar, pair[1]), pair[2]) : pair \in boxes \X boxes}

ToldTheyAreGone ==
    LET Told(b, box) == MessageActionsBoxDestroyed(b, box)
    IN  {bar} \cup {Told(bar, box) : box \in boxes}
              \cup {Told(Told(bar, pair[1]), pair[2]) : pair \in boxes \X boxes}

\* activate, after Gajim told the new handlers of the boxes there are, or of
\* none of them.
Activate ==
    /\ ~active
    /\ active' = TRUE
    /\ UNCHANGED <<call, widgets>>
    /\ \E told \in ToldOfBoxes :
         bar' = ScheduleStartupRegistration(told)
    /\ RefreshCaps
    /\ UNCHANGED <<registered, online, refreshes>>

\* deactivate, after Gajim took its boxes away from the handlers, or not.
\* shutdown of the controller ends the call and does not change the button.
Deactivate ==
    /\ active
    /\ active' = FALSE /\ registered' = FALSE
    /\ call' = IF call = "start" THEN call ELSE "dropped"
    /\ UNCHANGED widgets
    /\ \E told \in ToldTheyAreGone :
         bar' = RemoveToolbarControl(Cancel(told, "startup"))
    /\ refreshes' = TRUE
    /\ UNCHANGED <<online, advertised>>

RefreshCapsIdle ==
    /\ refreshes
    /\ refreshes' = FALSE
    /\ UNCHANGED active
    /\ RefreshCaps
    /\ UNCHANGED <<bar, call, widgets, registered, online>>

\* An account goes offline, or comes back and Gajim advertises its features.
Reconnect(account) ==
    /\ online' = IF account \in online THEN online \ {account} ELSE online \cup {account}
    /\ UNCHANGED active
    /\ advertised' = IF account \in online THEN advertised
                     ELSE [advertised EXCEPT ![account] = Computed]
    /\ UNCHANGED <<bar, call, widgets, registered, refreshes>>

-----------------------------------------------------------------------------
(* Gajim's window.                                                         *)

BoxMade(box) ==
    /\ box \notin boxes
    /\ boxes' = boxes \cup {box}
    /\ UNCHANGED <<mapped, oneToOne, hasToolbar>>
    /\ bar' = IF active THEN MessageActionsBoxCreated(bar, box) ELSE bar
    /\ UNCHANGED <<call, lifeVars>>

\* The toolbar goes with the last chat.
BoxGone(box) ==
    /\ box \in boxes
    /\ boxes' = boxes \ {box}
    /\ oneToOne' = oneToOne \ {box}
    /\ mapped' = IF mapped = box THEN NoBox ELSE mapped
    /\ hasToolbar' = (hasToolbar /\ boxes' # {})
    /\ LET left == [bar EXCEPT !.children = IF hasToolbar' THEN @ ELSE {}]
       IN  bar' = IF active THEN MessageActionsBoxDestroyed(left, box) ELSE left
    /\ UNCHANGED <<call, lifeVars>>

ToolbarBuilt ==
    /\ boxes # {} /\ ~hasToolbar
    /\ hasToolbar' = TRUE
    /\ UNCHANGED <<bar, call, boxes, mapped, oneToOne, lifeVars>>

\* Another chat is shown, with another contact.
ChatShown(box) ==
    /\ box \in boxes
    /\ mapped' = box
    /\ oneToOne' \in {oneToOne \cup {box}, oneToOne \ {box}}
    /\ UNCHANGED <<bar, call, boxes, hasToolbar, lifeVars>>

-----------------------------------------------------------------------------
(* Timeouts, the user and the controller.                                  *)

Timeout(source) ==
    /\ UNCHANGED <<call, widgets>>
    /\ bar' = Fire(bar, source)
    /\ UNCHANGED lifeVars

\* The button is told of the call there is now.
Show(indicator) == bar' = SetCallActive(bar, indicator) /\ call' = indicator

\* _on_call_button_clicked: hanging up may leave a caller who waited, and now
\* rings.  A group gets a dialog instead of a call.
ClickCallButton ==
    /\ bar.button \in bar.children /\ bar.shown
    /\ IF bar.indicator # "start" THEN Show("start") \/ (call # "dropped" /\ Show("cancel"))
       ELSE IF bar.box \in oneToOne THEN Show("cancel")
       ELSE UNCHANGED <<bar, call>>
    /\ UNCHANGED <<widgets, lifeVars>>

ControllerShows(indicator) ==
    /\ active
    /\ Show(indicator)
    /\ UNCHANGED <<widgets, lifeVars>>

-----------------------------------------------------------------------------
PluginInit ==
    /\ bar = InitialBar /\ call = "start"
    /\ boxes = {} /\ mapped = NoBox /\ oneToOne = {} /\ hasToolbar = FALSE
    /\ active = FALSE /\ registered = TRUE /\ refreshes = FALSE
    /\ online \in {Accounts, {}}
    /\ advertised = [a \in Accounts |-> Own]

TimeoutStep == \E source \in bar.sources : Timeout(source)

WindowStep ==
    \/ \E box \in Boxes : BoxMade(box) \/ BoxGone(box) \/ ChatShown(box)
    \/ ToolbarBuilt

PluginNext ==
    \/ Activate
    \/ Deactivate
    \/ RefreshCapsIdle
    \/ \E account \in Accounts : Reconnect(account)
    \/ WindowStep
    \/ TimeoutStep
    \/ ClickCallButton
    \/ \E indicator \in Indicators : ControllerShows(indicator)

PluginSpec == PluginInit /\ [][PluginNext]_vars

\* GLib keeps calling a timeout that stays armed and an idle callback once.
FairPlugin ==
    /\ PluginSpec
    /\ WF_vars(RefreshCapsIdle)
    /\ \A which \in Searches :
         WF_bar(\E source \in bar.sources : source.search = which /\ Timeout(source))
=============================================================================
