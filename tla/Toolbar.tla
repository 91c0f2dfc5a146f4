------------------------------- MODULE Toolbar -------------------------------
(***************************************************************************)
(* plugin.py: the call button.  Gajim makes and destroys the message boxes *)
(* of its chats whenever it likes and the toolbar beside them later still, *)
(* so the plugin looks for both, first at once and then from GLib timeouts *)
(* that give up after a number of attempts.                                *)
(*                                                                         *)
(* Its handlers call each other, so each is an operator from the state     *)
(* before it to the state after it; `bar` is the plugin's own state, the   *)
(* rest Gajim's widgets, which a handler finds as its step leaves them.    *)
(***************************************************************************)
EXTENDS Naturals, FiniteSets

CONSTANTS
    Boxes,      \* MessageActionsBox widgets
    NoBox,
    MaxAttempts \* the attempts of a search: 40 in the code

ASSUME ToolbarAssumption == NoBox \notin Boxes /\ MaxAttempts \in Nat \ {0}

VARIABLES
    bar,        \* the plugin's state, below
    boxes,      \* the boxes in the window
    mapped,     \* the box that is visible and mapped
    oneToOne,   \* the boxes whose current contact is not a group
    hasToolbar  \* there is a toolbar with a search button

widgets == <<boxes, mapped, oneToOne, hasToolbar>>

NoId == 0
NoButton == 0
Indicators == {"start", "cancel", "hangup"}

\* box and button are _toolbar_entry, label and shown that button's; children
\* the call buttons in Gajim's toolbar; indicator is _call_active with
\* _call_connected; a search is its source id and its attempts; sources are
\* the timeouts GLib has for the plugin.
NoSearch == [id |-> NoId, attempts |-> 0]
InitialBar ==
    [box |-> NoBox, button |-> NoButton, label |-> "start", shown |-> FALSE,
     children |-> {}, indicator |-> "start",
     attach |-> NoSearch, startup |-> NoSearch, sources |-> {}]

Searches == {"attach", "startup"}

-----------------------------------------------------------------------------
(* Searches.  Attempts are only compared with the limit, so counting stops *)
(* there.                                                                  *)

Source(which, id) == [search |-> which, id |-> id]

FreshId(b) == CHOOSE n \in 1 .. 3 : \A s \in b.sources : s.id # n

\* GLib.timeout_add
Arm(b, which) ==
    [b EXCEPT ![which].id = FreshId(b),
              !.sources = @ \cup {Source(which, FreshId(b))}]

\* Mutant: the timeout is forgotten but not removed.
CancelForgetting(b, which) == [b EXCEPT ![which] = NoSearch]

\* _cancel_startup_retry and _cancel_toolbar_retry: without a timeout the
\* attempts of the last search remain.
Cancel(b, which) ==
    IF b[which].id = NoId THEN b
    ELSE [b EXCEPT ![which] = NoSearch,
                   !.sources = {s \in @ : s.id # b[which].id}]

\* Mutant: a failed attempt is not counted.
AttemptUncounted(b, which) == b

\* One more attempt has failed.
Attempt(b, which) ==
    LET attempts == IF b[which].attempts < MaxAttempts THEN b[which].attempts + 1
                                                       ELSE MaxAttempts
    IN  [b EXCEPT ![which] = [id |-> IF attempts = MaxAttempts THEN NoId ELSE @.id,
                              attempts |-> attempts]]

Exhausted(b, which) == b[which].attempts = MaxAttempts

-----------------------------------------------------------------------------
(* The button.                                                             *)

\* set_call_active
SetCallActive(b, indicator) ==
    [b EXCEPT !.indicator = indicator,
              !.label = IF b.box = NoBox THEN @ ELSE indicator]

\* _attach_toolbar_control: whether it is to be called again is Unattached.
AttachToolbarControl(b) ==
    LET seen == [b EXCEPT !.shown = b.box \in oneToOne']
    IN  IF b.box = NoBox THEN [b EXCEPT !.attach.id = NoId]
        ELSE IF hasToolbar'
          THEN SetCallActive([seen EXCEPT !.children = @ \cup {b.button},
                                          !.attach = NoSearch],
                             b.indicator)
        ELSE Attempt(seen, "attach")

Unattached(b) == b.box # NoBox /\ ~hasToolbar' /\ ~Exhausted(AttachToolbarControl(b), "attach")

ScheduleToolbarAttach(b) ==
    LET free == Cancel(b, "attach")
        tried == AttachToolbarControl(free)
    IN  IF Unattached(free) THEN Arm(tried, "attach") ELSE tried

\* Mutant: the button is left where it is.
RemoveToolbarControlOnly(b) ==
    [Cancel(b, "attach") EXCEPT !.box = NoBox, !.button = NoButton]

RemoveToolbarControl(b) ==
    [Cancel(b, "attach") EXCEPT !.box = NoBox, !.button = NoButton,
                                !.children = @ \ {b.button}]

FreshButton(b) == CHOOSE n \in 1 .. Cardinality(b.children) + 1 : n \notin b.children

\* _message_actions_box_created
MessageActionsBoxCreated(b, box) ==
    LET free == Cancel(b, "startup")
        clean == IF free.box = NoBox THEN free ELSE RemoveToolbarControl(free)
        new == [clean EXCEPT !.box = box, !.button = FreshButton(clean),
                             !.label = "start", !.shown = box \in oneToOne']
    IN  IF free.box = box
          THEN ScheduleToolbarAttach([free EXCEPT !.shown = box \in oneToOne'])
          ELSE ScheduleToolbarAttach(SetCallActive(new, new.indicator))

\* _find_current_message_actions_box: any box, for want of one that is mapped.
CurrentBox ==
    IF boxes' = {} THEN NoBox
    ELSE IF mapped' # NoBox THEN mapped' ELSE CHOOSE box \in boxes' : TRUE

\* _ensure_toolbar_registered: whether it is to be called again is Unregistered.
EnsureToolbarRegistered(b) ==
    LET found == [b EXCEPT !.startup = NoSearch]
    IN  IF b.box # NoBox THEN ScheduleToolbarAttach(found)
        ELSE IF CurrentBox # NoBox THEN MessageActionsBoxCreated(found, CurrentBox)
        ELSE Attempt(b, "startup")

Unregistered(b) ==
    b.box = NoBox /\ CurrentBox = NoBox /\ ~Exhausted(Attempt(b, "startup"), "startup")

ScheduleStartupRegistration(b) ==
    LET free == Cancel(b, "startup")
        tried == EnsureToolbarRegistered(free)
    IN  IF Unregistered(free) THEN Arm(tried, "startup") ELSE tried

\* Mutant: the plugin waits for Gajim to tell of the next box.
BoxDestroyedUnreplaced(b, box) == IF b.box # box THEN b ELSE RemoveToolbarControl(b)

\* _message_actions_box_destroyed
MessageActionsBoxDestroyed(b, box) ==
    IF b.box # box THEN b ELSE ScheduleStartupRegistration(RemoveToolbarControl(b))

\* A timeout's callback; GLib drops the source if it is not to be called again.
Fire(b, source) ==
    LET after == IF source.search = "attach" THEN AttachToolbarControl(b)
                                             ELSE EnsureToolbarRegistered(b)
        again == IF source.search = "attach" THEN Unattached(b) ELSE Unregistered(b)
    IN  IF again THEN after ELSE [after EXCEPT !.sources = @ \ {source}]
=============================================================================
