--------------------------- MODULE CallLifecycle ---------------------------
(***************************************************************************)
(* What a user sees of the calls: the phase each session id is in.  There  *)
(* is one call at a time, and at most one caller waiting behind it.        *)
(* CallController implements this specification (CallProperties).          *)
(***************************************************************************)
CONSTANT Sids

VARIABLES
    phase,  \* of each session id
    on      \* the plugin is active

Active == {"proposing", "ringing", "negotiating", "connected"}
Phases == Active \cup {"none", "waiting"}

In(states) == {s \in Sids : phase[s] \in states}

Free == In(Active) = {}

Init == phase = [s \in Sids |-> "none"] /\ on = TRUE

Move(s, from, to) == phase[s] \in from /\ phase' = [phase EXCEPT ![s] = to]

Move2(s, fromS, toS, t, fromT, toT) ==
    /\ s # t
    /\ phase[s] \in fromS /\ phase[t] \in fromT
    /\ phase' = [phase EXCEPT ![s] = toS, ![t] = toT]

\* This side places a call, or a contact's call rings, only when there is none.
Begin(s) == on /\ Free /\ \E to \in {"proposing", "ringing"} : Move(s, {"none"}, to)

\* A call that arrives during a connected call waits, if no other does.
Wait(s) ==
    /\ In({"connected"}) # {} /\ In({"waiting"}) = {}
    /\ Move(s, {"none"}, "waiting")

Answer(s) == Move(s, {"proposing", "ringing"}, "negotiating")

Connect(s) == Move(s, {"negotiating"}, "connected")

\* The active call ends; a waiting call then rings as a normal call.
End(s) ==
    \/ In({"waiting"}) = {} /\ Move(s, Active, "none")
    \/ \E t \in Sids : Move2(s, Active, "none", t, {"waiting"}, "ringing")

\* The waiting caller is turned away or gives up: the active call goes on.
TurnAway(s) == Move(s, {"waiting"}, "none")

\* The waiting call is accepted in place of the active one.
Switch(s) ==
    \E t \in Sids : Move2(s, Active, "none", t, {"waiting"}, "negotiating")

\* The contact of the call replaces its session by a new one.
Migrate(s) ==
    \E t \in Sids :
        Move2(s, {"negotiating", "connected"}, "none", t, {"none"}, "negotiating")

\* Both sides proposed and the contact's proposal wins.
GiveWay(s) == \E t \in Sids : Move2(s, {"proposing"}, "none", t, {"none"}, "ringing")

\* The plugin is deactivated, once: only this drops a waiting caller together with
\* the call in front.
Drop == on /\ on' = FALSE /\ phase' = [s \in Sids |-> "none"]

\* What happens to a call while the plugin stays as it is.
CallStep ==
    \E s \in Sids : \/ Begin(s) \/ Wait(s) \/ Answer(s) \/ Connect(s) \/ End(s)
                    \/ TurnAway(s) \/ Switch(s) \/ Migrate(s) \/ GiveWay(s)

Next == Drop \/ (CallStep /\ UNCHANGED on)

Spec == Init /\ [][Next]_<<phase, on>>
=============================================================================
