-------------------------- MODULE PluginProperties --------------------------
(***************************************************************************)
(* What must hold of the plugin whatever Gajim does with its widgets.      *)
(***************************************************************************)
EXTENDS Plugin

\* There is one call button at most, that of the current box, and it shows the
\* call the controller has, also if it was made, moved or replaced during the call
\* and after the plugin was deactivated and activated again: unless deactivation
\* dropped a call, which shutdown does not tell the button, and no other call was
\* shown since (plugin.py:114-120, 258-281, 298-362).
ButtonShowsTheCall ==
    /\ bar.children \subseteq {bar.button}
    /\ bar.box # NoBox /\ call # "dropped" => bar.label = call

\* The timeouts GLib has are those the plugin holds the ids of, no two for one
\* search and none without a plugin, so nothing fires for a button that is gone
\* (plugin.py:210-218, 248-256, 293-305).
TimeoutsAreHeld ==
    /\ bar.sources = {Source(w, bar[w].id) : w \in {v \in Searches : bar[v].id # NoId}}
    /\ ~active => bar.sources = {} /\ bar.box = NoBox /\ bar.children = {}

\* An active plugin without a box looks for one, and a button that is not in the
\* toolbar for its place, unless it has done all its attempts (plugin.py:220-246,
\* 283-296, 364-371).
KeepsLooking ==
    active =>
        /\ bar.box = NoBox => bar.startup.id # NoId \/ Exhausted(bar, "startup")
        /\ bar.box # NoBox /\ bar.button \notin bar.children =>
              bar.attach.id # NoId \/ Exhausted(bar, "attach")

\* What the loop over the features computes, for the features there are: it adds
\* those of the calls that are not there, each once (capabilities.py:29-37).
ExtensionAddsWhatIsMissing ==
    /\ IsInjective(Own) /\ IsInjective(ExtendCallCapabilities(Own, HasVideo))
    /\ ToSet(ExtendCallCapabilities(Own, HasVideo)) =
         ToSet(Own) \cup ToSet(CallCapabilities(HasVideo))

\* Once the refresh that deactivate leaves for later has run, an account that
\* can be reached advertises calls exactly while the plugin is there to take
\* them, video only if it can be sent, and no feature twice (plugin.py:88-120,
\* capabilities.py:22-36).
CapabilitiesFollowPlugin ==
    \A a \in online :
        ~refreshes =>
            /\ IsInjective(advertised[a])
            /\ ToSet(advertised[a]) =
                 ToSet(Own) \cup (IF active THEN ToSet(CallCapabilities(HasVideo)) ELSE {})

\* While nothing happens to the window and the plugin, its timeouts come to an
\* end: the searches succeed or give up (plugin.py:220-296).
SearchesEnd ==
    <>[][UNCHANGED <<active, widgets>>]_<<active, widgets>> => <>[](bar.sources = {})
=============================================================================
