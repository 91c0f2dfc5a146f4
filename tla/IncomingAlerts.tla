--------------------------- MODULE IncomingAlerts ---------------------------
(***************************************************************************)
(* alerts.py, as runtime_features.py changes it, with ringtone.py and the  *)
(* settings config.py saves: one call at a time is announced by a desktop  *)
(* notification and a ringtone.  A bundled ringtone is decoded into a file *)
(* of the cache, where a write that failed half-way may have left another  *)
(* content.                                                                *)
(***************************************************************************)
EXTENDS Naturals, FiniteSets

CONSTANTS
    Calls,      \* session ids
    Bundled,    \* names of the bundled ringtones
    Default,    \* DEFAULT_BUILTIN_RINGTONE
    Settings,   \* what the user may have saved
    NoAlert

ASSUME AlertAssumption == Default \in Bundled /\ NoAlert \notin Calls

VARIABLES
    announced,     \* _sid
    ringing,       \* the call and the content that _media plays
    notified,      \* the call whose notification is shown
    settings,      \* plugin.config
    cache,         \* the content of each ringtone's file
    customExists   \* whether the user's own file is there

alertVars == <<announced, ringing, notified, settings, cache, customExists>>

Quiet == [call |-> NoAlert, content |-> "none"]

\* normalize_builtin_ringtone
Normalized(name) == IF name \in Bundled THEN name ELSE Default

-----------------------------------------------------------------------------
\* Mutant: a file that is there is taken for the ringtone.
EnsureIfMissing(name) ==
    cache' = IF cache[Normalized(name)] = "missing"
               THEN [cache EXCEPT ![Normalized(name)] = "whole"] ELSE cache

\* ensure_builtin_ringtone: a file with another content is written again.
EnsureBuiltin(name) == cache' = [cache EXCEPT ![Normalized(name)] = "whole"]

\* Disk full: the exception leaves the file as it was, or cut short.
BuiltinFails(name) ==
    /\ cache[Normalized(name)] # "whole"
    /\ \E content \in {cache[Normalized(name)], "broken"} :
          cache' = [cache EXCEPT ![Normalized(name)] = content]

\* _start_ringtone: an existing file of the user's goes first.
StartRingtone(call) ==
    IF settings.custom /\ customExists
      THEN /\ \/ ringing' = [call |-> call, content |-> "custom"]
              \/ ringing' = Quiet      \* the player does not start
           /\ UNCHANGED cache
      ELSE \/ /\ EnsureBuiltin(settings.builtin)
              /\ \/ ringing' = [call |-> call, content |-> cache'[Normalized(settings.builtin)]]
                 \/ ringing' = Quiet
           \/ /\ BuiltinFails(settings.builtin)
              /\ ringing' = Quiet

\* start: nothing if the call is announced already.  The last announcement is
\* stopped first, so what is not started now is silent.
Announce(call) ==
    /\ IF announced = call THEN UNCHANGED <<announced, ringing, notified, cache>>
       ELSE /\ announced' = call
            /\ \/ notified' = IF settings.notifications THEN call ELSE NoAlert
               \/ notified' = NoAlert      \* no application, or it fails
            /\ IF settings.ringtone THEN StartRingtone(call)
               ELSE ringing' = Quiet /\ UNCHANGED cache
    /\ UNCHANGED <<settings, customExists>>

\* stop.  Pausing the player and withdrawing the notification are taken to succeed:
\* an exception in either is only logged, and what it left is forgotten.
Silence ==
    /\ announced' = NoAlert /\ ringing' = Quiet /\ notified' = NoAlert
    /\ UNCHANGED <<settings, cache, customExists>>

\* stop: another call's announcement goes on.
StopAnnouncing(call) ==
    IF announced \notin {NoAlert, call} THEN UNCHANGED alertVars ELSE Silence

\* ConfigDialog._save: for the next call.
SaveSettings ==
    /\ settings' \in Settings
    /\ UNCHANGED <<announced, ringing, notified, cache, customExists>>

\* The cache is cleaned up, a write is cut short, the user's file goes or comes.
FilesChange ==
    /\ \/ \E name \in Bundled, content \in {"missing", "broken"} :
            /\ cache' = [cache EXCEPT ![name] = content]
            /\ UNCHANGED customExists
       \/ customExists' = ~customExists /\ UNCHANGED cache
    /\ UNCHANGED <<announced, ringing, notified, settings>>

AlertInit ==
    /\ announced = NoAlert /\ ringing = Quiet /\ notified = NoAlert
    /\ settings \in Settings
    /\ cache \in [Bundled -> {"missing", "whole"}]
    /\ customExists \in BOOLEAN

AlertNext ==
    \/ \E call \in Calls : Announce(call) \/ StopAnnouncing(call)
    \/ Silence
    \/ SaveSettings
    \/ FilesChange

AlertSpec == AlertInit /\ [][AlertNext]_alertVars

-----------------------------------------------------------------------------
\* Sound and notification are those of the announced call, none is left when it
\* is over or another one is announced instead, and what is played is whole,
\* whatever an earlier failure left in the cache (alerts.py:51-134,
\* ringtone.py:31-61).
AlertLeavesNoTrace ==
    /\ ringing.call \in {NoAlert, announced}
    /\ notified \in {NoAlert, announced}
    /\ ringing.content \in {"none", "custom", "whole"}
=============================================================================
