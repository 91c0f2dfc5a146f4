----------------------------- MODULE MCParties -----------------------------
(***************************************************************************)
(* Two clients with one device and one call each to place: 1 is the        *)
(* contact's, 2 this side's.                                               *)
(***************************************************************************)
EXTENDS PartyProperties, TLC

\* What the future depends on (see MCCalls).
Relevant ==
    <<Here!callVars, Here!timerVars, Here!uiVars, Here!networkVars, idle, media, localDescription,
      pendingLocal, early, engines, inbox,
      {e \in answered : engines[e] = "open"}, {r \in reports : engines[r[1]] = "open"}>>

RelevantThere ==
    <<There!callVars, There!timerVars, There!uiVars, There!networkVars, thereIdle,
      thereMedia, thereLocalDescription, therePendingLocal, thereEarly, thereEngines,
      thereInbox, {e \in thereAnswered : thereEngines[e] = "open"},
      {r \in thereReports : thereEngines[r[1]] = "open"}>>

RelevantState == <<Relevant, RelevantThere>>
=============================================================================
