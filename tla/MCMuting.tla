------------------------------ MODULE MCMuting ------------------------------
(* A small instance of Muting: the contacts of MCCalls.                        *)
EXTENDS Muting

CONSTANTS ann, bob, annPhone, bobPhone

OneDeviceEach == [d \in {annPhone, bobPhone} |-> IF d = bobPhone THEN bob ELSE ann]
WithBoth == [s \in Sids |-> IF s = 3 THEN bob ELSE ann]

\* What the future depends on: see MCCalls, without late reports.
RelevantMuting ==
    <<callVars, timerVars, uiVars, networkVars, idle,
      media, localDescription, pendingLocal, early, engines, muteVars,
      {e \in answered : engines[e] = "open"}, {r \in reports : engines[r[1]] = "open"}>>
=============================================================================
