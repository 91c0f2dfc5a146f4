------------------------------ MODULE MCCalls ------------------------------
(***************************************************************************)
(* Small instances of CallProperties for TLC: two contacts with one or two *)
(* devices each; call 2 is this side's, calls 1 and 3 are the contacts'.   *)
(***************************************************************************)
EXTENDS CallProperties, TLC

CONSTANTS ann, bob, annPhone, annDesk, bobPhone

OneDeviceEach == [d \in {annPhone, bobPhone} |-> IF d = bobPhone THEN bob ELSE ann]

TwoDevicesForAnn == [d \in {annPhone, annDesk} |-> ann]

\* Calls 1, 2 and 3 are ann's, so both sides may propose to each other, either
\* may win, and a contact may replace its call; or 3 is bob's, and may wait.
WithAnnOnly == [s \in Sids |-> ann]
WithBoth == [s \in Sids |-> IF s = 3 THEN bob ELSE ann]

DeviceSymmetry == Permutations({annPhone, annDesk})

\* What the future depends on: not the stanzas already sent, and of an engine that
\* is closed only whether it has failed or connected, or still may.
Closed == IF StaleReports THEN {e \in Engines : engines[e] = "closed"} ELSE {}
MayFail == {e \in Closed : <<e, "failed">> \notin reports}
MayConnect ==
    {e \in Closed : /\ e \in answered /\ <<e, "description">> \in reports
                    /\ <<e, "connected">> \notin reports}

RelevantState ==
    <<callVars, timerVars, uiVars, networkVars, idle,
      media, localDescription, pendingLocal, early, engines,
      {e \in answered : engines[e] = "open"},
      {r \in reports : engines[r[1]] = "open"}, MayFail, MayConnect>>
=============================================================================
