SPECIFICATION FairSpec
CONSTANTS
  c1 = c1
  c2 = c2
  NoCandidate = NoCandidate
  Candidates = {c1, c2}
CHECK_DEADLOCK FALSE
INVARIANT MediaTypeOK CandidatesAreKept FirstMicrophoneSettingHolds
PROPERTY ClosedEngineHasACloser ClosedFacadeIsSilent StartIsReported AnswerIsApplied
