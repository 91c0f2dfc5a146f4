-------------------------- MODULE MediaEngineProofs --------------------------
(***************************************************************************)
(* Theorems about MediaEngine, for every set of candidates.                *)
(***************************************************************************)
EXTENDS MediaProperties, TLAPS, SequenceTheorems

\* A report added at the end, or the first one taken, leaves a queue of reports.
LEMMA QueueTypes ==
    ASSUME idle \in Seq(Reports)
    PROVE  /\ \A r \in Reports : Append(idle, r) \in Seq(Reports)
           /\ idle # <<>> => Tail(idle) \in Seq(Reports) /\ Head(idle) \in Reports
OBVIOUS

\* The queue of callbacks stays one: at its end a report is added, from its front
\* one is taken, and neither loses any other.
LEMMA QueueFacts ==
    ASSUME idle \in Seq(Reports)
    PROVE  /\ \A r \in Reports :
                 /\ Append(idle, r) \in Seq(Reports)
                 /\ \A i \in DOMAIN idle : /\ i \in DOMAIN Append(idle, r)
                                         /\ Append(idle, r)[i] = idle[i]
                 /\ \E i \in DOMAIN Append(idle, r) : Append(idle, r)[i] = r
           /\ idle # <<>> =>
                 /\ Tail(idle) \in Seq(Reports) /\ Head(idle) \in Reports
                 /\ \A i \in DOMAIN idle :
                       \/ idle[i] = Head(idle)
                       \/ \E j \in DOMAIN Tail(idle) : Tail(idle)[j] = idle[i]
<1>1. ASSUME NEW r \in Reports
      PROVE  /\ Append(idle, r) \in Seq(Reports)
             /\ \A i \in DOMAIN idle : /\ i \in DOMAIN Append(idle, r)
                                     /\ Append(idle, r)[i] = idle[i]
             /\ \E i \in DOMAIN Append(idle, r) : Append(idle, r)[i] = r
  <2>1. Append(idle, r) \in Seq(Reports) /\ Len(Append(idle, r)) = Len(idle) + 1
        /\ Append(idle, r)[Len(idle) + 1] = r
    OBVIOUS
  <2> QED BY <2>1
<1>2. ASSUME idle # <<>>, NEW i \in DOMAIN idle, idle[i] # Head(idle)
      PROVE  \E j \in DOMAIN Tail(idle) : Tail(idle)[j] = idle[i]
  <2>1. i - 1 \in 1 .. Len(Tail(idle)) /\ Tail(idle)[i - 1] = idle[i]
    BY <1>2
  <2> QED BY <2>1
<1> QED BY <1>1, <1>2

\* Every step keeps the types.
LEMMA TypesPreserved ==
    ASSUME MediaTypeOK,
           [Next]_vars
    PROVE  MediaTypeOK'
<1>1. ASSUME NEW m \in {"offer", "answer"}, Begin(m) PROVE MediaTypeOK'
  BY <1>1 DEF Begin, MediaTypeOK, FacadeTyped, ThreadsTyped, EngineTyped,
         ControllerTyped, Worker, Places, engineVars, controllerVars
<1>2. ASSUME NEW setting \in Settings, SetFirstMicrophone(setting) PROVE MediaTypeOK'
  BY <1>2 DEF SetFirstMicrophone, SetMicrophone, MediaTypeOK, FacadeTyped,
         ThreadsTyped, EngineTyped, ControllerTyped, threadVars, controllerVars
<1>3. CASE ToggleMicrophone
  BY <1>3 DEF ToggleMicrophone, SetMicrophone, MediaTypeOK, FacadeTyped,
         ThreadsTyped, EngineTyped, ControllerTyped, threadVars, controllerVars
<1>4. CASE SetRemoteAnswer
  <2>1. FacadeTyped'
    BY <1>4 DEF SetRemoteAnswer, MediaTypeOK, FacadeTyped
  <2>2. ThreadsTyped'
    BY <1>4 DEF SetRemoteAnswer, MediaTypeOK, ThreadsTyped, threadVars
  <2>3. EngineTyped'
    BY <1>4 DEF SetRemoteAnswer, MediaTypeOK, EngineTyped
  <2>4. ControllerTyped'
    BY <1>4 DEF SetRemoteAnswer, MediaTypeOK, ControllerTyped
  <2> QED BY <2>1, <2>2, <2>3, <2>4 DEF MediaTypeOK
<1>5. ASSUME NEW c \in Candidates, AddRemoteCandidate(c) PROVE MediaTypeOK'
  BY <1>5 DEF AddRemoteCandidate, OfferCandidate, MediaTypeOK,
         FacadeTyped, ThreadsTyped, EngineTyped, ControllerTyped
<1>6. CASE Close
  <2>1. FacadeTyped'
    BY <1>6 DEF Close, MediaTypeOK, FacadeTyped
  <2>2. ThreadsTyped'
    BY <1>6 DEF Close, MediaTypeOK, ThreadsTyped
  <2>3. EngineTyped'
    BY <1>6 DEF Close, MediaTypeOK, EngineTyped, engineVars
  <2>4. ControllerTyped'
    BY <1>6 DEF Close, MediaTypeOK, ControllerTyped, controllerVars
  <2> QED BY <2>1, <2>2, <2>3, <2>4 DEF MediaTypeOK
<1>7. ASSUME NEW t \in Threads, AppendCandidate(t) PROVE MediaTypeOK'
  BY <1>7 DEF AppendCandidate, MediaTypeOK, FacadeTyped, ThreadsTyped,
         EngineTyped, ControllerTyped, facadeVars, controllerVars
<1>8. CASE RunIdle
  <2>1. FacadeTyped'
    BY <1>8, QueueTypes DEF RunIdle, DeliverDescription, DeliverCandidate,
           DeliverOutcome, MediaTypeOK, FacadeTyped, facadeVars
  <2>2. ThreadsTyped'
    BY <1>8, QueueTypes DEF RunIdle, DeliverDescription, DeliverCandidate,
           DeliverOutcome, MediaTypeOK, ThreadsTyped, threadVars
  <2>3. EngineTyped'
    BY <1>8, QueueTypes DEF RunIdle, DeliverDescription, DeliverCandidate,
           DeliverOutcome, ApplyPendingAnswer, MediaTypeOK, EngineTyped, engineVars
  <2>4. ControllerTyped'
    BY <1>8, QueueTypes DEF RunIdle, DeliverDescription, DeliverCandidate,
           DeliverOutcome, Hear, MediaTypeOK, ControllerTyped
  <2> QED BY <2>1, <2>2, <2>3, <2>4 DEF MediaTypeOK
<1>9. CASE BuildEngine
  BY <1>9 DEF BuildEngine, Go, MediaTypeOK, FacadeTyped, ThreadsTyped,
         EngineTyped, ControllerTyped, Worker, Places, facadeVars, controllerVars
<1>10. CASE BuildFails
  <2>1. FacadeTyped'
    BY <1>10, QueueTypes DEF BuildFails, MediaTypeOK, FacadeTyped
  <2>2. ThreadsTyped'
    BY <1>10, QueueTypes DEF BuildFails, Go, MediaTypeOK, ThreadsTyped, Worker, Places
  <2>3. EngineTyped'
    BY <1>10, QueueTypes DEF BuildFails, MediaTypeOK, EngineTyped, engineVars
  <2>4. ControllerTyped'
    BY <1>10, QueueTypes DEF BuildFails, Queue, MediaTypeOK, ControllerTyped, Reports,
           controllerVars
  <2> QED BY <2>1, <2>2, <2>3, <2>4 DEF MediaTypeOK
<1>11. CASE PublishEngine
  <2>1. FacadeTyped'
    BY <1>11 DEF PublishEngine, MediaTypeOK, FacadeTyped
  <2>2. EngineTyped' /\ ControllerTyped'
    BY <1>11 DEF PublishEngine, MediaTypeOK, EngineTyped, ControllerTyped, engineVars,
           controllerVars
  <2>3. ThreadsTyped'
    <3>1. TakeOver \in Worker
      BY DEF TakeOver, MediaTypeOK, FacadeTyped, Worker, Places
    <3>2. [worker EXCEPT !.at = "discard"] \in Worker
      BY DEF MediaTypeOK, ThreadsTyped, Worker, Places
    <3>3. worker' \in Worker
      BY <1>11, <3>1, <3>2 DEF PublishEngine, Go
    <3> QED BY <1>11, <3>3 DEF PublishEngine, MediaTypeOK, ThreadsTyped
  <2> QED BY <2>1, <2>2, <2>3 DEF MediaTypeOK
<1>12. CASE DiscardEngine
  BY <1>12 DEF DiscardEngine, Go, MediaTypeOK, FacadeTyped, ThreadsTyped,
         EngineTyped, ControllerTyped, Worker, Places, facadeVars, controllerVars
<1>13. CASE StartEngine
  BY <1>13 DEF StartEngine, Go, MediaTypeOK, FacadeTyped, ThreadsTyped,
         EngineTyped, ControllerTyped, Worker, Places, facadeVars, controllerVars
<1>14. CASE StartFails
  BY <1>14, QueueTypes DEF StartFails, Go, Fail, Queue, MediaTypeOK, FacadeTyped,
         ThreadsTyped, EngineTyped, ControllerTyped, Worker, Places, Reports,
         facadeVars, controllerVars
<1>15. CASE StartRaises
  BY <1>15, QueueTypes DEF StartRaises, Go, Queue, MediaTypeOK, FacadeTyped,
         ThreadsTyped, EngineTyped, ControllerTyped, Worker, Places, Reports,
         facadeVars, controllerVars
<1>16. CASE AddPendingCandidate
  BY <1>16 DEF AddPendingCandidate, OfferCandidate, MediaTypeOK,
         FacadeTyped, ThreadsTyped, EngineTyped, ControllerTyped, Worker, facadeVars,
         controllerVars
<1>17. CASE AllCandidatesAdded
  BY <1>17 DEF AllCandidatesAdded, Go, MediaTypeOK, FacadeTyped,
         ThreadsTyped, EngineTyped, ControllerTyped, Worker, Places, facadeVars,
         engineVars, controllerVars
<1>18. CASE ApplyMicrophone
  BY <1>18 DEF ApplyMicrophone, Go, VolumeToApply, MediaTypeOK,
         FacadeTyped, ThreadsTyped, EngineTyped, ControllerTyped, Worker, Places,
         facadeVars, controllerVars
<1>19. CASE StopEngine
  BY <1>19 DEF StopEngine, MediaTypeOK, FacadeTyped, ThreadsTyped,
         EngineTyped, ControllerTyped, facadeVars, controllerVars
<1>20. CASE RemoteDescriptionSet
  BY <1>20 DEF RemoteDescriptionSet, MediaTypeOK, FacadeTyped,
         ThreadsTyped, EngineTyped, ControllerTyped, facadeVars, threadVars,
         controllerVars
<1>21. CASE RemoteDescriptionRefused
  BY <1>21, QueueTypes DEF RemoteDescriptionRefused, Fail, Queue, MediaTypeOK,
         FacadeTyped, ThreadsTyped, EngineTyped, ControllerTyped, Reports, facadeVars,
         threadVars, controllerVars
<1>22. CASE FlushRemoteCandidates
  BY <1>22 DEF FlushRemoteCandidates, MediaTypeOK, FacadeTyped,
         ThreadsTyped, EngineTyped, ControllerTyped, facadeVars, threadVars,
         controllerVars
<1>23. CASE LocalDescriptionSet
  BY <1>23, QueueTypes DEF LocalDescriptionSet, Queue, MediaTypeOK, FacadeTyped,
         ThreadsTyped, EngineTyped, ControllerTyped, Reports, facadeVars, threadVars,
         controllerVars
<1>24. CASE LocalCandidate
  BY <1>24, QueueTypes DEF LocalCandidate, Queue, MediaTypeOK, FacadeTyped,
         ThreadsTyped, EngineTyped, ControllerTyped, Reports, facadeVars, threadVars,
         controllerVars
<1>25. CASE Connected
  BY <1>25, QueueTypes DEF Connected, Queue, MediaTypeOK, FacadeTyped, ThreadsTyped,
         EngineTyped, ControllerTyped, Reports, facadeVars, threadVars, engineVars,
         controllerVars
<1>26. CASE EngineFails
  BY <1>26, QueueTypes DEF EngineFails, Fail, Queue, MediaTypeOK, FacadeTyped,
         ThreadsTyped, EngineTyped, ControllerTyped, Reports, facadeVars, threadVars,
         controllerVars
<1>27. CASE UNCHANGED vars
  BY <1>27 DEF MediaTypeOK, FacadeTyped, ThreadsTyped, EngineTyped,
         ControllerTyped, vars, facadeVars, threadVars, engineVars, controllerVars
<1> QED BY <1>1, <1>2, <1>3, <1>4, <1>5, <1>6, <1>7, <1>8, <1>9, <1>10, <1>11,
      <1>12, <1>13, <1>14, <1>15, <1>16, <1>17, <1>18, <1>19, <1>20, <1>21,
      <1>22, <1>23, <1>24, <1>25, <1>26, <1>27
   DEF Next, ControllerStep, MainStep, WorkerStep, NegotiationStep, Threads

\* Every step leaves the engine with one owner.
LEMMA OwnerPreserved ==
    ASSUME MediaTypeOK, EngineHasOneOwner,
           [Next]_vars
    PROVE  EngineHasOneOwner'
<1>1. ASSUME NEW m \in {"offer", "answer"}, Begin(m) PROVE EngineHasOneOwner'
  BY <1>1 DEF Begin, EngineHasOneOwner, engineVars
<1>2. CASE Close
  BY <1>2 DEF Close, EngineHasOneOwner, MediaTypeOK, ThreadsTyped, Worker, Places,
         engineVars
<1>3. CASE BuildEngine
  BY <1>3 DEF BuildEngine, At, Go, EngineHasOneOwner, facadeVars
<1>4. CASE BuildFails
  BY <1>4 DEF BuildFails, At, Go, EngineHasOneOwner, engineVars
<1>5. CASE PublishEngine
  BY <1>5 DEF PublishEngine, At, Go, MustDiscard, TakeOver, EngineHasOneOwner,
         MediaTypeOK, ThreadsTyped, Worker
<1>6. CASE DiscardEngine
  BY <1>6 DEF DiscardEngine, At, Go, EngineHasOneOwner, facadeVars
<1>7. CASE StartEngine
  BY <1>7 DEF StartEngine, At, Go, EngineHasOneOwner, facadeVars
<1>8. CASE StartFails
  BY <1>8 DEF StartFails, At, Go, EngineHasOneOwner, facadeVars
<1>9. CASE StartRaises
  BY <1>9 DEF StartRaises, At, Go, EngineHasOneOwner, facadeVars
<1>10. CASE AddPendingCandidate
  BY <1>10 DEF AddPendingCandidate, EngineHasOneOwner, facadeVars
<1>11. CASE AllCandidatesAdded
  BY <1>11 DEF AllCandidatesAdded, At, Go, EngineHasOneOwner, facadeVars
<1>12. CASE ApplyMicrophone
  BY <1>12 DEF ApplyMicrophone, At, Go, EngineHasOneOwner, facadeVars
<1>13. CASE StopEngine
  BY <1>13 DEF StopEngine, EngineHasOneOwner, facadeVars
<1>14. CASE \/ \E setting \in Settings : SetFirstMicrophone(setting)
            \/ ToggleMicrophone \/ SetRemoteAnswer
            \/ \E c \in Candidates : AddRemoteCandidate(c)
            \/ \E t \in Threads : AppendCandidate(t)
            \/ RunIdle \/ RemoteDescriptionSet \/ RemoteDescriptionRefused
            \/ FlushRemoteCandidates \/ LocalDescriptionSet \/ LocalCandidate
            \/ Connected \/ EngineFails \/ UNCHANGED vars
  <2>1. UNCHANGED <<mode, worker, pipeline, engine, closed, stopping>>
    BY <1>14 DEF SetFirstMicrophone, SetMicrophone, ToggleMicrophone, SetRemoteAnswer,
           AddRemoteCandidate, AppendCandidate, RunIdle, DeliverDescription,
           DeliverCandidate, DeliverOutcome, RemoteDescriptionSet,
           RemoteDescriptionRefused, FlushRemoteCandidates, LocalDescriptionSet,
           LocalCandidate, Connected, EngineFails, vars, facadeVars, threadVars,
           engineVars
  <2> QED BY <2>1 DEF EngineHasOneOwner
<1> QED BY <1>1, <1>2, <1>3, <1>4, <1>5, <1>6, <1>7, <1>8, <1>9, <1>10, <1>11,
      <1>12, <1>13, <1>14
   DEF Next, ControllerStep, MainStep, WorkerStep, NegotiationStep, Threads

\* What the starting thread has in hand it took with the engine.
LEMMA TakenPreserved ==
    ASSUME MediaTypeOK, EngineHasOneOwner, NothingTakenEarly,
           [Next]_vars
    PROVE  NothingTakenEarly'
<1>1. ASSUME NEW m \in {"offer", "answer"}, Begin(m) PROVE NothingTakenEarly'
  BY <1>1 DEF Begin, EngineHasOneOwner, NothingTakenEarly
<1>2. ASSUME NEW setting \in Settings, SetFirstMicrophone(setting) PROVE NothingTakenEarly'
  BY <1>2 DEF SetFirstMicrophone, SetMicrophone, NothingTakenEarly, threadVars
<1>3. CASE ToggleMicrophone
  BY <1>3 DEF ToggleMicrophone, SetMicrophone, Settings, NothingTakenEarly, threadVars
<1>4. CASE BuildEngine
  BY <1>4 DEF BuildEngine, At, Go, NothingTakenEarly, facadeVars
<1>5. CASE BuildFails
  BY <1>5 DEF BuildFails, Go, NothingTakenEarly
<1>6. CASE PublishEngine
  BY <1>6 DEF PublishEngine, Go, TakeOver, NothingTakenEarly, MediaTypeOK,
         ThreadsTyped, Worker
<1>7. CASE DiscardEngine
  BY <1>7 DEF DiscardEngine, Go, NothingTakenEarly, facadeVars
<1>8. CASE StartEngine
  BY <1>8 DEF StartEngine, Go, NothingTakenEarly, facadeVars
<1>9. CASE StartFails
  BY <1>9 DEF StartFails, Go, NothingTakenEarly, facadeVars
<1>10. CASE StartRaises
  BY <1>10 DEF StartRaises, Go, NothingTakenEarly, facadeVars
<1>11. CASE AddPendingCandidate
  BY <1>11 DEF AddPendingCandidate, NothingTakenEarly, facadeVars
<1>12. CASE AllCandidatesAdded
  BY <1>12 DEF AllCandidatesAdded, Go, NothingTakenEarly, facadeVars
<1>13. CASE ApplyMicrophone
  BY <1>13 DEF ApplyMicrophone, Go, NothingTakenEarly, facadeVars
<1>14. CASE \/ SetRemoteAnswer
            \/ \E c \in Candidates : AddRemoteCandidate(c)
            \/ Close
            \/ \E t \in Threads : AppendCandidate(t)
            \/ RunIdle \/ StopEngine \/ RemoteDescriptionSet
            \/ RemoteDescriptionRefused \/ FlushRemoteCandidates
            \/ LocalDescriptionSet \/ LocalCandidate \/ Connected \/ EngineFails
            \/ UNCHANGED vars
  <2>1. UNCHANGED <<worker, micEnabled>>
    BY <1>14 DEF SetRemoteAnswer, AddRemoteCandidate, Close, AppendCandidate, RunIdle,
           DeliverDescription, DeliverCandidate, DeliverOutcome, StopEngine,
           RemoteDescriptionSet, RemoteDescriptionRefused, FlushRemoteCandidates,
           LocalDescriptionSet, LocalCandidate, Connected, EngineFails, vars,
           facadeVars, threadVars
  <2> QED BY <2>1 DEF NothingTakenEarly
<1> QED BY <1>1, <1>2, <1>3, <1>4, <1>5, <1>6, <1>7, <1>8, <1>9, <1>10, <1>11,
      <1>12, <1>13, <1>14
   DEF Next, ControllerStep, MainStep, WorkerStep, NegotiationStep, Threads

\* What ClosedEngineHasACloser says of one step.
KeepsCloser ==
    closed' /\ ~HasCloser' => (closed /\ ~HasCloser) \/ StartsAfterStop

\* No step but that one leaves an engine that nobody will close.
LEMMA CloserPreserved ==
    ASSUME MediaTypeOK, EngineHasOneOwner, [Next]_vars
    PROVE  KeepsCloser
<1>1. ASSUME NEW m \in {"offer", "answer"}, Begin(m) PROVE KeepsCloser
  BY <1>1 DEF Begin, KeepsCloser, HasCloser
<1>2. CASE Close
  BY <1>2 DEF Close, EngineHasOneOwner, KeepsCloser, HasCloser, engineVars
<1>3. CASE BuildEngine
  BY <1>3 DEF BuildEngine, Go, KeepsCloser, HasCloser
<1>4. CASE BuildFails
  BY <1>4 DEF BuildFails, At, KeepsCloser, HasCloser, engineVars
<1>5. CASE PublishEngine
  BY <1>5 DEF PublishEngine, Go, MustDiscard, KeepsCloser, HasCloser, MediaTypeOK,
         ThreadsTyped, Worker
<1>6. CASE DiscardEngine
  BY <1>6 DEF DiscardEngine, KeepsCloser, HasCloser
<1>7. CASE StartEngine
  BY <1>7 DEF StartEngine, StartsAfterStop, At, EngineHasOneOwner, MediaTypeOK,
         ThreadsTyped, KeepsCloser, HasCloser, facadeVars
<1>8. CASE StartFails
  BY <1>8 DEF StartFails, At, Go, KeepsCloser, HasCloser, facadeVars
<1>9. CASE StartRaises
  BY <1>9 DEF StartRaises, StartsAfterStop, At, EngineHasOneOwner, MediaTypeOK,
         ThreadsTyped, KeepsCloser, HasCloser, facadeVars
<1>10. CASE AddPendingCandidate
  BY <1>10 DEF AddPendingCandidate, At, KeepsCloser, HasCloser, facadeVars
<1>11. CASE AllCandidatesAdded
  BY <1>11 DEF AllCandidatesAdded, At, KeepsCloser, HasCloser, facadeVars, engineVars
<1>12. CASE ApplyMicrophone
  BY <1>12 DEF ApplyMicrophone, At, KeepsCloser, HasCloser, facadeVars
<1>13. CASE StopEngine
  BY <1>13 DEF StopEngine, KeepsCloser, HasCloser
<1>14. CASE \/ \E setting \in Settings : SetFirstMicrophone(setting)
            \/ ToggleMicrophone \/ SetRemoteAnswer
            \/ \E c \in Candidates : AddRemoteCandidate(c)
            \/ \E t \in Threads : AppendCandidate(t)
            \/ RunIdle \/ RemoteDescriptionSet \/ RemoteDescriptionRefused
            \/ FlushRemoteCandidates \/ LocalDescriptionSet \/ LocalCandidate
            \/ Connected \/ EngineFails \/ UNCHANGED vars
  <2>1. UNCHANGED <<closed, pipeline, stopping, worker>>
    BY <1>14 DEF SetFirstMicrophone, SetMicrophone, ToggleMicrophone, SetRemoteAnswer,
           AddRemoteCandidate, AppendCandidate, RunIdle, DeliverDescription,
           DeliverCandidate, DeliverOutcome, RemoteDescriptionSet,
           RemoteDescriptionRefused, FlushRemoteCandidates, LocalDescriptionSet,
           LocalCandidate, Connected, EngineFails, vars, facadeVars, threadVars,
           engineVars
  <2> QED BY <2>1 DEF KeepsCloser, HasCloser
<1> QED BY <1>1, <1>2, <1>3, <1>4, <1>5, <1>6, <1>7, <1>8, <1>9, <1>10, <1>11,
      <1>12, <1>13, <1>14
   DEF Next, ControllerStep, MainStep, WorkerStep, NegotiationStep, Threads

\* No step loses a candidate of an open facade.
LEMMA CandidatesPreserved ==
    ASSUME MediaTypeOK, EngineHasOneOwner, NothingTakenEarly, CandidatesAreKept,
           [Next]_vars
    PROVE  CandidatesAreKept'
<1>1. ASSUME NEW m \in {"offer", "answer"}, Begin(m) PROVE CandidatesAreKept'
  BY <1>1 DEF Begin, CandidatesAreKept, InFlight, engineVars, controllerVars
<1>2. ASSUME NEW c \in Candidates, AddRemoteCandidate(c) PROVE CandidatesAreKept'
  <2>1. appending["main"] = NoCandidate /\ c # NoCandidate /\ ~closed /\ ~closed'
    BY <1>2, CandidateAssumption DEF AddRemoteCandidate, MainLoopIsFree
  <2>2. worker' = worker /\ queued' = queued /\ engine' = engine /\ given' = given \cup {c}
    BY <1>2 DEF AddRemoteCandidate
  <2>3. CASE appending' = appending
    BY <1>2, <2>1, <2>2, <2>3 DEF AddRemoteCandidate, OfferCandidate,
           CandidatesAreKept, InFlight, MediaTypeOK, ThreadsTyped, Threads
  <2>4. CASE appending' # appending
    <3>1. /\ appending' = [appending EXCEPT !["main"] = c]
          /\ added' = added /\ pendingCandidates' = pendingCandidates
      BY <1>2, <2>4 DEF AddRemoteCandidate, OfferCandidate
    <3>2. InFlight' = InFlight \cup {c}
      BY <2>1, <3>1 DEF InFlight, MediaTypeOK, ThreadsTyped, Threads
    <3> QED BY <2>1, <2>2, <3>1, <3>2 DEF CandidatesAreKept
  <2> QED BY <2>3, <2>4
<1>3. CASE Close
  BY <1>3 DEF Close, CandidatesAreKept
<1>4. ASSUME NEW t \in Threads, AppendCandidate(t) PROVE CandidatesAreKept'
  BY <1>4 DEF AppendCandidate, CandidatesAreKept, InFlight, facadeVars, controllerVars
<1>5. CASE BuildEngine
  BY <1>5 DEF BuildEngine, Go, CandidatesAreKept, InFlight, facadeVars, controllerVars
<1>6. CASE BuildFails
  BY <1>6 DEF BuildFails, Go, CandidatesAreKept, InFlight, engineVars, controllerVars
<1>7. CASE PublishEngine
  BY <1>7 DEF PublishEngine, At, MustDiscard, TakeOver, NothingTakenEarly,
         CandidatesAreKept, InFlight, engineVars, controllerVars
<1>8. CASE DiscardEngine
  BY <1>8 DEF DiscardEngine, At, EngineHasOneOwner, CandidatesAreKept, facadeVars
<1>9. CASE StartEngine
  BY <1>9 DEF StartEngine, Go, CandidatesAreKept, InFlight, facadeVars, controllerVars
<1>10. CASE StartFails
  BY <1>10 DEF StartFails, Go, CandidatesAreKept, InFlight, facadeVars, controllerVars
<1>11. CASE StartRaises
  BY <1>11 DEF StartRaises, Go, CandidatesAreKept, InFlight, facadeVars,
         controllerVars
<1>12. CASE AddPendingCandidate
  <2> SUFFICES ASSUME ~closed PROVE CandidatesAreKept'
    BY <1>12 DEF AddPendingCandidate, CandidatesAreKept, facadeVars
  <2>1. PICK c \in worker.candidates :
          /\ OfferCandidate("worker", c)
          /\ worker' = [worker EXCEPT !.candidates = @ \ {c}]
    BY <1>12 DEF AddPendingCandidate
  <2>2. appending["worker"] = NoCandidate /\ c # NoCandidate
    BY <1>12, <2>1, CandidateAssumption DEF AddPendingCandidate, At, MediaTypeOK,
           ThreadsTyped, Worker
  <2>3. worker.candidates = worker'.candidates \cup {c}
    BY <2>1
  <2>4. UNCHANGED <<engine, pendingCandidates, queued, given>>
    BY <1>12 DEF AddPendingCandidate, facadeVars, controllerVars
  <2>5. CASE appending' = appending
    <3>1. added' = added \cup {c}
      BY <2>1, <2>2, <2>5 DEF OfferCandidate, MediaTypeOK, ThreadsTyped, Threads
    <3> QED BY <2>3, <2>4, <2>5, <3>1 DEF CandidatesAreKept, InFlight
  <2>6. CASE appending' # appending
    <3>1. appending' = [appending EXCEPT !["worker"] = c] /\ added' = added
      BY <2>1, <2>6 DEF OfferCandidate
    <3>2. InFlight' = InFlight \cup {c}
      BY <2>2, <3>1 DEF InFlight, MediaTypeOK, ThreadsTyped, Threads
    <3> QED BY <2>3, <2>4, <3>1, <3>2 DEF CandidatesAreKept
  <2> QED BY <2>5, <2>6
<1>13. CASE AllCandidatesAdded
  BY <1>13 DEF AllCandidatesAdded, Go, CandidatesAreKept, InFlight, facadeVars,
         engineVars, controllerVars
<1>14. CASE ApplyMicrophone
  BY <1>14 DEF ApplyMicrophone, Go, CandidatesAreKept, InFlight, facadeVars,
         controllerVars
<1>15. CASE FlushRemoteCandidates
  BY <1>15 DEF FlushRemoteCandidates, CandidatesAreKept, InFlight, facadeVars,
         threadVars, controllerVars
<1>16. CASE \/ \E setting \in Settings : SetFirstMicrophone(setting)
            \/ ToggleMicrophone \/ SetRemoteAnswer \/ RunIdle \/ StopEngine
            \/ RemoteDescriptionSet \/ RemoteDescriptionRefused
            \/ LocalDescriptionSet \/ LocalCandidate \/ Connected \/ EngineFails
            \/ UNCHANGED vars
  <2>1. UNCHANGED <<closed, given, pendingCandidates, worker, queued, added, appending, engine>>
    BY <1>16 DEF SetFirstMicrophone, SetMicrophone, ToggleMicrophone, SetRemoteAnswer,
           RunIdle, DeliverDescription, DeliverCandidate, DeliverOutcome, StopEngine,
           RemoteDescriptionSet, RemoteDescriptionRefused, LocalDescriptionSet,
           LocalCandidate, Connected, EngineFails, vars, facadeVars, threadVars,
           engineVars, controllerVars
  <2> QED BY <2>1 DEF CandidatesAreKept, InFlight
<1> QED BY <1>1, <1>2, <1>3, <1>4, <1>5, <1>6, <1>7, <1>8, <1>9, <1>10, <1>11,
      <1>12, <1>13, <1>14, <1>15, <1>16
   DEF Next, ControllerStep, MainStep, WorkerStep, NegotiationStep, Threads

\* A failure that was reported, and a connection that was heard of, stay so.
LEMMA ToldStays ==
    ASSUME MediaTypeOK,
           [Next]_vars
    PROVE  (Told("failed") => Told("failed")') /\ heard \subseteq heard'
<1> DEFINE Stays == (Told("failed") => Told("failed")') /\ heard \subseteq heard'
<1>1. CASE RunIdle
  <2>1. heard \subseteq heard' /\ idle' = Tail(idle) /\ idle # <<>>
    BY <1>1 DEF RunIdle, DeliverDescription, DeliverCandidate, DeliverOutcome, Hear
  <2>2. Head(idle) = "failed" => "failed" \in heard'
    BY <1>1 DEF RunIdle, DeliverOutcome
  <2>3. \A i \in DOMAIN idle : \/ idle[i] = Head(idle)
                              \/ \E j \in DOMAIN Tail(idle) : Tail(idle)[j] = idle[i]
    BY <2>1, QueueFacts DEF MediaTypeOK, ControllerTyped
  <2> QED BY <2>1, <2>2, <2>3, Zenon DEF Told
<1>2. CASE BuildFails
  BY <1>2, QueueFacts DEF BuildFails, Queue, Told, controllerVars
<1>3. CASE StartFails
  BY <1>3, QueueFacts DEF StartFails, Fail, Queue, Told, controllerVars
<1>4. CASE StartRaises
  BY <1>4, QueueFacts DEF StartRaises, Queue, Told, controllerVars
<1>5. CASE RemoteDescriptionRefused
  BY <1>5, QueueFacts DEF RemoteDescriptionRefused, Fail, Queue, Told, controllerVars
<1>6. CASE LocalDescriptionSet
  BY <1>6, QueueFacts DEF LocalDescriptionSet, Queue, Told, controllerVars
<1>7. CASE LocalCandidate
  <2>1. heard' = heard
    BY <1>7 DEF LocalCandidate, controllerVars
  <2>2. CASE idle' = idle
    BY <2>1, <2>2 DEF Told
  <2>3. CASE idle' = Append(idle, "candidate")
    BY <2>1, <2>3, QueueFacts DEF Told
  <2> QED BY <1>7, <2>2, <2>3 DEF LocalCandidate, Queue
<1>8. CASE Connected
  BY <1>8, QueueFacts DEF Connected, Queue, Told, controllerVars
<1>9. CASE EngineFails
  BY <1>9, QueueFacts DEF EngineFails, Fail, Queue, Told, controllerVars
<1>10. CASE \/ \E m \in {"offer", "answer"} : Begin(m)
            \/ \E setting \in Settings : SetFirstMicrophone(setting)
            \/ ToggleMicrophone \/ SetRemoteAnswer
            \/ \E c \in Candidates : AddRemoteCandidate(c)
            \/ Close
            \/ \E t \in Threads : AppendCandidate(t)
            \/ BuildEngine \/ PublishEngine \/ DiscardEngine \/ StartEngine
            \/ AddPendingCandidate \/ AllCandidatesAdded \/ ApplyMicrophone
            \/ StopEngine \/ RemoteDescriptionSet \/ FlushRemoteCandidates
            \/ UNCHANGED vars
  <2>1. UNCHANGED <<idle, heard>>
    BY <1>10 DEF Begin, SetFirstMicrophone, SetMicrophone, ToggleMicrophone,
           SetRemoteAnswer, AddRemoteCandidate, Close, AppendCandidate, BuildEngine,
           PublishEngine, DiscardEngine, StartEngine, AddPendingCandidate,
           AllCandidatesAdded, ApplyMicrophone, StopEngine, RemoteDescriptionSet,
           FlushRemoteCandidates, vars, controllerVars
  <2> QED BY <2>1 DEF Told
<1> QED BY <1>1, <1>2, <1>3, <1>4, <1>5, <1>6, <1>7, <1>8, <1>9, <1>10 DEF Next,
               ControllerStep, MainStep, WorkerStep, NegotiationStep, Threads

\* An exception in the starting thread is reported.
LEMMA RaisedIsTold == ASSUME MediaTypeOK, StartRaises PROVE Told("failed")'
  BY QueueFacts DEF StartRaises, Queue, Told

\* Every step leaves the microphone as it was set, or about to be set so.
LEMMA MicrophonePreserved ==
    ASSUME MediaTypeOK, EngineHasOneOwner, NothingTakenEarly, MicrophoneAgrees,
           [Next]_vars
    PROVE  MicrophoneAgrees'
<1>1. ASSUME NEW m \in {"offer", "answer"}, Begin(m) PROVE MicrophoneAgrees'
  BY <1>1, ToldStays DEF Begin, MicrophoneAgrees
<1>2. ASSUME NEW setting \in Settings, SetFirstMicrophone(setting) PROVE MicrophoneAgrees'
  BY <1>2, ToldStays DEF SetFirstMicrophone, SetMicrophone, MicrophoneAgrees,
         EngineHasOneOwner, NothingTakenEarly, threadVars
<1>3. CASE ToggleMicrophone
  BY <1>3, ToldStays DEF ToggleMicrophone, MicrophoneAgrees
<1>4. CASE Close
  BY <1>4, ToldStays DEF Close, MicrophoneAgrees
<1>5. CASE RunIdle
  BY <1>5, ToldStays DEF RunIdle, DeliverDescription, DeliverCandidate,
         DeliverOutcome, MicrophoneAgrees, facadeVars, threadVars, engineVars
<1>6. CASE BuildEngine
  BY <1>6, ToldStays DEF BuildEngine, Go, MicrophoneAgrees
<1>7. CASE BuildFails
  BY <1>7, ToldStays DEF BuildFails, At, Go, MicrophoneAgrees, EngineHasOneOwner
<1>8. CASE PublishEngine
  BY <1>8, ToldStays DEF PublishEngine, MustDiscard, TakeOver, MicrophoneAgrees
<1>9. CASE DiscardEngine
  BY <1>9, ToldStays DEF DiscardEngine, At, MicrophoneAgrees, EngineHasOneOwner,
         facadeVars
<1>10. CASE StartEngine
  BY <1>10, ToldStays DEF StartEngine, At, Go, MicrophoneAgrees, facadeVars
<1>11. CASE StartFails
  BY <1>11, ToldStays DEF StartFails, At, Go, MicrophoneAgrees, facadeVars
<1>12. CASE StartRaises
  BY <1>12, ToldStays, RaisedIsTold DEF MicrophoneAgrees
<1>13. CASE AddPendingCandidate
  BY <1>13, ToldStays DEF AddPendingCandidate, MicrophoneAgrees, facadeVars
<1>14. CASE AllCandidatesAdded
  BY <1>14, ToldStays DEF AllCandidatesAdded, At, Go, MicrophoneAgrees, facadeVars,
         engineVars
<1>15. CASE ApplyMicrophone
  BY <1>15, ToldStays DEF ApplyMicrophone, At, Go, VolumeToApply, MicrophoneAgrees,
         facadeVars
<1>16. CASE \/ SetRemoteAnswer
            \/ \E c \in Candidates : AddRemoteCandidate(c)
            \/ \E t \in Threads : AppendCandidate(t)
            \/ StopEngine \/ RemoteDescriptionSet \/ RemoteDescriptionRefused
            \/ FlushRemoteCandidates \/ LocalDescriptionSet \/ LocalCandidate
            \/ Connected \/ EngineFails \/ UNCHANGED vars
  <2>1. UNCHANGED <<closed, micEnabled, heard, worker, volume, engine>>
    BY <1>16 DEF SetRemoteAnswer, AddRemoteCandidate, AppendCandidate, StopEngine,
           RemoteDescriptionSet, RemoteDescriptionRefused, FlushRemoteCandidates,
           LocalDescriptionSet, LocalCandidate, Connected, EngineFails, vars,
           facadeVars, threadVars, engineVars, controllerVars
  <2> QED BY <2>1, ToldStays DEF MicrophoneAgrees
<1> QED BY <1>1, <1>2, <1>3, <1>4, <1>5, <1>6, <1>7, <1>8, <1>9, <1>10, <1>11,
      <1>12, <1>13, <1>14, <1>15, <1>16
   DEF Next, ControllerStep, MainStep, WorkerStep, NegotiationStep, Threads

\* The invariant holds at first.
LEMMA InitInvariant == Init => MediaInvariant
<1> SUFFICES ASSUME Init PROVE MediaInvariant
  OBVIOUS
<1>1. MediaTypeOK
  <2>1. FacadeTyped /\ EngineTyped
    BY DEF Init, FacadeTyped, EngineTyped, Settings
  <2>2. ThreadsTyped
    BY DEF Init, ThreadsTyped, Worker, Places
  <2>3. ControllerTyped
    <3>1. <<>> \in Seq(Reports)
      OBVIOUS
    <3> QED BY <3>1 DEF Init, ControllerTyped
  <2> QED BY <2>1, <2>2, <2>3 DEF MediaTypeOK
<1>2. InFlight = {}
  BY DEF Init, InFlight
<1>3. CandidatesAreKept
  BY <1>2 DEF Init, CandidatesAreKept
<1> QED
  BY <1>1, <1>3 DEF Init, MediaInvariant, EngineHasOneOwner, NothingTakenEarly,
         MicrophoneAgrees

-----------------------------------------------------------------------------
\* The conjunction of everything below, with who owns the engine at each place of
\* the starting thread, is an invariant of the facade.
THEOREM MediaInvariantHolds == Spec => []MediaInvariant
<1>1. Init => MediaInvariant
  BY InitInvariant
<1>2. MediaInvariant /\ [Next]_vars => MediaInvariant'
  BY TypesPreserved, OwnerPreserved, TakenPreserved, CandidatesPreserved,
     MicrophonePreserved DEF MediaInvariant
<1> QED BY <1>1, <1>2, PTL DEF Spec

\* Every variable of the facade and its engine keeps to its type.
THEOREM MediaTypeCorrect == Spec => []MediaTypeOK
<1>1. MediaInvariant => MediaTypeOK
  BY DEF MediaInvariant
<1> QED BY <1>1, MediaInvariantHolds, PTL

\* No candidate the controller passed on to an open facade is lost between the
\* threads, and none stays behind with the facade (add_remote_candidate, _begin).
THEOREM CandidatesStay == Spec => []CandidatesAreKept
<1>1. MediaInvariant => CandidatesAreKept
  BY DEF MediaInvariant
<1> QED BY <1>1, MediaInvariantHolds, PTL

\* close leaves behind no engine that no thread will close; the starting thread does,
\* when it starts one that the stopping thread has closed (_begin, close).
THEOREM NoEngineIsOrphaned == Spec => ClosedEngineHasACloser
<1>1. MediaInvariant /\ [Next]_vars => [KeepsCloser]_vars
  BY CloserPreserved DEF MediaInvariant
<1>2. [KeepsCloser]_vars <=>
        [closed' /\ ~HasCloser' => (closed /\ ~HasCloser) \/ StartsAfterStop]_vars
  BY DEF KeepsCloser
<1> QED BY <1>1, <1>2, MediaInvariantHolds, PTL DEF Spec, ClosedEngineHasACloser

\* The microphone starts as the controller set it, whether it did so before the
\* engine was there or after (set_microphone_enabled, _begin).
THEOREM MicrophoneStartsAsSet == Spec => []FirstMicrophoneSettingHolds
<1>1. MediaInvariant => FirstMicrophoneSettingHolds
  BY DEF MediaInvariant, MicrophoneAgrees, EngineHasOneOwner,
         FirstMicrophoneSettingHolds
<1> QED BY <1>1, MediaInvariantHolds, PTL

\* A closed facade calls back with outcomes only: no description and no candidate of
\* its engine reaches the controller, which by then may have another call.
THEOREM ClosedFacadeStaysSilent == Spec => ClosedFacadeIsSilent
<1>1. ASSUME [Next]_vars, closed
      PROVE  heard' \subseteq heard \cup {"connected", "failed"}
  <2>1. CASE RunIdle
    BY <1>1, <2>1 DEF RunIdle, DeliverDescription, DeliverCandidate, DeliverOutcome, Hear
  <2>2. CASE ~RunIdle
    <3>1. CASE ControllerStep \/ (MainStep /\ ~RunIdle) \/ UNCHANGED vars
      BY <3>1 DEF ControllerStep, MainStep, Begin, ToggleMicrophone, SetFirstMicrophone,
         SetMicrophone, SetRemoteAnswer, AddRemoteCandidate, Close, AppendCandidate,
         controllerVars, vars
    <3>2. CASE WorkerStep \/ StopEngine
      BY <3>2 DEF WorkerStep, BuildEngine, BuildFails, PublishEngine, DiscardEngine,
         StartEngine, StartFails, StartRaises, AddPendingCandidate, AllCandidatesAdded,
         ApplyMicrophone, AppendCandidate, StopEngine, controllerVars
    <3>3. CASE NegotiationStep \/ LocalCandidate \/ Connected \/ EngineFails
      BY <3>3 DEF NegotiationStep, RemoteDescriptionSet, RemoteDescriptionRefused,
         FlushRemoteCandidates, LocalDescriptionSet, LocalCandidate, Connected, EngineFails,
         controllerVars
    <3> QED BY <1>1, <2>2, <3>1, <3>2, <3>3 DEF Next, MainStep
  <2> QED BY <2>1, <2>2
<1>2. [Next]_vars => [closed => heard' \subseteq heard \cup {"connected", "failed"}]_vars
  BY <1>1
<1> QED BY <1>2, PTL DEF Spec, ClosedFacadeIsSilent
=============================================================================
