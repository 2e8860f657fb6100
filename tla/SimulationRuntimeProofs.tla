----------------------- MODULE SimulationRuntimeProofs -----------------------
(***************************************************************************)
(* Machine-checked proofs about SimulationRuntime, for every set of        *)
(* commands, every capacity and every budget.                              *)
(***************************************************************************)
EXTENDS SimulationRuntime, SequenceTheorems, TLAPS

\* The facts about sequences that the FIFO arguments use.
LEMMA AppendToConcat ==
    ASSUME NEW S, NEW s \in Seq(S), NEW t \in Seq(S), NEW e \in S
    PROVE  s \o Append(t, e) = Append(s \o t, e)
  OBVIOUS

LEMMA HeadTail ==
    ASSUME NEW S, NEW s \in Seq(S), s # <<>>
    PROVE  /\ Head(s) \in S
           /\ Tail(s) \in Seq(S)
           /\ s = <<Head(s)>> \o Tail(s)
  OBVIOUS

\* Moving the head of the second sequence to the end of the first changes
\* nothing in between.
LEMMA MoveHead ==
    ASSUME NEW S, NEW s \in Seq(S), NEW t \in Seq(S), t # <<>>
    PROVE  Append(s, Head(t)) \o Tail(t) = s \o t
  OBVIOUS

LEMMA ConcatAssoc ==
    ASSUME NEW S, NEW s \in Seq(S), NEW t \in Seq(S), NEW u \in Seq(S)
    PROVE  (s \o t) \o u = s \o (t \o u)
  OBVIOUS
\* A part whose variables a step leaves alone keeps its type.
LEMMA TypeUnchanged ==
    /\ CallerType /\ UNCHANGED callerVars => CallerType'
    /\ AdmitType /\ UNCHANGED admitVars => AdmitType'
    /\ WorkType /\ UNCHANGED <<deletes, dueVars>> => WorkType'
    /\ IntentType /\ UNCHANGED intentVars => IntentType'
    /\ OwnerType /\ UNCHANGED <<ownerVars, token>> => OwnerType'
    /\ QueueType /\ UNCHANGED queueVars => QueueType'
    /\ WorkerType /\ UNCHANGED workerVars => WorkerType'
    /\ CompletionType /\ UNCHANGED <<completions, completed>> => CompletionType'
    /\ MainType /\ UNCHANGED mainVars => MainType'
<1>1. CallerType /\ UNCHANGED callerVars => CallerType'
    BY DEF CallerType, callerVars
<1>2. AdmitType /\ UNCHANGED admitVars => AdmitType'
    BY DEF AdmitType, admitVars
<1>3. WorkType /\ UNCHANGED <<deletes, dueVars>> => WorkType'
    BY DEF WorkType, dueVars
<1>4. IntentType /\ UNCHANGED intentVars => IntentType'
    BY DEF IntentType, intentVars
<1>5. OwnerType /\ UNCHANGED <<ownerVars, token>> => OwnerType'
    BY DEF OwnerType, ownerVars
<1>6. QueueType /\ UNCHANGED queueVars => QueueType'
    BY DEF QueueType, queueVars
<1>7. WorkerType /\ UNCHANGED workerVars => WorkerType'
    BY DEF WorkerType, workerVars
<1>8. CompletionType /\ UNCHANGED <<completions, completed>> => CompletionType'
    BY DEF CompletionType
<1>9. MainType /\ UNCHANGED mainVars => MainType'
    BY DEF MainType, mainVars
<1> QED
    BY <1>1, <1>2, <1>3, <1>4, <1>5, <1>6, <1>7, <1>8, <1>9

\* Publishing a save keeps the types of the save queue.
LEMMA PublishType ==
    ASSUME QueueType, NEW s \in Items, Publish(s) \/ PublishNothing
    PROVE  QueueType'
<1>1. CASE PublishNothing
    BY <1>1 DEF QueueType, PublishNothing
<1>2. CASE Publish(s)
  <2>1. queue' \in Seq(Items) /\ published' \in Seq(Items)
    BY <1>2 DEF QueueType, Publish
  <2>2. slots' \in Int
    <3>1. slots' = slots - 1 \/ slots' = slots
      BY <1>2, Zenon DEF Publish
    <3> QED
      BY <3>1 DEF QueueType
  <2> QED
    BY <2>1, <2>2 DEF QueueType
<1> QED
    BY <1>1, <1>2

\* Taking the candidate of a class leaves well-typed channels.
LEMMA TakeCandidateType ==
    ASSUME CallerType, AdmitType, Candidate(nextClass) # None, TakeCandidate(nextClass)
    PROVE  ingress' \in [Class -> Seq(Commands)]
<1>1. CASE heads[nextClass] # None
    BY <1>1 DEF CallerType, TakeCandidate
<1>2. CASE heads[nextClass] = None
  <2>1. ingress[nextClass] # <<>>
    BY <1>2 DEF Candidate
  <2>2. ingress[nextClass] \in Seq(Commands) /\ nextClass \in Class
    BY DEF CallerType, AdmitType
  <2>3. Tail(ingress[nextClass]) \in Seq(Commands)
    BY <2>1, <2>2, HeadTail
  <2>4. ingress' = [ingress EXCEPT ![nextClass] = Tail(ingress[nextClass])]
    BY <1>2 DEF TakeCandidate
  <2> QED
    BY <2>2, <2>3, <2>4 DEF CallerType
<1> QED
    BY <1>1, <1>2

\* Every step keeps every variable in its type: one step per action of Next,
\* and under it one per part that the action changes.
LEMMA TypeStep == TypeOK /\ [Next]_vars => TypeOK'
<1> SUFFICES ASSUME TypeOK, [Next]_vars PROVE TypeOK'
    OBVIOUS
<1> USE DEF TypeOK
<1>1. ASSUME NEW c \in Commands, Reserve(c) PROVE TypeOK'
  <2>1. CallerType'
    BY <1>1 DEF Reserve, CallerType, CallerStates
  <2> QED
    BY <1>1, <2>1, TypeUnchanged DEF Reserve, ownerVars, queueVars
<1>2. ASSUME NEW c \in Commands, Refuse(c) PROVE TypeOK'
  <2>1. CallerType'
    BY <1>2 DEF Refuse, CallerType, CallerStates
  <2> QED
    BY <1>2, <2>1, TypeUnchanged DEF Refuse, ownerVars, queueVars
<1>3. ASSUME NEW c \in Commands, Send(c) PROVE TypeOK'
  <2>1. ClassOf(c) \in Class
    BY <1>3 DEF Send, ClassOf, Class
  <2>2. CallerType'
    BY <1>3, <2>1 DEF Send, CallerType, CallerStates
  <2> QED
    BY <1>3, <2>1, <2>2, TypeUnchanged DEF Send, ownerVars, queueVars
<1>4. ASSUME NEW c \in Commands \cup Intents, Wake(c) PROVE TypeOK'
  <2>1. CallerType'
    BY <1>4 DEF Wake, CallerType, CallerStates, callerVars
  <2>2. OwnerType'
    BY <1>4, <2>1 DEF Wake, OwnerType, ownerVars
  <2> QED
    BY <1>4, <2>1, <2>2, TypeUnchanged DEF Wake, ownerVars, queueVars
<1>5. ASSUME NEW i \in Intents, RequestIntent(i) PROVE TypeOK'
  <2>1. CallerType'
    BY <1>5 DEF RequestIntent, CallerType, CallerStates
  <2>2. IntentType'
    BY <1>5, <2>1 DEF RequestIntent, IntentType
  <2> QED
    BY <1>5, <2>1, <2>2, TypeUnchanged DEF RequestIntent, ownerVars, queueVars
<1>6. ASSUME NEW c \in Delayed, DeadlinePasses(c) PROVE TypeOK'
  <2>1. WorkType'
    BY <1>6 DEF DeadlinePasses, WorkType
  <2> QED
    BY <1>6, <2>1, TypeUnchanged DEF DeadlinePasses, ownerVars, queueVars
<1>7. ASSUME CheckShutdown PROVE TypeOK'
  <2>1. OwnerType'
    BY <1>7 DEF CheckShutdown, OwnerType, OwnerStates, Resume, ownerVars
  <2> QED
    BY <1>7, <2>1, TypeUnchanged DEF CheckShutdown, ownerVars, queueVars
<1>8. ASSUME PlanImmediate PROVE TypeOK'
  <2>1. OwnerType'
    BY <1>8 DEF PlanImmediate, OwnerType, OwnerStates, Resume, ownerVars
  <2> QED
    BY <1>8, <2>1, TypeUnchanged DEF PlanImmediate, ownerVars, queueVars
<1>9. ASSUME PlanPark PROVE TypeOK'
  <2>1. OwnerType'
    BY <1>9 DEF PlanPark, OwnerType, OwnerStates, Resume, ownerVars
  <2> QED
    BY <1>9, <2>1, TypeUnchanged DEF PlanPark, ownerVars, queueVars
<1>10. ASSUME Park PROVE TypeOK'
  <2>1. OwnerType'
    BY <1>10 DEF Park, OwnerType, OwnerStates, Resume, ownerVars
  <2> QED
    BY <1>10, <2>1, TypeUnchanged DEF Park, ownerVars, queueVars
<1>11. ASSUME Unpark PROVE TypeOK'
  <2>1. OwnerType'
    BY <1>11 DEF Unpark, OwnerType, OwnerStates, Resume, ownerVars
  <2> QED
    BY <1>11, <2>1, TypeUnchanged DEF Unpark, ownerVars, queueVars
<1>12. ASSUME ParkTimeout PROVE TypeOK'
  <2>1. OwnerType'
    BY <1>12 DEF ParkTimeout, OwnerType, OwnerStates, Resume, ownerVars
  <2> QED
    BY <1>12, <2>1, TypeUnchanged DEF ParkTimeout, ownerVars, queueVars
<1>13. ASSUME DrainCompletion PROVE TypeOK'
  <2>1. CompletionType'
    BY <1>13 DEF DrainCompletion, CompletionType
  <2>2. QueueType'
    BY <1>13, <2>1 DEF DrainCompletion, QueueType
  <2> QED
    BY <1>13, <2>1, <2>2, TypeUnchanged DEF DrainCompletion, ownerVars, queueVars
<1>14. ASSUME BeginAdmission PROVE TypeOK'
  <2>1. AdmitType'
    BY <1>14, BoundsAssumption DEF BeginAdmission, AdmitType
  <2>2. OwnerType'
    BY <1>14, <2>1 DEF BeginAdmission, OwnerType, OwnerStates
  <2> QED
    BY <1>14, <2>1, <2>2, TypeUnchanged DEF BeginAdmission, ownerVars, queueVars
<1>15. ASSUME AdmitDelete PROVE TypeOK'
  <2>1. WorkType'
    BY <1>15 DEF AdmitDelete, WorkType, dueVars
  <2>2. Head(deletes) \in Items
    BY <1>15, <2>1 DEF AdmitDelete, Items, WorkType
  <2>3. QueueType'
    BY <1>15, <2>1, <2>2, PublishType DEF AdmitDelete
  <2>4. OwnerType'
    BY <1>15, <2>1, <2>2, <2>3 DEF AdmitDelete, OwnerType, OwnerStates, AfterApply
  <2> QED
    BY <1>15, <2>1, <2>2, <2>3, <2>4, TypeUnchanged DEF AdmitDelete, ownerVars, queueVars
<1>16. ASSUME NoAdmittedDelete PROVE TypeOK'
  <2>1. AdmitType'
    BY <1>16 DEF NoAdmittedDelete, AdmitType
  <2>2. OwnerType'
    BY <1>16, <2>1 DEF NoAdmittedDelete, OwnerType, OwnerStates
  <2> QED
    BY <1>16, <2>1, <2>2, TypeUnchanged DEF NoAdmittedDelete, ownerVars, queueVars
<1>17. ASSUME SkipClass PROVE TypeOK'
  <2>1. AdmitType'
    BY <1>17 DEF SkipClass, AdmitType, NextClass, Class
  <2> QED
    BY <1>17, <2>1, TypeUnchanged DEF SkipClass, ownerVars, queueVars
<1>18. ASSUME ParkHead PROVE TypeOK'
  <2>1. Candidate(nextClass) \in Commands
    BY <1>18, KindsAssumption, ItemsAssumption DEF ParkHead, CallerType, AdmitType, Candidate, Class
  <2>2. ingress' \in [Class -> Seq(Commands)]
    BY <1>18, <2>1, TakeCandidateType, ItemsAssumption DEF ParkHead, Items
  <2>3. CallerType'
    BY <1>18, <2>1, <2>2 DEF ParkHead, CallerType
  <2>4. AdmitType'
    BY <1>18, <2>1, <2>2, <2>3 DEF ParkHead, AdmitType, NextClass, Class
  <2> QED
    BY <1>18, <2>1, <2>2, <2>3, <2>4, TypeUnchanged DEF ParkHead, ownerVars, queueVars
<1>19. ASSUME AdmitCommand PROVE TypeOK'
  <2>1. Candidate(nextClass) \in Commands
    BY <1>19 DEF AdmitCommand, CallerType, AdmitType, Candidate
  <2>2. ingress' \in [Class -> Seq(Commands)]
    BY <1>19, <2>1, TakeCandidateType, ItemsAssumption DEF AdmitCommand, Items
  <2>3. CallerType'
    BY <1>19, <2>1, <2>2 DEF AdmitCommand, CallerType
  <2>4. nextClass' \in Class
    BY <1>19 DEF AdmitCommand, AdmitType, NextClass, Class
  <2>5. AdmitType'
    BY <1>19, <2>1, <2>2, <2>3, <2>4 DEF AdmitCommand, AdmitType
  <2>6. QueueType'
    <3>1. Candidate(nextClass) \in Items
      BY <2>1 DEF Items
    <3>2. Publish(Candidate(nextClass)) \/ PublishNothing
      BY <1>19, Zenon DEF AdmitCommand, ApplyEffect
    <3> QED
      BY <3>1, <3>2, PublishType
  <2>7. WorkType'
    BY <1>19, <2>1, <2>2, <2>3, <2>4, <2>5, <2>6 DEF AdmitCommand, WorkType, ApplyEffect
  <2>8. OwnerType'
    BY <1>19, <2>1, <2>2, <2>3, <2>4, <2>5, <2>6, <2>7 DEF AdmitCommand, OwnerType, OwnerStates, AfterApply
  <2> QED
    BY <1>19, <2>1, <2>2, <2>3, <2>4, <2>5, <2>6, <2>7, <2>8, TypeUnchanged DEF AdmitCommand, ownerVars, queueVars
<1>20. ASSUME EndAdmission PROVE TypeOK'
  <2>1. AdmitType'
    BY <1>20, BoundsAssumption DEF EndAdmission, AdmitType
  <2>2. OwnerType'
    BY <1>20, <2>1 DEF EndAdmission, OwnerType, OwnerStates
  <2> QED
    BY <1>20, <2>1, <2>2, TypeUnchanged DEF EndAdmission, ownerVars, queueVars
<1>21. ASSUME NEW c \in Delayed, RunDueAction(c) PROVE TypeOK'
  <2>1. WorkType'
    BY <1>21, KindsAssumption DEF RunDueAction, WorkType
  <2>2. OwnerType'
    BY <1>21, <2>1 DEF RunDueAction, OwnerType, OwnerStates
  <2> QED
    BY <1>21, <2>1, <2>2, TypeUnchanged DEF RunDueAction, ownerVars, queueVars
<1>22. ASSUME EndDue PROVE TypeOK'
  <2>1. OwnerType'
    BY <1>22 DEF EndDue, OwnerType, OwnerStates
  <2> QED
    BY <1>22, <2>1, TypeUnchanged DEF EndDue, ownerVars, queueVars
<1>23. ASSUME NEW k \in 1..2, CollectIntents(k) PROVE TypeOK'
  <2>1. IntentType'
    BY <1>23 DEF CollectIntents, IntentType
  <2>2. OwnerType'
    BY <1>23, <2>1 DEF CollectIntents, OwnerType, OwnerStates, AdmitStage
  <2> QED
    BY <1>23, <2>1, <2>2, TypeUnchanged DEF CollectIntents, ownerVars, queueVars
<1>24. ASSUME NEW k \in 1..2, AdmitIntent(k) PROVE TypeOK'
  <2>1. IntentType'
    BY <1>24 DEF AdmitIntent, IntentType
  <2>2. Head(backlog[k]) \in Items
    BY <1>24, <2>1 DEF AdmitIntent, Items, IntentType
  <2>3. QueueType'
    BY <1>24, <2>1, <2>2, PublishType DEF AdmitIntent
  <2> QED
    BY <1>24, <2>1, <2>2, <2>3, TypeUnchanged DEF AdmitIntent, ownerVars, queueVars
<1>25. ASSUME NEW k \in 1..2, EndIntents(k) PROVE TypeOK'
  <2>1. OwnerType'
    BY <1>25 DEF EndIntents, OwnerType, OwnerStates
  <2> QED
    BY <1>25, <2>1, TypeUnchanged DEF EndIntents, ownerVars, queueVars
<1>26. ASSUME CloseIngress PROVE TypeOK'
  <2>1. OwnerType'
    BY <1>26 DEF CloseIngress, OwnerType, OwnerStates
  <2> QED
    BY <1>26, <2>1, TypeUnchanged DEF CloseIngress, ownerVars, queueVars
<1>27. ASSUME QuiescingCheck PROVE TypeOK'
  <2>1. OwnerType'
    BY <1>27 DEF QuiescingCheck, OwnerType, OwnerStates
  <2> QED
    BY <1>27, <2>1, TypeUnchanged DEF QuiescingCheck, ownerVars, queueVars
<1>28. ASSUME QuiescingPlan PROVE TypeOK'
  <2>1. OwnerType'
    BY <1>28 DEF QuiescingPlan, OwnerType, OwnerStates
  <2> QED
    BY <1>28, <2>1, TypeUnchanged DEF QuiescingPlan, ownerVars, queueVars
<1>29. ASSUME ReceiveLastCompletion PROVE TypeOK'
  <2>1. CompletionType'
    BY <1>29 DEF ReceiveLastCompletion, CompletionType
  <2>2. QueueType'
    BY <1>29, <2>1 DEF ReceiveLastCompletion, QueueType
  <2> QED
    BY <1>29, <2>1, <2>2, TypeUnchanged DEF ReceiveLastCompletion, ownerVars, queueVars
<1>30. ASSUME CompletionsClosed PROVE TypeOK'
  <2>1. OwnerType'
    BY <1>30 DEF CompletionsClosed, OwnerType, OwnerStates
  <2> QED
    BY <1>30, <2>1, TypeUnchanged DEF CompletionsClosed, ownerVars, queueVars
<1>31. ASSUME WorkerReceive PROVE TypeOK'
  <2>1. QueueType'
    BY <1>31 DEF WorkerReceive, QueueType, TakeEnvelope
  <2>2. WorkerType'
    BY <1>31, <2>1 DEF WorkerReceive, WorkerType, TakeEnvelope, QueueType
  <2> QED
    BY <1>31, <2>1, <2>2, TypeUnchanged DEF WorkerReceive, ownerVars, queueVars
<1>32. ASSUME WorkerGather PROVE TypeOK'
  <2>1. QueueType'
    BY <1>32 DEF WorkerGather, QueueType, TakeEnvelope
  <2>2. WorkerType'
    BY <1>32, <2>1 DEF WorkerGather, WorkerType, TakeEnvelope, QueueType
  <2> QED
    BY <1>32, <2>1, <2>2, TypeUnchanged DEF WorkerGather, ownerVars, queueVars
<1>33. ASSUME WorkerBeginBatch PROVE TypeOK'
  <2>1. WorkerType'
    BY <1>33 DEF WorkerBeginBatch, WorkerType
  <2>2. OwnerType'
    BY <1>33, <2>1 DEF WorkerBeginBatch, OwnerType, ownerVars
  <2> QED
    BY <1>33, <2>1, <2>2, TypeUnchanged DEF WorkerBeginBatch, ownerVars, queueVars
<1>34. ASSUME WorkerPersist PROVE TypeOK'
  <2>1. WorkerType'
    BY <1>34 DEF WorkerPersist, WorkerType
  <2>2. CompletionType'
    <3>1. Head(batch) \in Items
      BY <1>34 DEF WorkerPersist, WorkerType
    <3>2. completions' = Append(completions, Head(batch)) \/ completions' = completions
      BY <1>34, Zenon DEF WorkerPersist
    <3>3. completions' \in Seq(Items)
      BY <3>1, <3>2 DEF CompletionType
    <3>4. completed' = completed
      BY <1>34 DEF WorkerPersist
    <3> QED
      BY <3>3, <3>4 DEF CompletionType
  <2> QED
    BY <1>34, <2>1, <2>2, TypeUnchanged DEF WorkerPersist, ownerVars, queueVars
<1>35. ASSUME WorkerNotify PROVE TypeOK'
  <2>1. WorkerType'
    BY <1>35 DEF WorkerNotify, WorkerType
  <2>2. OwnerType'
    BY <1>35, <2>1 DEF WorkerNotify, OwnerType, ownerVars
  <2> QED
    BY <1>35, <2>1, <2>2, TypeUnchanged DEF WorkerNotify, ownerVars, queueVars
<1>36. ASSUME WorkerEndBatch PROVE TypeOK'
  <2>1. WorkerType'
    BY <1>36 DEF WorkerEndBatch, WorkerType
  <2>2. OwnerType'
    BY <1>36, <2>1 DEF WorkerEndBatch, OwnerType, ownerVars
  <2> QED
    BY <1>36, <2>1, <2>2, TypeUnchanged DEF WorkerEndBatch, ownerVars, queueVars
<1>37. ASSUME WorkerExit PROVE TypeOK'
  <2>1. WorkerType'
    BY <1>37 DEF WorkerExit, WorkerType
  <2>2. OwnerType'
    BY <1>37, <2>1 DEF WorkerExit, OwnerType, ownerVars
  <2> QED
    BY <1>37, <2>1, <2>2, TypeUnchanged DEF WorkerExit, ownerVars, queueVars
<1>38. ASSUME SendShutdown PROVE TypeOK'
  <2>1. MainType'
    BY <1>38 DEF SendShutdown, MainType
  <2> QED
    BY <1>38, <2>1, TypeUnchanged DEF SendShutdown, ownerVars, queueVars
<1>39. ASSUME WakeForShutdown PROVE TypeOK'
  <2>1. MainType'
    BY <1>39 DEF WakeForShutdown, MainType
  <2>2. OwnerType'
    BY <1>39, <2>1 DEF WakeForShutdown, OwnerType, ownerVars
  <2> QED
    BY <1>39, <2>1, <2>2, TypeUnchanged DEF WakeForShutdown, ownerVars, queueVars
<1>40. ASSUME DropMainHandle PROVE TypeOK'
  <2>1. MainType'
    BY <1>40 DEF DropMainHandle, MainType
  <2> QED
    BY <1>40, <2>1, TypeUnchanged DEF DropMainHandle, ownerVars, queueVars
<1>41. ASSUME JoinTasks PROVE TypeOK'
  <2>1. MainType'
    BY <1>41 DEF JoinTasks, MainType
  <2> QED
    BY <1>41, <2>1, TypeUnchanged DEF JoinTasks, ownerVars, queueVars
<1>42. ASSUME FinalFlush PROVE TypeOK'
  <2>1. MainType'
    BY <1>42 DEF FinalFlush, MainType
  <2> QED
    BY <1>42, <2>1, TypeUnchanged DEF FinalFlush, ownerVars, queueVars
<1>43. CASE UNCHANGED vars
    BY <1>43, TypeUnchanged DEF vars
<1> QED
    BY <1>1, <1>2, <1>3, <1>4, <1>5, <1>6, <1>7, <1>8, <1>9,
       <1>10, <1>11, <1>12, <1>13, <1>14, <1>15, <1>16, <1>17, <1>18,
       <1>19, <1>20, <1>21, <1>22, <1>23, <1>24, <1>25, <1>26, <1>27,
       <1>28, <1>29, <1>30, <1>31, <1>32, <1>33, <1>34, <1>35, <1>36,
       <1>37, <1>38, <1>39, <1>40, <1>41, <1>42, <1>43
    DEF Next, CallerStep, OwnerStep, WorkerStep, ShutdownStep, Terminated

\* The types of all variables hold in every reachable state.
THEOREM TypeCorrect == Spec => []TypeOK
<1>1. Init => TypeOK
  <2> SUFFICES ASSUME Init PROVE TypeOK
    OBVIOUS
  <2> USE DEF Init
  <2>1. CallerType
    BY DEF CallerType, CallerStates
  <2>2. AdmitType
    BY BoundsAssumption DEF AdmitType, Class
  <2>3. WorkType
    BY DEF WorkType
  <2>4. IntentType
    BY DEF IntentType
  <2>5. OwnerType
    BY DEF OwnerType, OwnerStates
  <2>6. QueueType
    BY BoundsAssumption DEF QueueType
  <2>7. WorkerType
    BY DEF WorkerType
  <2>8. CompletionType
    BY DEF CompletionType
  <2>9. MainType
    BY DEF MainType
  <2> QED
    BY <2>1, <2>2, <2>3, <2>4, <2>5, <2>6, <2>7, <2>8, <2>9 DEF TypeOK
<1> QED
    BY <1>1, TypeStep, PTL DEF Spec

\* Saves reach the store in the order of their publication and none is lost
\* or repeated, for every capacity and batch limit (run_worker, publish).
THEOREM SavesAreFifo == Spec => []SaveFifo
<1>1. Init => SaveFifo
    BY DEF Init, SaveFifo
<1>2. TypeOK /\ SaveFifo /\ [Next]_vars => SaveFifo'
  <2> SUFFICES ASSUME TypeOK, SaveFifo, [Next]_vars PROVE SaveFifo'
    OBVIOUS
  <2> USE DEF SaveFifo
  <2>0. /\ queue \in Seq(Items) /\ published \in Seq(Items)
        /\ batch \in Seq(Items) /\ persisted \in Seq(Items)
    BY DEF TypeOK, QueueType, WorkerType
  <2>1. ASSUME UNCHANGED <<queue, published, batch, persisted>> PROVE SaveFifo'
    BY <2>1
  <2>2. ASSUME NEW s \in Items, Publish(s), UNCHANGED <<batch, persisted>> PROVE SaveFifo'
    <3>1. persisted \o batch \in Seq(Items)
      BY <2>0
    <3>2. queue' = Append(queue, s) /\ published' = Append(published, s)
      BY <2>2 DEF Publish
    <3>3. (persisted \o batch) \o Append(queue, s) = Append((persisted \o batch) \o queue, s)
      BY <2>0, <3>1, AppendToConcat
    <3> QED
      BY <2>2, <3>2, <3>3
  <2>3. ASSUME queue # <<>>, TakeEnvelope, UNCHANGED <<published, persisted>> PROVE SaveFifo'
    <3>a. \A s, t, u \in Seq(Items) : (s \o t) \o u = s \o (t \o u)
      BY ConcatAssoc
    <3>1. Append(batch, Head(queue)) \o Tail(queue) = batch \o queue
      BY <2>0, <2>3, MoveHead
    <3>2. /\ Append(batch, Head(queue)) \in Seq(Items)
          /\ Tail(queue) \in Seq(Items)
      BY <2>0, <2>3
    <3>3. (persisted \o Append(batch, Head(queue))) \o Tail(queue)
                = persisted \o (Append(batch, Head(queue)) \o Tail(queue))
      BY <2>0, <3>2, <3>a
    <3>4. persisted \o (batch \o queue) = (persisted \o batch) \o queue
      BY <2>0, <3>a
    <3> QED
      BY <2>3, <3>1, <3>3, <3>4 DEF TakeEnvelope
  <2>4. CASE WorkerPersist
    <3>1. Append(persisted, Head(batch)) \o Tail(batch) = persisted \o batch
      BY <2>0, <2>4, MoveHead DEF WorkerPersist
    <3>2. batch' = Tail(batch) /\ persisted' = Append(persisted, Head(batch))
      BY <2>4 DEF WorkerPersist
    <3>3. UNCHANGED <<queue, published>>
      BY <2>4 DEF WorkerPersist, queueVars
    <3> QED
      BY <3>1, <3>2, <3>3
  <2>5. CASE WorkerReceive \/ WorkerGather
    BY <2>3, <2>5 DEF WorkerReceive, WorkerGather
  <2>6. CASE AdmitDelete
    <3>1. Head(deletes) \in Items
      BY <2>6 DEF AdmitDelete, TypeOK, WorkType, Items
    <3> QED
      BY <2>1, <2>2, <2>6, <3>1 DEF AdmitDelete, PublishNothing, workerVars
  <2>7. CASE AdmitCommand
    <3>1. Candidate(nextClass) \in Items
      BY <2>7 DEF AdmitCommand, TypeOK, CallerType, AdmitType, Candidate, Items
    <3> QED
      BY <2>1, <2>2, <2>7, <3>1 DEF AdmitCommand, ApplyEffect, PublishNothing, workerVars
  <2>8. ASSUME NEW k \in 1..2, AdmitIntent(k) PROVE SaveFifo'
    <3>1. Head(backlog[k]) \in Items
      BY <2>8 DEF AdmitIntent, TypeOK, IntentType, Items
    <3> QED
      BY <2>1, <2>2, <2>8, <3>1 DEF AdmitIntent, PublishNothing, workerVars
  <2>9. CASE UNCHANGED vars
    BY <2>1, <2>9 DEF vars, queueVars, workerVars
  <2>10. ASSUME NEW c \in Commands, CallerStep(c) PROVE SaveFifo'
    BY <2>1, <2>10 DEF CallerStep, Reserve, Refuse, Send, Wake, queueVars, workerVars
  <2>11. ASSUME NEW i \in Intents, RequestIntent(i) \/ Wake(i) PROVE SaveFifo'
    BY <2>1, <2>11 DEF RequestIntent, Wake, queueVars, workerVars
  <2>12. ASSUME NEW c \in Delayed, DeadlinePasses(c) \/ RunDueAction(c) PROVE SaveFifo'
    BY <2>1, <2>12 DEF DeadlinePasses, RunDueAction, queueVars, workerVars
  <2>13. CASE CheckShutdown \/ PlanImmediate \/ PlanPark \/ Park \/ Unpark \/ ParkTimeout
    BY <2>1, <2>13 DEF CheckShutdown, PlanImmediate, PlanPark, Park, Unpark, ParkTimeout,
       queueVars, workerVars
  <2>14. CASE DrainCompletion \/ ReceiveLastCompletion \/ BeginAdmission \/ NoAdmittedDelete
    BY <2>1, <2>14 DEF DrainCompletion, ReceiveLastCompletion, BeginAdmission,
       NoAdmittedDelete, queueVars, workerVars
  <2>15. CASE SkipClass \/ ParkHead \/ EndAdmission \/ EndDue
    BY <2>1, <2>15 DEF SkipClass, ParkHead, EndAdmission, EndDue, queueVars, workerVars
  <2>16. ASSUME NEW k \in 1..2, CollectIntents(k) \/ EndIntents(k) PROVE SaveFifo'
    BY <2>1, <2>16 DEF CollectIntents, EndIntents, queueVars, workerVars
  <2>17. CASE CloseIngress \/ QuiescingCheck \/ QuiescingPlan \/ CompletionsClosed
    BY <2>1, <2>17 DEF CloseIngress, QuiescingCheck, QuiescingPlan, CompletionsClosed,
       queueVars, workerVars
  <2>18. CASE WorkerBeginBatch \/ WorkerNotify \/ WorkerEndBatch \/ WorkerExit
    BY <2>1, <2>18 DEF WorkerBeginBatch, WorkerNotify, WorkerEndBatch, WorkerExit, queueVars
  <2>19. CASE SendShutdown \/ ShutdownStep
    BY <2>1, <2>19 DEF SendShutdown, ShutdownStep, WakeForShutdown, DropMainHandle, JoinTasks,
       FinalFlush, queueVars, workerVars
  <2> QED
    BY <2>4, <2>5, <2>6, <2>7, <2>8, <2>9, <2>10, <2>11, <2>12, <2>13, <2>14, <2>15, <2>16,
       <2>17, <2>18, <2>19 DEF Next, OwnerStep, WorkerStep, Terminated
<1> QED
    BY <1>1, <1>2, TypeCorrect, PTL DEF Spec

\* A step that leaves the four histories of every class alone keeps the order.
LEMMA FifoUnchanged ==
    ASSUME ClassFifo, UNCHANGED <<sent, applied, heads, ingress>>
    PROVE  ClassFifo'
  BY DEF ClassFifo, HeadSeq

\* Within a class commands are applied in the order they were sent, none lost,
\* repeated or overtaken, for every capacity and budget
\* (take_admitted_command, PendingCommandHeads).
THEOREM ClassesAreFifo == Spec => []ClassFifo
<1>1. Init => ClassFifo
    BY DEF Init, ClassFifo, HeadSeq
<1>2. TypeOK /\ ClassFifo /\ [Next]_vars => ClassFifo'
  <2> SUFFICES ASSUME TypeOK, ClassFifo, [Next]_vars PROVE ClassFifo'
    OBVIOUS
  <2>0. /\ ingress \in [Class -> Seq(Commands)] /\ sent \in [Class -> Seq(Commands)]
        /\ applied \in [Class -> Seq(Commands)] /\ heads \in [Class -> Commands \cup {None}]
        /\ nextClass \in Class /\ None \notin Commands
    BY ItemsAssumption DEF TypeOK, CallerType, AdmitType, Items
  <2>a. \A k \in Class : HeadSeq(k) \in Seq(Commands)
    BY <2>0 DEF HeadSeq
  <2>1. ASSUME NEW c \in Commands, Send(c) PROVE ClassFifo'
    <3> SUFFICES ASSUME NEW k \in Class
                 PROVE  sent'[k] = applied'[k] \o HeadSeq(k)' \o ingress'[k]
      BY DEF ClassFifo
    <3>1. applied' = applied /\ heads' = heads
      BY <2>1 DEF Send, admitVars
    <3>2. HeadSeq(k)' = HeadSeq(k)
      BY <3>1 DEF HeadSeq
    <3>3. sent[k] = applied[k] \o HeadSeq(k) \o ingress[k]
      BY DEF ClassFifo
    <3>4. CASE k = ClassOf(c)
      <4>1. sent'[k] = Append(sent[k], c) /\ ingress'[k] = Append(ingress[k], c)
        BY <2>0, <2>1, <3>4 DEF Send
      <4>2. applied[k] \o HeadSeq(k) \in Seq(Commands)
        BY <2>0, <2>a
      <4>3. (applied[k] \o HeadSeq(k)) \o Append(ingress[k], c)
              = Append((applied[k] \o HeadSeq(k)) \o ingress[k], c)
        BY SMTT(30), <2>0, <4>2, AppendToConcat
      <4> QED
        BY <3>1, <3>2, <3>3, <4>1, <4>3
    <3>5. CASE k # ClassOf(c)
      BY <2>0, <2>1, <3>1, <3>2, <3>3, <3>5 DEF Send
    <3> QED
      BY <3>4, <3>5
  <2>2. CASE ParkHead
    <3> SUFFICES ASSUME NEW k \in Class
                 PROVE  sent'[k] = applied'[k] \o HeadSeq(k)' \o ingress'[k]
      BY DEF ClassFifo
    <3>1. sent' = sent /\ applied' = applied
      BY <2>2 DEF ParkHead
    <3>2. sent[k] = applied[k] \o HeadSeq(k) \o ingress[k]
      BY DEF ClassFifo
    <3>3. /\ Candidate(nextClass) \in Durable
          /\ heads' = [heads EXCEPT ![nextClass] = Candidate(nextClass)]
          /\ TakeCandidate(nextClass)
      BY <2>2 DEF ParkHead
    <3>4. Candidate(nextClass) # None
      BY <2>0, <3>3, KindsAssumption
    <3>5. CASE k # nextClass
      <4>1. heads'[k] = heads[k] /\ ingress'[k] = ingress[k]
        BY <2>0, <3>3, <3>5 DEF TakeCandidate
      <4> QED
        BY <3>1, <3>2, <4>1 DEF HeadSeq
    <3>6. CASE k = nextClass /\ heads[k] # None
      <4>1. heads'[k] = heads[k] /\ ingress'[k] = ingress[k]
        BY <2>0, <3>3, <3>6 DEF TakeCandidate, Candidate
      <4> QED
        BY <3>1, <3>2, <4>1 DEF HeadSeq
    <3>7. CASE k = nextClass /\ heads[k] = None
      <4>1. ingress[k] # <<>> /\ Candidate(k) = Head(ingress[k])
        BY <3>4, <3>7 DEF Candidate
      <4>2. heads'[k] = Head(ingress[k]) /\ ingress'[k] = Tail(ingress[k])
        BY <2>0, <3>3, <3>7, <4>1 DEF TakeCandidate
      <4>3. ingress[k] = <<Head(ingress[k])>> \o Tail(ingress[k]) /\ Head(ingress[k]) \in Commands
            /\ Tail(ingress[k]) \in Seq(Commands)
        BY <2>0, <4>1, HeadTail
      <4>4. HeadSeq(k) = <<>> /\ HeadSeq(k)' = <<Head(ingress[k])>>
        BY <2>0, <3>7, <4>2, <4>3 DEF HeadSeq
      <4>5. applied[k] \o <<>> = applied[k]
        BY <2>0
      <4>6. <<Head(ingress[k])>> \in Seq(Commands)
        BY <4>3
      <4>7. applied[k] \o (<<Head(ingress[k])>> \o Tail(ingress[k]))
              = (applied[k] \o <<Head(ingress[k])>>) \o Tail(ingress[k])
        <5>1. applied[k] \in Seq(Commands)
          BY <2>0
        <5>2. \A s, t, u \in Seq(Commands) : (s \o t) \o u = s \o (t \o u)
          BY ConcatAssoc
        <5> QED
          BY <4>3, <4>6, <5>1, <5>2
      <4> QED
        BY <3>1, <3>2, <4>2, <4>3, <4>4, <4>5, <4>7
    <3> QED
      BY <3>5, <3>6, <3>7
  <2>3. CASE AdmitCommand
    <3> SUFFICES ASSUME NEW k \in Class
                 PROVE  sent'[k] = applied'[k] \o HeadSeq(k)' \o ingress'[k]
      BY DEF ClassFifo
    <3>1. sent[k] = applied[k] \o HeadSeq(k) \o ingress[k]
      BY DEF ClassFifo
    <3>2. /\ Candidate(nextClass) # None
          /\ heads' = [heads EXCEPT ![nextClass] = None]
          /\ applied' = [applied EXCEPT ![nextClass] = Append(applied[nextClass], Candidate(nextClass))]
          /\ TakeCandidate(nextClass)
          /\ sent' = sent
      BY <2>3 DEF AdmitCommand
    <3>3. CASE k # nextClass
      <4>1. heads'[k] = heads[k] /\ ingress'[k] = ingress[k] /\ applied'[k] = applied[k]
        BY <2>0, <3>2, <3>3 DEF TakeCandidate
      <4> QED
        BY <3>1, <3>2, <4>1 DEF HeadSeq
    <3>4. CASE k = nextClass /\ heads[k] # None
      <4>1. /\ HeadSeq(k) = <<heads[k]>> /\ heads[k] \in Commands
            /\ ingress'[k] = ingress[k]
            /\ applied'[k] = Append(applied[k], heads[k]) /\ HeadSeq(k)' = <<>>
        BY <2>0, <3>2, <3>4 DEF HeadSeq, Candidate, TakeCandidate
      <4>2. applied[k] \o <<heads[k]>> = Append(applied[k], heads[k])
        BY <2>0, <4>1
      <4>3. Append(applied[k], heads[k]) \o <<>> = Append(applied[k], heads[k])
        BY <2>0, <4>1
      <4> QED
        BY <3>1, <3>2, <4>1, <4>2, <4>3
    <3>5. CASE k = nextClass /\ heads[k] = None
      <4>1. ingress[k] # <<>> /\ Candidate(k) = Head(ingress[k])
        BY <3>2, <3>5 DEF Candidate
      <4>2. /\ HeadSeq(k) = <<>> /\ HeadSeq(k)' = <<>>
            /\ ingress'[k] = Tail(ingress[k])
            /\ applied'[k] = Append(applied[k], Head(ingress[k]))
        BY <2>0, <3>2, <3>5, <4>1 DEF HeadSeq, TakeCandidate
      <4>3. Append(applied[k], Head(ingress[k])) \o Tail(ingress[k]) = applied[k] \o ingress[k]
        BY ZenonT(30), <2>0, <4>1, MoveHead
      <4>4. Head(ingress[k]) \in Commands
        BY <2>0, <4>1, HeadTail
      <4>5. applied[k] \o <<>> = applied[k]
        BY <2>0
      <4>6. Append(applied[k], Head(ingress[k])) \o <<>> = Append(applied[k], Head(ingress[k]))
        BY <2>0, <4>4
      <4> QED
        BY <3>1, <3>2, <4>2, <4>3, <4>5, <4>6
    <3> QED
      BY <3>3, <3>4, <3>5
  <2> USE DEF callerVars, admitVars
  <2>4. CASE UNCHANGED vars
    BY <2>4, FifoUnchanged DEF vars
  <2>5. ASSUME NEW c \in Commands, Reserve(c) \/ Refuse(c) \/ Wake(c) PROVE ClassFifo'
    BY <2>5, FifoUnchanged DEF Reserve, Refuse, Wake
  <2>6. ASSUME NEW i \in Intents, RequestIntent(i) \/ Wake(i) PROVE ClassFifo'
    BY <2>6, FifoUnchanged DEF RequestIntent, Wake
  <2>7. ASSUME NEW c \in Delayed, DeadlinePasses(c) \/ RunDueAction(c) PROVE ClassFifo'
    BY <2>7, FifoUnchanged DEF DeadlinePasses, RunDueAction
  <2>8. CASE CheckShutdown \/ PlanImmediate \/ PlanPark \/ Park \/ Unpark \/ ParkTimeout
    BY <2>8, FifoUnchanged DEF CheckShutdown, PlanImmediate, PlanPark, Park, Unpark, ParkTimeout
  <2>9. CASE DrainCompletion \/ ReceiveLastCompletion \/ BeginAdmission \/ AdmitDelete
    BY <2>9, FifoUnchanged DEF DrainCompletion, ReceiveLastCompletion, BeginAdmission,
       AdmitDelete
  <2>10. CASE NoAdmittedDelete \/ SkipClass \/ EndAdmission \/ EndDue
    BY <2>10, FifoUnchanged DEF NoAdmittedDelete, SkipClass, EndAdmission, EndDue
  <2>11. ASSUME NEW k \in 1..2, CollectIntents(k) \/ AdmitIntent(k) \/ EndIntents(k)
         PROVE ClassFifo'
    BY <2>11, FifoUnchanged DEF CollectIntents, AdmitIntent, EndIntents
  <2>12. CASE CloseIngress \/ QuiescingCheck \/ QuiescingPlan \/ CompletionsClosed
    BY <2>12, FifoUnchanged DEF CloseIngress, QuiescingCheck, QuiescingPlan, CompletionsClosed
  <2>13. CASE WorkerStep
    BY <2>13, FifoUnchanged DEF WorkerStep, WorkerReceive, WorkerGather, WorkerBeginBatch,
       WorkerPersist, WorkerNotify, WorkerEndBatch, WorkerExit
  <2>14. CASE SendShutdown \/ ShutdownStep
    BY <2>14, FifoUnchanged DEF SendShutdown, ShutdownStep, WakeForShutdown, DropMainHandle,
       JoinTasks, FinalFlush
  <2> QED
    BY <2>1, <2>2, <2>3, <2>4, <2>5, <2>6, <2>7, <2>8, <2>9, <2>10, <2>11, <2>12, <2>13, <2>14
    DEF Next, CallerStep, OwnerStep, Terminated
<1> QED
    BY <1>1, <1>2, TypeCorrect, PTL DEF Spec

(***************************************************************************)
(* The final flush.  FlushAfterDrain is not inductive: it needs that the   *)
(* owner that dropped its handle has nothing left and stays that way, that *)
(* a worker between two batches holds no envelope, that it exits only      *)
(* after the owner stopped publishing, and that main joins both.           *)
(***************************************************************************)
OwnerDrained ==
    OwnerHandleDropped =>
        /\ NoHeads /\ deletes = <<>> /\ due = {} /\ ripe = {}
        /\ backlog[1] = <<>> /\ backlog[2] = <<>>
WorkerIdle == wpc \in {"recv", "exited"} => batch = <<>>
WorkerGone == wpc = "exited" => queue = <<>> /\ OwnerHandleDropped
BothJoined == mpc \in {"joined", "flushed"} => wpc = "exited" /\ opc = "done"

DrainInv == OwnerDrained /\ WorkerIdle /\ WorkerGone /\ BothJoined

\* A step that leaves the variables of the four parts alone keeps them.
LEMMA DrainUnchanged ==
    ASSUME DrainInv,
           UNCHANGED <<heads, deletes, due, ripe, backlog, opc, batch, queue, wpc, mpc>>
    PROVE  DrainInv'
  BY DEF DrainInv, OwnerDrained, WorkerIdle, WorkerGone, BothJoined, OwnerHandleDropped, NoHeads

\* An owner step that starts and ends before the handle is dropped cannot
\* disturb the drained state: there is none yet.
LEMMA OwnerBusy ==
    ASSUME DrainInv, ~OwnerHandleDropped, ~OwnerHandleDropped',
           UNCHANGED <<batch, wpc, mpc>>
    PROVE  DrainInv'
  BY DEF DrainInv, OwnerDrained, WorkerIdle, WorkerGone, BothJoined, OwnerHandleDropped

\* Each action keeps the strengthened invariant.
LEMMA DrainStep == TypeOK /\ DrainInv /\ [Next]_vars => DrainInv'
<1> SUFFICES ASSUME TypeOK, DrainInv, [Next]_vars PROVE DrainInv'
    OBVIOUS
<1> USE DEF admitVars, dueVars, intentVars, queueVars, workerVars, ownerVars, mainVars
<1>1. CASE UNCHANGED vars
    BY <1>1, DrainUnchanged DEF vars
<1>2. ASSUME NEW c \in Commands, CallerStep(c) PROVE DrainInv'
    BY <1>2, DrainUnchanged DEF CallerStep, Reserve, Refuse, Send, Wake
<1>3. ASSUME NEW i \in Intents, RequestIntent(i) \/ Wake(i) PROVE DrainInv'
    BY <1>3, DrainUnchanged DEF RequestIntent, Wake
<1>4. ASSUME NEW c \in Delayed, DeadlinePasses(c) PROVE DrainInv'
  <2>1. ~OwnerHandleDropped /\ ~OwnerHandleDropped'
    BY <1>4 DEF DeadlinePasses, DrainInv, OwnerDrained, OwnerHandleDropped
  <2> QED
    BY <1>4, <2>1, OwnerBusy DEF DeadlinePasses
<1>5. CASE CheckShutdown \/ PlanImmediate \/ PlanPark \/ Park \/ Unpark \/ ParkTimeout
  <2>1. ~OwnerHandleDropped /\ ~OwnerHandleDropped'
    BY <1>5 DEF CheckShutdown, PlanImmediate, PlanPark, Park, Unpark, ParkTimeout, Resume,
       OwnerHandleDropped
  <2> QED
    BY <1>5, <2>1, OwnerBusy DEF CheckShutdown, PlanImmediate, PlanPark, Park, Unpark,
       ParkTimeout
<1>6. CASE DrainCompletion \/ BeginAdmission \/ AdmitDelete \/ NoAdmittedDelete
  <2>1. ~OwnerHandleDropped /\ ~OwnerHandleDropped'
    BY <1>6 DEF DrainCompletion, BeginAdmission, AdmitDelete, NoAdmittedDelete, AfterApply,
       OwnerHandleDropped
  <2> QED
    BY <1>6, <2>1, OwnerBusy DEF DrainCompletion, BeginAdmission, AdmitDelete,
       NoAdmittedDelete
<1>7. CASE SkipClass \/ ParkHead \/ AdmitCommand \/ EndAdmission
  <2>1. ~OwnerHandleDropped /\ ~OwnerHandleDropped'
    BY <1>7 DEF SkipClass, ParkHead, AdmitCommand, EndAdmission, AfterApply,
       OwnerHandleDropped
  <2> QED
    BY <1>7, <2>1, OwnerBusy DEF SkipClass, ParkHead, AdmitCommand, EndAdmission
<1>8. CASE (\E c \in Delayed : RunDueAction(c)) \/ EndDue
  <2>1. ~OwnerHandleDropped /\ ~OwnerHandleDropped'
    BY <1>8 DEF RunDueAction, EndDue, OwnerHandleDropped
  <2> QED
    BY <1>8, <2>1, OwnerBusy DEF RunDueAction, EndDue
<1>9. ASSUME NEW k \in 1..2, CollectIntents(k) \/ AdmitIntent(k) \/ EndIntents(k)
      PROVE DrainInv'
  <2>1. ~OwnerHandleDropped /\ ~OwnerHandleDropped'
    BY <1>9 DEF CollectIntents, AdmitIntent, EndIntents, IntentStage, AdmitStage,
       OwnerHandleDropped
  <2> QED
    BY <1>9, <2>1, OwnerBusy DEF CollectIntents, AdmitIntent, EndIntents
<1>10. CASE CloseIngress \/ QuiescingPlan
  <2>1. ~OwnerHandleDropped /\ ~OwnerHandleDropped'
    BY <1>10 DEF CloseIngress, QuiescingPlan, OwnerHandleDropped
  <2> QED
    BY <1>10, <2>1, OwnerBusy DEF CloseIngress, QuiescingPlan
<1>11. CASE QuiescingCheck
  <2>1. OwnerDrained'
    BY <1>11 DEF QuiescingCheck, OwnerDrained, OwnerHandleDropped, QuiescingIsDrained,
       BacklogPending, NoHeads
  <2>2. WorkerIdle' /\ WorkerGone' /\ BothJoined'
    BY <1>11 DEF QuiescingCheck, DrainInv, WorkerIdle, WorkerGone, BothJoined,
       OwnerHandleDropped
  <2> QED
    BY <2>1, <2>2 DEF DrainInv
<1>12. CASE ReceiveLastCompletion
    BY <1>12, DrainUnchanged DEF ReceiveLastCompletion
<1>13. CASE CompletionsClosed
  <2>1. OwnerDrained'
    BY <1>13 DEF CompletionsClosed, DrainInv, OwnerDrained, OwnerHandleDropped, NoHeads
  <2>2. WorkerIdle' /\ WorkerGone' /\ BothJoined'
    BY <1>13 DEF CompletionsClosed, DrainInv, WorkerIdle, WorkerGone, BothJoined,
       OwnerHandleDropped
  <2> QED
    BY <2>1, <2>2 DEF DrainInv
<1>14. CASE WorkerStep
  <2>1. OwnerDrained'
    BY <1>14 DEF WorkerStep, WorkerReceive, WorkerGather, WorkerBeginBatch, WorkerPersist,
       WorkerNotify, WorkerEndBatch, WorkerExit, DrainInv, OwnerDrained, OwnerHandleDropped,
       NoHeads
  <2>2. WorkerIdle'
    BY <1>14 DEF WorkerStep, WorkerReceive, WorkerGather, WorkerBeginBatch, WorkerPersist,
       WorkerNotify, WorkerEndBatch, WorkerExit, DrainInv, WorkerIdle
  <2>3. WorkerGone' /\ BothJoined'
    BY <1>14 DEF WorkerStep, WorkerReceive, WorkerGather, WorkerBeginBatch, WorkerPersist,
       WorkerNotify, WorkerEndBatch, WorkerExit, DrainInv, WorkerGone, BothJoined,
       OwnerHandleDropped
  <2> QED
    BY <2>1, <2>2, <2>3 DEF DrainInv
<1>15. CASE SendShutdown \/ ShutdownStep
  <2>1. OwnerDrained' /\ WorkerIdle' /\ WorkerGone'
    BY <1>15 DEF SendShutdown, ShutdownStep, WakeForShutdown, DropMainHandle, JoinTasks,
       FinalFlush, DrainInv, OwnerDrained, WorkerIdle, WorkerGone, OwnerHandleDropped, NoHeads
  <2>2. BothJoined'
    BY <1>15 DEF SendShutdown, ShutdownStep, WakeForShutdown, DropMainHandle, JoinTasks,
       FinalFlush, DrainInv, BothJoined
  <2> QED
    BY <2>1, <2>2 DEF DrainInv
<1> QED
    BY <1>1, <1>2, <1>3, <1>4, <1>5, <1>6, <1>7, <1>8, <1>9, <1>10, <1>11, <1>12, <1>13,
       <1>14, <1>15 DEF Next, OwnerStep, Terminated

\* The final flush of main starts only when every published save was persisted
\* and nothing is pending in the owner (BackgroundTasks::shutdown).
THEOREM FlushComesLast == Spec => []FlushAfterDrain
<1>1. Init => DrainInv
    BY DEF Init, DrainInv, OwnerDrained, WorkerIdle, WorkerGone, BothJoined, OwnerHandleDropped
<1>2. TypeOK /\ DrainInv /\ SaveFifo => FlushAfterDrain
  <2> SUFFICES ASSUME TypeOK, DrainInv, SaveFifo, mpc \in {"joined", "flushed"}
               PROVE  /\ persisted = published
                      /\ NoHeads /\ deletes = <<>> /\ due \cup ripe = {}
                      /\ \A k \in 1..2 : backlog[k] = <<>>
    BY DEF FlushAfterDrain
  <2>1. OwnerHandleDropped /\ batch = <<>> /\ queue = <<>>
    BY DEF DrainInv, BothJoined, WorkerGone, WorkerIdle
  <2>2. persisted = published
    <3>1. persisted \in Seq(Items)
      BY DEF TypeOK, WorkerType
    <3> QED
      BY <2>1, <3>1 DEF SaveFifo
  <2>3. NoHeads /\ deletes = <<>> /\ due \cup ripe = {}
    BY <2>1 DEF DrainInv, OwnerDrained
  <2>4. \A k \in 1..2 : backlog[k] = <<>>
    BY <2>1 DEF DrainInv, OwnerDrained
  <2> QED
    BY <2>2, <2>3, <2>4
<1> QED
    BY <1>1, <1>2, DrainStep, TypeCorrect, SavesAreFifo, PTL DEF Spec
==============================================================================
