------------------------ MODULE RuntimeChannelProofs ------------------------
(***************************************************************************)
(* Further proofs about SimulationRuntime, on top of the types and the     *)
(* FIFO theorems of SimulationRuntimeProofs:                               *)
(*   NoWakeIsLost        the owner never sleeps on ready work;             *)
(*   CompletionsAreFifo  completions come back once each and in order;     *)
(*   ChannelsAreBounded  no channel exceeds its capacity, and the worker   *)
(*                       can always answer.                                *)
(***************************************************************************)
EXTENDS SimulationRuntimeProofs, FiniteSetTheorems, FunctionTheorems

(***************************************************************************)
(* No lost wake.  The property is about a parked owner only; to be         *)
(* inductive it needs what the owner knew when it decided to park: in      *)
(* which mode it is, that it looked at the shutdown flag before it         *)
(* planned, and that it parks with a timeout while an action is due.       *)
(***************************************************************************)
Parking == opc \in {"park", "parked"}

ModeOfOwner ==
    /\ opc \in {"check", "plan", "close"} => mode = "running"
    /\ opc \in {"qcheck", "qready", "drain", "done"} => mode = "quiescing"

ShutdownSeen ==
    mode = "running" /\ opc \in {"plan", "park", "parked"} /\ shutdown =>
        mpc = "signalled" \/ token

TimeoutSet == Parking /\ due \cup ripe # {} => timed

WakeInv == ModeOfOwner /\ ShutdownSeen /\ TimeoutSet /\ NoLostWake

readyVars == <<heads, ingress, queue, slots, completions, backlog, intentQueue, ripe, deletes>>

\* Readiness is a function of these variables.
LEMMA ReadyUnchanged ==
    ASSUME UNCHANGED readyVars
    PROVE  (WaitInputsReady' <=> WaitInputsReady) /\ (QuiescingWorkIsReady' <=> QuiescingWorkIsReady)
<1>1. UNCHANGED <<heads, ingress, queue, slots, completions, backlog, intentQueue, ripe, deletes>>
  BY DEF readyVars
<1>2. \A s : CapacityAvailable(s)' <=> CapacityAvailable(s)
  BY <1>1 DEF CapacityAvailable, CompletionHasRoom, QueueHasRoom, NeedsCompletionPermit
<1>3. HeadReady' <=> HeadReady
  BY <1>1, <1>2 DEF HeadReady, CapacityAvailable, CompletionHasRoom, QueueHasRoom,
                    NeedsCompletionPermit
<1>4. /\ IngressEmpty' <=> IngressEmpty
      /\ HasEmptySlot' <=> HasEmptySlot
      /\ BacklogReady' <=> BacklogReady
  BY <1>1 DEF IngressEmpty, HasEmptySlot, BacklogReady, BacklogPending, QueueHasRoom
<1>5. CapacityAvailable(Head(deletes))' <=> CapacityAvailable(Head(deletes))
  BY <1>1 DEF CapacityAvailable, CompletionHasRoom, QueueHasRoom, NeedsCompletionPermit
<1> QED
  BY <1>1, <1>3, <1>4, <1>5 DEF WaitInputsReady, CommandReady, QuiescingWorkIsReady

\* A step of somebody else while the owner is where it is: it sets the token,
\* or has a wake on its way, or makes an action ripe, or changes nothing that
\* readiness depends on.
LEMMA OthersWake ==
    ASSUME WakeInv,
           UNCHANGED <<opc, mode, timed>>,
           due' \cup ripe' = due \cup ripe,
           \/ UNCHANGED <<token, shutdown, mpc>>
           \/ token' = TRUE /\ UNCHANGED <<shutdown, mpc>>,
           \/ token' = TRUE
           \/ WakePending'
           \/ ripe' # {}
           \/ UNCHANGED readyVars /\ (WakePending' <=> WakePending)
    PROVE  WakeInv'
<1>1. ModeOfOwner'
  BY DEF WakeInv, ModeOfOwner
<1>2. ShutdownSeen'
  BY DEF WakeInv, ShutdownSeen
<1>3. TimeoutSet'
  BY DEF WakeInv, TimeoutSet, Parking
<1>4. NoLostWake'
  <2>1. SUFFICES ASSUME opc \in {"park", "parked"}, ~token'
                 PROVE  /\ mode = "running" /\ shutdown' => mpc' = "signalled"
                        /\ mode = "running" /\ WaitInputsReady' =>
                               WakePending' \/ (timed /\ ripe' # {})
                        /\ mode = "quiescing" /\ QuiescingWorkIsReady' =>
                               WakePending' \/ (timed /\ ripe' # {})
    BY DEF NoLostWake
  <2>2. ~token /\ UNCHANGED <<token, shutdown, mpc>>
    BY <2>1
  <2>3. mode = "running" /\ shutdown' => mpc' = "signalled"
    BY <2>1, <2>2 DEF WakeInv, NoLostWake
  <2>4. CASE WakePending'
    BY <2>3, <2>4
  <2>5. CASE ripe' # {}
    BY <2>1, <2>3, <2>5 DEF WakeInv, TimeoutSet, Parking
  <2>6. CASE UNCHANGED readyVars /\ (WakePending' <=> WakePending)
    <3>1. ripe' = ripe
      BY <2>6 DEF readyVars
    <3> QED
      BY <2>1, <2>2, <2>3, <2>6, <3>1, ReadyUnchanged DEF WakeInv, NoLostWake
  <2> QED
    BY <2>1, <2>4, <2>5, <2>6
<1> QED
  BY <1>1, <1>2, <1>3, <1>4 DEF WakeInv

\* An owner step that does not end in a park needs only the mode.
LEMMA OwnerAwake ==
    ASSUME opc' \notin {"plan", "park", "parked"}, ModeOfOwner'
    PROVE  WakeInv'
BY DEF WakeInv, ShutdownSeen, TimeoutSet, Parking, NoLostWake

LEMMA WakeCaller ==
    ASSUME TypeOK, WakeInv, NEW c \in Commands \cup Intents,
           CallerStep(c) \/ RequestIntent(c)
    PROVE  WakeInv'
<1>1. UNCHANGED <<opc, mode, timed, due, ripe, shutdown, mpc>>
  BY DEF CallerStep, Reserve, Refuse, Send, Wake, RequestIntent, ownerVars, dueVars, mainVars
<1>2. caller \in [Commands \cup Intents -> CallerStates]
  BY DEF TypeOK, CallerType
<1>3. CASE Wake(c)
  <2>1. token' = TRUE
    BY <1>3 DEF Wake
  <2> QED
    BY <1>1, <2>1, OthersWake
<1>4. CASE Send(c) \/ RequestIntent(c)
  <2>1. token' = token
    BY <1>4 DEF Send, RequestIntent
  <2>2. caller'[c] = "sent"
    BY <1>2, <1>4 DEF Send, RequestIntent
  <2>3. WakePending'
    BY <2>2 DEF WakePending
  <2> QED
    BY <1>1, <2>1, <2>3, OthersWake
<1>5. CASE Reserve(c) \/ Refuse(c)
  <2>1. token' = token /\ wpc' = wpc
    BY <1>5 DEF Reserve, Refuse, workerVars
  <2>2. UNCHANGED readyVars
    BY <1>5 DEF Reserve, Refuse, readyVars, admitVars, dueVars, intentVars, queueVars
  <2>3. /\ caller[c] = "idle" /\ caller'[c] \in {"reserved", "refused"}
        /\ \A d \in (Commands \cup Intents) \ {c} : caller'[d] = caller[d]
    BY <1>2, <1>5 DEF Reserve, Refuse
  <2>4. WakePending' <=> WakePending
    BY <2>1, <2>3 DEF WakePending
  <2> QED
    BY <1>1, <2>1, <2>2, <2>4, OthersWake
<1> QED
  BY <1>3, <1>4, <1>5 DEF CallerStep

LEMMA WakeWorker ==
    ASSUME TypeOK, WakeInv, WorkerStep
    PROVE  WakeInv'
<1>1. UNCHANGED <<opc, mode, timed, due, ripe, shutdown, mpc, caller>>
  BY DEF WorkerStep, WorkerReceive, WorkerGather, WorkerBeginBatch, WorkerPersist, WorkerNotify,
         WorkerEndBatch, WorkerExit, ownerVars, dueVars, mainVars, callerVars
<1>2. CASE WorkerReceive \/ WorkerGather
  <2>1. token' = token /\ wpc' = "gather"
    BY <1>2 DEF WorkerReceive, WorkerGather
  <2>2. WakePending'
    BY <2>1 DEF WakePending
  <2> QED
    BY <1>1, <2>1, <2>2, OthersWake
<1>3. CASE WorkerBeginBatch \/ WorkerNotify \/ WorkerEndBatch \/ WorkerExit
  <2>1. token' = TRUE
    BY <1>3 DEF WorkerBeginBatch, WorkerNotify, WorkerEndBatch, WorkerExit
  <2> QED
    BY <1>1, <2>1, OthersWake
<1>4. CASE WorkerPersist
  <2>1. token' = token
    BY <1>4 DEF WorkerPersist
  <2>2. CASE NeedsCompletionPermit(Head(batch))
    <3>1. wpc' = "notify"
      BY <1>4, <2>2 DEF WorkerPersist
    <3>2. WakePending'
      BY <3>1 DEF WakePending
    <3> QED
      BY <1>1, <2>1, <3>2, OthersWake
  <2>3. CASE ~NeedsCompletionPermit(Head(batch))
    <3>1. UNCHANGED <<completions, wpc>>
      BY <1>4, <2>3 DEF WorkerPersist
    <3>2. UNCHANGED readyVars
      BY <1>1, <1>4, <3>1 DEF WorkerPersist, readyVars, callerVars, admitVars, intentVars, queueVars
    <3>3. WakePending' <=> WakePending
      BY <1>1, <3>1 DEF WakePending
    <3> QED
      BY <1>1, <2>1, <3>2, <3>3, OthersWake
  <2> QED
    BY <2>2, <2>3
<1> QED
  BY <1>2, <1>3, <1>4 DEF WorkerStep

LEMMA WakeTime ==
    ASSUME TypeOK, WakeInv, NEW c \in Delayed, DeadlinePasses(c)
    PROVE  WakeInv'
<1>1. UNCHANGED <<opc, mode, timed, token, shutdown, mpc>>
  BY DEF DeadlinePasses, ownerVars, mainVars
<1>2. due' \cup ripe' = due \cup ripe /\ ripe' # {}
  BY DEF DeadlinePasses
<1> QED
  BY <1>1, <1>2, OthersWake

\* main wakes the owner after it has raised the shutdown flag.
LEMMA WakeMain ==
    ASSUME TypeOK, WakeInv, SendShutdown \/ ShutdownStep
    PROVE  WakeInv'
<1>1. UNCHANGED <<opc, mode, timed, due, ripe, caller, wpc>>
  BY DEF SendShutdown, ShutdownStep, WakeForShutdown, DropMainHandle, JoinTasks, FinalFlush,
         ownerVars, dueVars, callerVars, workerVars
<1>2. UNCHANGED readyVars
  BY DEF SendShutdown, ShutdownStep, WakeForShutdown, DropMainHandle, JoinTasks, FinalFlush,
         readyVars, callerVars, admitVars, dueVars, intentVars, queueVars
<1>3. WakePending' <=> WakePending
  BY <1>1 DEF WakePending
<1>4. ModeOfOwner' /\ TimeoutSet'
  BY <1>1 DEF WakeInv, ModeOfOwner, TimeoutSet, Parking
<1>5. CASE WakeForShutdown
  <2>1. token' = TRUE
    BY <1>5 DEF WakeForShutdown
  <2> QED
    BY <1>4, <2>1 DEF WakeInv, ShutdownSeen, NoLostWake
<1>6. CASE SendShutdown
  <2>1. mpc' = "signalled" /\ token' = token
    BY <1>6 DEF SendShutdown
  <2>2. ShutdownSeen'
    BY <2>1 DEF ShutdownSeen
  <2>3. NoLostWake'
    BY <1>1, <1>2, <1>3, <2>1, ReadyUnchanged DEF NoLostWake, WakeInv, readyVars
  <2> QED
    BY <1>4, <2>2, <2>3 DEF WakeInv
<1>7. CASE DropMainHandle \/ JoinTasks \/ FinalFlush
  <2>1. mpc # "signalled" /\ token' = token /\ shutdown' = shutdown
    BY <1>7 DEF DropMainHandle, JoinTasks, FinalFlush
  <2>2. ShutdownSeen'
    BY <1>1, <2>1 DEF ShutdownSeen, WakeInv
  <2>3. NoLostWake'
    BY <1>1, <1>2, <1>3, <2>1, ReadyUnchanged DEF NoLostWake, WakeInv, readyVars
  <2> QED
    BY <1>4, <2>2, <2>3 DEF WakeInv
<1> QED
  BY <1>5, <1>6, <1>7 DEF ShutdownStep

\* The owner decides to park on what it sees, in either mode.
LEMMA WakePark ==
    ASSUME TypeOK, WakeInv, CheckShutdown \/ PlanPark \/ Park \/ QuiescingPlan
    PROVE  WakeInv'
<1>1. UNCHANGED <<mode, shutdown, mpc, due, ripe, caller, wpc>> /\ UNCHANGED readyVars
  BY DEF CheckShutdown, PlanPark, Park, QuiescingPlan, callerVars, admitVars, dueVars, intentVars,
         queueVars, workerVars, mainVars, readyVars
<1>2. WakePending' <=> WakePending
  BY <1>1 DEF WakePending
<1>3. CASE CheckShutdown
  <2>1. mode = "running" /\ opc' = IF shutdown THEN "close" ELSE "plan"
    BY <1>3 DEF CheckShutdown, WakeInv, ModeOfOwner
  <2> QED
    BY <1>1, <2>1 DEF WakeInv, ModeOfOwner, ShutdownSeen, TimeoutSet, Parking, NoLostWake
<1>4. CASE PlanPark
  <2>1. mode = "running" /\ opc = "plan" /\ opc' = "park" /\ timed' = TRUE /\ token' = token
        /\ ~WaitInputsReady
    BY <1>4 DEF PlanPark, WakeInv, ModeOfOwner
  <2>2. ModeOfOwner' /\ ShutdownSeen' /\ TimeoutSet'
    BY <1>1, <2>1 DEF WakeInv, ModeOfOwner, ShutdownSeen, TimeoutSet, Parking
  <2>3. NoLostWake'
    BY <1>1, <2>1, <2>2, ReadyUnchanged DEF NoLostWake, ShutdownSeen
  <2> QED
    BY <2>2, <2>3 DEF WakeInv
<1>5. CASE Park
  <2>1. opc = "park" /\ timed' = timed /\ opc' = IF token THEN Resume ELSE "parked"
    BY <1>5 DEF Park
  <2>2. CASE token
    <3>1. opc' = Resume
      BY <2>1, <2>2
    <3> QED
      BY <1>1, <3>1, OwnerAwake DEF Resume, ModeOfOwner, WakeInv, TypeOK, OwnerType
  <2>3. CASE ~token
    <3>1. opc' = "parked" /\ ~token'
      BY <1>5, <2>3 DEF Park
    <3>2. ModeOfOwner' /\ ShutdownSeen' /\ TimeoutSet'
      BY <1>1, <2>1, <2>3, <3>1 DEF WakeInv, ModeOfOwner, ShutdownSeen, TimeoutSet, Parking
    <3>3. NoLostWake'
      BY <1>1, <1>2, <2>1, <2>3, <3>1, ReadyUnchanged DEF NoLostWake, WakeInv, readyVars
    <3> QED
      BY <3>2, <3>3 DEF WakeInv
  <2> QED
    BY <2>2, <2>3
<1>6. CASE QuiescingPlan
  <2>1. mode = "quiescing" /\ opc = "qready" /\ token' = token
    BY <1>6 DEF QuiescingPlan, WakeInv, ModeOfOwner
  <2>2. CASE opc' = "qcheck"
    BY <1>1, <2>1, <2>2, OwnerAwake DEF ModeOfOwner
  <2>3. CASE opc' # "qcheck"
    <3>1. opc' = "park" /\ timed' = (due # {}) /\ ~QuiescingWorkIsReady
      BY <1>6, <2>3 DEF QuiescingPlan
    <3>2. ripe = {}
      BY <3>1 DEF QuiescingWorkIsReady
    <3>3. due # {} => timed'
      BY <3>1, Zenon
    <3>4. ModeOfOwner' /\ ShutdownSeen' /\ TimeoutSet'
      BY <1>1, <2>1, <3>1, <3>2, <3>3 DEF ModeOfOwner, ShutdownSeen, TimeoutSet, Parking
    <3>5. NoLostWake'
      BY <1>1, <2>1, <3>1, ReadyUnchanged DEF NoLostWake
    <3> QED
      BY <3>4, <3>5 DEF WakeInv
  <2> QED
    BY <2>2, <2>3
<1> QED
  BY <1>3, <1>4, <1>5, <1>6

\* Every other step of the owner leaves it awake.
LEMMA WakeOwner ==
    ASSUME TypeOK, WakeInv,
           \/ PlanImmediate \/ Unpark \/ ParkTimeout \/ DrainCompletion \/ BeginAdmission
           \/ AdmitDelete \/ NoAdmittedDelete \/ SkipClass \/ ParkHead \/ AdmitCommand
           \/ EndAdmission \/ EndDue \/ CloseIngress \/ QuiescingCheck \/ ReceiveLastCompletion
           \/ CompletionsClosed
           \/ \E c \in Delayed : RunDueAction(c)
           \/ \E k \in 1..2 : CollectIntents(k) \/ AdmitIntent(k) \/ EndIntents(k)
    PROVE  WakeInv'
<1>1. mode \in {"running", "quiescing"}
  BY DEF TypeOK, OwnerType
<1>2. CASE Unpark \/ ParkTimeout
  <2>1. opc' = Resume /\ mode' = mode
    BY <1>2 DEF Unpark, ParkTimeout
  <2> QED
    BY <1>1, <2>1, OwnerAwake DEF Resume, ModeOfOwner
<1>3. CASE PlanImmediate \/ DrainCompletion \/ BeginAdmission \/ NoAdmittedDelete \/ SkipClass
           \/ ParkHead \/ EndAdmission \/ EndDue
  <2>1. opc' \in {"completions", "deletes", "admit", "due", "deaths"}
    BY <1>3 DEF PlanImmediate, DrainCompletion, BeginAdmission, NoAdmittedDelete, SkipClass,
                ParkHead, EndAdmission, EndDue, ownerVars
  <2> QED
    BY <2>1, OwnerAwake DEF ModeOfOwner
<1>4. CASE AdmitDelete \/ AdmitCommand \/ \E c \in Delayed : RunDueAction(c)
  <2>1. opc' \in {"deletes", "due", "deaths"}
    BY <1>4 DEF AdmitDelete, AdmitCommand, RunDueAction, AfterApply
  <2> QED
    BY <2>1, OwnerAwake DEF ModeOfOwner
<1>5. CASE \E k \in 1..2 : CollectIntents(k) \/ AdmitIntent(k) \/ EndIntents(k)
  <2>1. mode' = mode
    BY <1>5 DEF CollectIntents, AdmitIntent, EndIntents, ownerVars
  <2>2. \/ opc' \in {"deathsAdmit", "pickupsAdmit", "pickups"}
        \/ opc' = IF mode = "running" THEN "check" ELSE "qready"
    BY <1>5 DEF CollectIntents, AdmitIntent, EndIntents, ownerVars, AdmitStage
  <2> QED
    BY <1>1, <2>1, <2>2, OwnerAwake DEF ModeOfOwner
<1>6. CASE CloseIngress
  BY <1>6, OwnerAwake DEF CloseIngress, ModeOfOwner
<1>7. CASE QuiescingCheck \/ ReceiveLastCompletion \/ CompletionsClosed
  <2>1. mode' = mode /\ mode = "quiescing" /\ opc' \in {"drain", "completions", "done"}
    BY <1>7 DEF QuiescingCheck, ReceiveLastCompletion, CompletionsClosed, ownerVars, WakeInv,
                ModeOfOwner
  <2> QED
    BY <2>1, OwnerAwake DEF ModeOfOwner
<1> QED
  BY <1>2, <1>3, <1>4, <1>5, <1>6, <1>7

LEMMA WakeStep == TypeOK /\ WakeInv /\ [Next]_vars => WakeInv'
<1> SUFFICES ASSUME TypeOK, WakeInv, [Next]_vars PROVE WakeInv'
  OBVIOUS
<1>1. CASE UNCHANGED vars
  <2>1. UNCHANGED <<opc, mode, timed, token, shutdown, mpc, due, ripe, caller, wpc>>
    BY <1>1 DEF vars, ownerVars, mainVars, dueVars, callerVars, workerVars
  <2>2. UNCHANGED readyVars
    BY <1>1 DEF vars, readyVars, admitVars, callerVars, dueVars, queueVars, intentVars
  <2>3. WakePending' <=> WakePending
    BY <2>1 DEF WakePending
  <2> QED
    BY <2>1, <2>2, <2>3, OthersWake
<1> QED
  BY <1>1, WakeCaller, WakeWorker, WakeTime, WakeMain, WakePark, WakeOwner
  DEF Next, CallerStep, OwnerStep, Terminated

\* The owner never sleeps on ready work: whenever it is parked without a
\* token and could run, somebody is about to unpark it or its timeout runs,
\* for every set of commands and every capacity.
THEOREM NoWakeIsLost == Spec => []NoLostWake
<1>1. Init => WakeInv
  BY DEF Init, WakeInv, ModeOfOwner, ShutdownSeen, TimeoutSet, Parking, NoLostWake
<1>2. WakeInv => NoLostWake
  BY DEF WakeInv
<1> QED
  BY <1>1, <1>2, WakeStep, TypeCorrect, PTL DEF Spec
------------------------------------------------------------------------------
(***************************************************************************)
(* Counting the tracked saves of a sequence.  A completion permit is       *)
(* reserved with each of them, so these counts are what the accounts of    *)
(* the completion channel add up.                                          *)
(***************************************************************************)
LEMMA TrackedFinite ==
    ASSUME NEW q, NEW n \in Nat
    PROVE  /\ IsFiniteSet({j \in 1..n : NeedsCompletionPermit(q[j])})
           /\ TrackedUpTo(q, n) \in Nat
<1> DEFINE T == {j \in 1..n : NeedsCompletionPermit(q[j])}
<1>1. IsFiniteSet(1..n)
  BY FS_Interval
<1>2. T \in SUBSET (1..n)
  OBVIOUS
<1> HIDE DEF T
<1>3. IsFiniteSet(T)
  BY <1>1, <1>2, FS_Subset
<1>4. Cardinality(T) \in Nat
  BY <1>3, FS_CardinalityType
<1> QED
  BY <1>3, <1>4 DEF T, TrackedUpTo

LEMMA TrackedNone ==
    ASSUME NEW q
    PROVE  TrackedUpTo(q, 0) = 0
<1>1. {j \in 1..0 : NeedsCompletionPermit(q[j])} = {}
  OBVIOUS
<1> QED
  BY <1>1, FS_EmptySet DEF TrackedUpTo

LEMMA TrackedLen ==
    ASSUME NEW q \in Seq(Items)
    PROVE  Len(q) \in Nat /\ TrackedUpTo(q, Len(q)) \in Nat
<1>1. Len(q) \in Nat
  OBVIOUS
<1> QED
  BY <1>1, TrackedFinite

\* One position more counts one more if its save is tracked.
LEMMA TrackedNext ==
    ASSUME NEW q, NEW n \in Nat
    PROVE  TrackedUpTo(q, n + 1) =
               TrackedUpTo(q, n) + (IF NeedsCompletionPermit(q[n + 1]) THEN 1 ELSE 0)
<1> DEFINE T == {j \in 1..n : NeedsCompletionPermit(q[j])}
           U == {j \in 1..(n + 1) : NeedsCompletionPermit(q[j])}
           x == n + 1
<1>1. IsFiniteSet(T) /\ Cardinality(T) \in Nat
  BY TrackedFinite DEF TrackedUpTo
<1>2. x \notin T
  OBVIOUS
<1>3. U = IF NeedsCompletionPermit(q[n + 1]) THEN T \cup {x} ELSE T
  OBVIOUS
<1>4. TrackedUpTo(q, n + 1) = Cardinality(U) /\ TrackedUpTo(q, n) = Cardinality(T)
  BY DEF TrackedUpTo
<1> HIDE DEF T, U, x
<1>5. Cardinality(T \cup {x}) = Cardinality(T) + 1
  BY <1>1, <1>2, FS_AddElement
<1> QED
  BY <1>1, <1>3, <1>4, <1>5

\* The count depends on the counted positions only.
LEMMA TrackedSame ==
    ASSUME NEW q, NEW r, NEW n \in Nat, \A j \in 1..n : q[j] = r[j]
    PROVE  TrackedUpTo(q, n) = TrackedUpTo(r, n)
<1>1. {j \in 1..n : NeedsCompletionPermit(q[j])} = {j \in 1..n : NeedsCompletionPermit(r[j])}
  OBVIOUS
<1> QED
  BY <1>1 DEF TrackedUpTo

LEMMA TrackedMonotone ==
    ASSUME NEW q, NEW n \in Nat, NEW m \in Nat, m <= n
    PROVE  TrackedUpTo(q, m) <= TrackedUpTo(q, n)
<1> DEFINE T == {j \in 1..m : NeedsCompletionPermit(q[j])}
           U == {j \in 1..n : NeedsCompletionPermit(q[j])}
<1>1. T \in SUBSET U /\ IsFiniteSet(U)
  BY TrackedFinite
<1>2. TrackedUpTo(q, m) = Cardinality(T) /\ TrackedUpTo(q, n) = Cardinality(U)
  BY DEF TrackedUpTo
<1> HIDE DEF T, U
<1> QED
  BY <1>1, <1>2, FS_Subset

\* A tracked position counts at least itself.
LEMMA TrackedPositive ==
    ASSUME NEW q, NEW n \in Nat, NEW i \in 1..n, NeedsCompletionPermit(q[i])
    PROVE  TrackedUpTo(q, i) \in 1..TrackedUpTo(q, n)
<1>1. i - 1 \in Nat /\ (i - 1) + 1 = i /\ i <= n /\ i \in Nat
  OBVIOUS
<1>2. TrackedUpTo(q, i) = TrackedUpTo(q, i - 1) + 1
  BY <1>1, TrackedNext
<1>3. TrackedUpTo(q, i) <= TrackedUpTo(q, n)
  BY <1>1, TrackedMonotone
<1>4. TrackedUpTo(q, i - 1) \in Nat /\ TrackedUpTo(q, n) \in Nat
  BY <1>1, TrackedFinite
<1> QED
  BY <1>2, <1>3, <1>4

LEMMA TrackedAppend ==
    ASSUME NEW q \in Seq(Items), NEW e \in Items
    PROVE  /\ Len(Append(q, e)) = Len(q) + 1
           /\ \A i \in 0..Len(q) : TrackedUpTo(Append(q, e), i) = TrackedUpTo(q, i)
           /\ TrackedUpTo(Append(q, e), Len(q) + 1) =
                  TrackedUpTo(q, Len(q)) + (IF NeedsCompletionPermit(e) THEN 1 ELSE 0)
<1> DEFINE r == Append(q, e)
<1>1. Len(q) \in Nat /\ Len(r) = Len(q) + 1 /\ r[Len(q) + 1] = e
      /\ \A j \in 1..Len(q) : r[j] = q[j]
  OBVIOUS
<1> HIDE DEF r
<1>2. \A i \in 0..Len(q) : TrackedUpTo(r, i) = TrackedUpTo(q, i)
  BY <1>1, TrackedSame
<1>3. TrackedUpTo(r, Len(q) + 1) = TrackedUpTo(r, Len(q)) + (IF NeedsCompletionPermit(e) THEN 1 ELSE 0)
  BY <1>1, TrackedNext
<1> QED
  BY <1>1, <1>2, <1>3 DEF r

\* Taking the head away shifts every other position by one.
LEMMA TrackedTail ==
    ASSUME NEW q \in Seq(Items), q # <<>>
    PROVE  /\ Len(Tail(q)) = Len(q) - 1
           /\ TrackedUpTo(q, Len(q)) =
                  TrackedUpTo(Tail(q), Len(Tail(q))) + (IF NeedsCompletionPermit(Head(q)) THEN 1 ELSE 0)
<1> DEFINE n == Len(q) - 1
           t == Tail(q)
           A == {j \in 1..(n + 1) : NeedsCompletionPermit(q[j])}
           C == {j \in 1..n : NeedsCompletionPermit(t[j])}
           f == [j \in C |-> j + 1]
           one == 1
<1>1. n \in Nat /\ n + 1 = Len(q) /\ Len(t) = n /\ Head(q) = q[1] /\ \A j \in 1..n : t[j] = q[j + 1]
  OBVIOUS
<1>2. f \in [C -> A \ {one}]
  BY <1>1
<1>3. \A a, b \in C : f[a] = f[b] => a = b
  BY <1>1
<1>4. \A y \in A \ {one} : \E x \in C : f[x] = y
  <2>1. SUFFICES ASSUME NEW y \in A \ {one} PROVE \E x \in C : f[x] = y
    OBVIOUS
  <2>2. y - 1 \in C /\ f[y - 1] = y
    BY <1>1
  <2> QED
    BY <2>2
<1>5. IsFiniteSet(A) /\ IsFiniteSet(C) /\ Cardinality(A) \in Nat
  <2> HIDE DEF n, t
  <2>1. n + 1 \in Nat
    BY <1>1
  <2>2. IsFiniteSet(A)
    BY <2>1, TrackedFinite
  <2>3. IsFiniteSet(C)
    BY <1>1, TrackedFinite
  <2> HIDE DEF A
  <2> QED
    BY <2>2, <2>3, FS_CardinalityType
<1>6. one \in A <=> NeedsCompletionPermit(Head(q))
  BY <1>1
<1>7. TrackedUpTo(q, Len(q)) = Cardinality(A) /\ TrackedUpTo(t, Len(t)) = Cardinality(C)
  BY <1>1 DEF TrackedUpTo
<1> HIDE DEF A, C, f, one, t, n
<1>8. ExistsBijection(C, A \ {one})
  <2>1. f \in Bijection(C, A \ {one})
    BY <1>2, <1>3, <1>4, Fun_IsBij
  <2> QED
    BY <2>1, Fun_ExistsBij
<1>9. Cardinality(A \ {one}) = Cardinality(C)
  BY <1>5, <1>8, FS_Bijection
<1>10. Cardinality(A \ {one}) = IF one \in A THEN Cardinality(A) - 1 ELSE Cardinality(A)
  BY <1>5, FS_RemoveElement
<1>11. Len(t) = Len(q) - 1
  BY <1>1
<1>12. Cardinality(A) = Cardinality(C) + (IF NeedsCompletionPermit(Head(q)) THEN 1 ELSE 0)
  BY <1>5, <1>6, <1>9, <1>10
<1> QED
  BY <1>7, <1>11, <1>12 DEF t
------------------------------------------------------------------------------
(***************************************************************************)
(* What a step can do to the two persistence channels: nothing, publish    *)
(* one admitted save, take one envelope, finish one save or receive one    *)
(* completion.                                                             *)
(***************************************************************************)
Quiet ==
    /\ UNCHANGED <<queue, slots, batch, completions, persisted, completed>>
    /\ opc' = "done" => opc = "done" \/ (completions = <<>> /\ slots = QueueCapacity)

Publishes(s) ==
    /\ CapacityAvailable(s) /\ Publish(s) /\ opc' # "done"
    /\ UNCHANGED <<batch, completions, persisted, completed>>

Takes ==
    /\ queue # <<>> /\ TakeEnvelope
    /\ UNCHANGED <<opc, slots, completions, persisted, completed>>

Finishes ==
    /\ batch # <<>> /\ batch' = Tail(batch) /\ persisted' = Append(persisted, Head(batch))
    /\ completions' = IF NeedsCompletionPermit(Head(batch)) THEN Append(completions, Head(batch))
                      ELSE completions
    /\ UNCHANGED <<opc, queue, slots, completed>>

Receives ==
    /\ completions # <<>> /\ completions' = Tail(completions)
    /\ completed' = Append(completed, Head(completions))
    /\ slots' = slots + 1 /\ opc' # "done"
    /\ UNCHANGED <<queue, batch, persisted>>

LEMMA ChannelStep ==
    ASSUME TypeOK, [Next]_vars
    PROVE  Quiet \/ (\E s \in Items : Publishes(s)) \/ Takes \/ Finishes \/ Receives
<1> USE DEF queueVars, workerVars, ownerVars
<1>1. CASE UNCHANGED vars
  BY <1>1 DEF vars, Quiet
<1>2. ASSUME NEW c \in Commands \cup Intents, CallerStep(c) \/ RequestIntent(c) PROVE Quiet
  BY <1>2 DEF CallerStep, Reserve, Refuse, Send, Wake, RequestIntent, Quiet
<1>3. ASSUME NEW c \in Delayed, DeadlinePasses(c) PROVE Quiet
  BY <1>3 DEF DeadlinePasses, Quiet
<1>4. CASE CheckShutdown \/ PlanImmediate \/ PlanPark \/ Park \/ Unpark \/ ParkTimeout
  BY <1>4 DEF CheckShutdown, PlanImmediate, PlanPark, Park, Unpark, ParkTimeout, Resume, Quiet
<1>5. CASE BeginAdmission \/ NoAdmittedDelete \/ SkipClass \/ ParkHead \/ EndAdmission \/ EndDue
  BY <1>5 DEF BeginAdmission, NoAdmittedDelete, SkipClass, ParkHead, EndAdmission, EndDue, Quiet
<1>6. ASSUME NEW c \in Delayed, RunDueAction(c) PROVE Quiet
  BY <1>6 DEF RunDueAction, Quiet
<1>7. ASSUME NEW k \in 1..2, CollectIntents(k) \/ EndIntents(k) PROVE Quiet
  BY <1>7 DEF CollectIntents, EndIntents, IntentStage, AdmitStage, Quiet
<1>8. CASE CloseIngress \/ QuiescingCheck \/ QuiescingPlan \/ CompletionsClosed
  BY <1>8 DEF CloseIngress, QuiescingCheck, QuiescingPlan, CompletionsClosed, Quiet
<1>9. CASE DrainCompletion \/ ReceiveLastCompletion
  BY <1>9 DEF DrainCompletion, ReceiveLastCompletion, Receives
<1>10. CASE WorkerReceive \/ WorkerGather
  BY <1>10 DEF WorkerReceive, WorkerGather, Takes
<1>11. CASE WorkerBeginBatch \/ WorkerNotify \/ WorkerEndBatch \/ WorkerExit
  BY <1>11 DEF WorkerBeginBatch, WorkerNotify, WorkerEndBatch, WorkerExit, Quiet
<1>12. CASE WorkerPersist
  BY <1>12 DEF WorkerPersist, Finishes
<1>13. CASE SendShutdown \/ ShutdownStep
  BY <1>13 DEF SendShutdown, ShutdownStep, WakeForShutdown, DropMainHandle, JoinTasks, FinalFlush,
               Quiet
<1>14. CASE AdmitDelete
  <2>1. Head(deletes) \in Items
    BY <1>14 DEF AdmitDelete, TypeOK, WorkType, Items
  <2>2. opc' # "done" /\ CapacityAvailable(Head(deletes))
    BY <1>14 DEF AdmitDelete, AfterApply
  <2>3. CASE Publish(Head(deletes))
    BY <1>14, <2>1, <2>2, <2>3 DEF AdmitDelete, Publishes
  <2>4. CASE PublishNothing
    BY <1>14, <2>2, <2>4 DEF AdmitDelete, PublishNothing, Quiet
  <2> QED
    BY <1>14, <2>3, <2>4 DEF AdmitDelete
<1>15. CASE AdmitCommand
  <2> DEFINE c == Candidate(nextClass)
  <2>1. c \in Items
    BY <1>15 DEF AdmitCommand, TypeOK, CallerType, AdmitType, Candidate, Items
  <2>2. /\ opc' # "done" /\ (c \in Durable => CapacityAvailable(c))
        /\ UNCHANGED <<batch, completions, persisted, completed>>
    BY <1>15 DEF AdmitCommand, AfterApply
  <2>3. (c \in Durable /\ Publish(c)) \/ PublishNothing
    BY <1>15, Zenon DEF AdmitCommand, ApplyEffect
  <2> HIDE DEF c
  <2>4. CASE c \in Durable /\ Publish(c)
    BY <2>1, <2>2, <2>4 DEF Publishes
  <2>5. CASE PublishNothing
    BY <2>2, <2>5 DEF PublishNothing, Quiet
  <2> QED
    BY <2>3, <2>4, <2>5
<1>16. ASSUME NEW k \in 1..2, AdmitIntent(k)
       PROVE  Quiet \/ \E s \in Items : Publishes(s)
  <2> DEFINE i == Head(backlog[k])
  <2>1. i \in Intents /\ i \in Items
    BY <1>16 DEF AdmitIntent, TypeOK, IntentType, Items
  <2>2. /\ QueueHasRoom /\ opc' = opc /\ opc # "done"
        /\ UNCHANGED <<batch, completions, persisted, completed>>
        /\ Publish(i) \/ PublishNothing
    BY <1>16 DEF AdmitIntent, AdmitStage
  <2> HIDE DEF i
  <2>3. i \notin Tracked
    BY <2>1, ItemsAssumption, KindsAssumption
  <2>4. CapacityAvailable(i)
    BY <2>2, <2>3 DEF CapacityAvailable, NeedsCompletionPermit
  <2>5. CASE Publish(i)
    BY <2>1, <2>2, <2>4, <2>5 DEF Publishes
  <2>6. CASE PublishNothing
    BY <2>2, <2>6 DEF PublishNothing, Quiet
  <2> QED
    BY <2>2, <2>5, <2>6
<1> QED
  BY <1>1, <1>2, <1>3, <1>4, <1>5, <1>6, <1>7, <1>8, <1>9, <1>10, <1>11, <1>12, <1>13, <1>14,
     <1>15, <1>16 DEF Next, CallerStep, OwnerStep, WorkerStep, Terminated

\* The accounts of the two channels.  The owner that is done has nothing
\* outstanding, so no completion can come any more.
PermitsBalance ==
    /\ Len(queue) <= QueueCapacity
    /\ slots >= 0
    /\ slots + OutstandingPermits + Len(completions) = QueueCapacity
    /\ opc = "done" => completions = <<>> /\ slots = QueueCapacity

AnswersInOrder ==
    /\ Len(completed \o completions) = TrackedUpTo(persisted, Len(persisted))
    /\ \A i \in 1..Len(persisted) :
         NeedsCompletionPermit(persisted[i]) =>
             (completed \o completions)[TrackedUpTo(persisted, i)] = persisted[i]

\* The account after a step, from the four numbers it adds up.
LEMMA BalanceIs ==
    ASSUME NEW q \in Int, NEW b \in Int, NEW c \in Int,
           q = TrackedUpTo(queue', Len(queue')), b = TrackedUpTo(batch', Len(batch')),
           c = Len(completions'),
           slots' \in Int, slots' >= 0, slots' + q + b + c = QueueCapacity,
           Len(queue') <= QueueCapacity,
           opc' = "done" => completions' = <<>> /\ slots' = QueueCapacity
    PROVE  PermitsBalance'
<1>1. slots' + (q + b) + c = QueueCapacity
  OBVIOUS
<1> QED
  BY <1>1 DEF PermitsBalance, OutstandingPermits

LEMMA PermitsStep ==
    ASSUME TypeOK, PermitsBalance, [Next]_vars
    PROVE  PermitsBalance'
<1> DEFINE qn == TrackedUpTo(queue, Len(queue))
           bn == TrackedUpTo(batch, Len(batch))
           cn == Len(completions)
<1>1. /\ queue \in Seq(Items) /\ batch \in Seq(Items) /\ completions \in Seq(Items)
      /\ slots \in Int /\ QueueCapacity \in Nat
  BY BoundsAssumption DEF TypeOK, QueueType, WorkerType, CompletionType
<1>2. qn \in Nat /\ bn \in Nat /\ cn \in Nat /\ Len(queue) \in Nat
  BY <1>1, TrackedLen
<1>3. /\ Len(queue) <= QueueCapacity /\ slots >= 0 /\ slots + qn + bn + cn = QueueCapacity
      /\ opc = "done" => completions = <<>> /\ slots = QueueCapacity
  BY <1>1, <1>2 DEF PermitsBalance, OutstandingPermits
<1> HIDE DEF qn, bn, cn
<1>4. CASE Quiet
  BY <1>4 DEF Quiet, PermitsBalance, OutstandingPermits
<1>5. ASSUME NEW s \in Items, Publishes(s) PROVE PermitsBalance'
  <2>1. queue' = Append(queue, s) /\ slots' = IF NeedsCompletionPermit(s) THEN slots - 1 ELSE slots
    BY <1>5 DEF Publishes, Publish
  <2>2. batch' = batch /\ completions' = completions /\ opc' # "done"
    BY <1>5 DEF Publishes
  <2>3. Len(queue) < QueueCapacity /\ (NeedsCompletionPermit(s) => slots > 0)
    BY <1>5 DEF Publishes, CapacityAvailable, QueueHasRoom, CompletionHasRoom
  <2> DEFINE d == IF NeedsCompletionPermit(s) THEN 1 ELSE 0
  <2>4. Len(queue') = Len(queue) + 1 /\ TrackedUpTo(queue', Len(queue')) = qn + d
    BY <1>1, <2>1, TrackedAppend DEF qn
  <2>5. TrackedUpTo(batch', Len(batch')) = bn /\ Len(completions') = cn
    BY <2>2 DEF bn, cn
  <2>6. d \in Int /\ slots' = slots - d /\ slots' >= 0
    BY <1>1, <1>3, <2>1, <2>3
  <2> HIDE DEF d
  <2>7. slots' + (qn + d) + bn + cn = QueueCapacity /\ Len(queue') <= QueueCapacity
    BY <1>1, <1>2, <1>3, <2>3, <2>4, <2>6
  <2> QED
    BY <1>1, <1>2, <2>2, <2>4, <2>5, <2>6, <2>7, BalanceIs
<1>6. CASE Takes
  <2>1. queue # <<>> /\ queue' = Tail(queue) /\ batch' = Append(batch, Head(queue))
        /\ UNCHANGED <<opc, slots, completions>>
    BY <1>6 DEF Takes, TakeEnvelope
  <2>2. Head(queue) \in Items
    BY <1>1, <2>1
  <2> DEFINE d == IF NeedsCompletionPermit(Head(queue)) THEN 1 ELSE 0
             q2 == TrackedUpTo(queue', Len(queue'))
  <2>3. Len(queue') = Len(queue) - 1 /\ qn = q2 + d
    BY <1>1, <2>1, TrackedTail DEF qn
  <2>4. TrackedUpTo(batch', Len(batch')) = bn + d
    BY <1>1, <2>1, <2>2, TrackedAppend DEF bn
  <2>5. q2 \in Nat /\ d \in Nat
    <3>1. queue' \in Seq(Items)
      BY <1>1, <2>1
    <3> QED
      BY <3>1, TrackedLen
  <2>6. Len(completions') = cn
    BY <2>1 DEF cn
  <2> HIDE DEF d, q2
  <2>7. slots + q2 + (bn + d) + cn = QueueCapacity /\ Len(queue') <= QueueCapacity
    BY <1>1, <1>2, <1>3, <2>3, <2>5
  <2>8. q2 = TrackedUpTo(queue', Len(queue'))
    BY DEF q2
  <2> QED
    BY SMTT(30), <1>1, <1>2, <1>3, <2>1, <2>4, <2>5, <2>6, <2>7, <2>8, BalanceIs
<1>7. CASE Finishes
  <2>1. batch # <<>> /\ batch' = Tail(batch) /\ UNCHANGED <<opc, queue, slots>>
    BY <1>7 DEF Finishes
  <2>2. completions' = IF NeedsCompletionPermit(Head(batch)) THEN Append(completions, Head(batch))
                       ELSE completions
    BY <1>7 DEF Finishes
  <2> DEFINE d == IF NeedsCompletionPermit(Head(batch)) THEN 1 ELSE 0
             b2 == TrackedUpTo(batch', Len(batch'))
  <2>3. bn = b2 + d
    BY <1>1, <2>1, TrackedTail DEF bn
  <2>4. Len(completions') = cn + d
    <3>1. Head(batch) \in Items
      BY <1>1, <2>1
    <3> QED
      BY <1>1, <2>2, <3>1 DEF cn
  <2>5. b2 \in Nat /\ d \in Nat
    <3>1. batch' \in Seq(Items)
      BY <1>1, <2>1
    <3> QED
      BY <3>1, TrackedLen
  <2>6. TrackedUpTo(queue', Len(queue')) = qn /\ b2 = TrackedUpTo(batch', Len(batch'))
    BY <2>1 DEF qn
  <2>7. d = 0 => completions' = completions
    BY <2>2
  <2> HIDE DEF d, b2
  <2>8. slots + qn + b2 + (cn + d) = QueueCapacity
    BY <1>1, <1>2, <1>3, <2>3, <2>5
  <2>9. opc = "done" => completions' = <<>>
    BY <1>1, <1>2, <1>3, <2>5, <2>7, <2>8
  <2> QED
    BY <1>1, <1>2, <1>3, <2>1, <2>4, <2>5, <2>6, <2>8, <2>9, BalanceIs
<1>8. CASE Receives
  <2>1. completions # <<>> /\ completions' = Tail(completions) /\ slots' = slots + 1
        /\ opc' # "done" /\ UNCHANGED <<queue, batch>>
    BY <1>8 DEF Receives
  <2>2. Len(completions') = cn - 1
    BY <1>1, <2>1 DEF cn
  <2>3. TrackedUpTo(queue', Len(queue')) = qn /\ TrackedUpTo(batch', Len(batch')) = bn
    BY <2>1 DEF qn, bn
  <2>4. slots' \in Int /\ slots' >= 0 /\ slots' + qn + bn + (cn - 1) = QueueCapacity
    BY <1>1, <1>2, <1>3, <2>1
  <2> QED
    BY <1>1, <1>2, <1>3, <2>1, <2>2, <2>3, <2>4, BalanceIs
<1> QED
  BY <1>4, <1>5, <1>6, <1>7, <1>8, ChannelStep

LEMMA AnswersStep ==
    ASSUME TypeOK, AnswersInOrder, [Next]_vars
    PROVE  AnswersInOrder'
<1> DEFINE answers == completed \o completions
<1>1. /\ persisted \in Seq(Items) /\ batch \in Seq(Items)
      /\ completions \in Seq(Items) /\ completed \in Seq(Items)
  BY DEF TypeOK, WorkerType, CompletionType
<1>2. CASE UNCHANGED <<persisted, completions, completed>>
  BY <1>2 DEF AnswersInOrder
<1>3. CASE Receives
  <2>1. completed' \o completions' = answers /\ persisted' = persisted
    BY <1>1, <1>3, MoveHead DEF Receives
  <2> HIDE DEF answers
  <2> QED
    BY <2>1 DEF AnswersInOrder, answers
<1>4. CASE Finishes
  <2> DEFINE e == Head(batch)
             n == Len(persisted)
  <2>1. e \in Items /\ persisted' = Append(persisted, e) /\ completed' = completed
        /\ completions' = IF NeedsCompletionPermit(e) THEN Append(completions, e) ELSE completions
    BY <1>1, <1>4 DEF Finishes
  <2>2. answers \in Seq(Items)
    BY <1>1
  <2>3. n \in Nat /\ TrackedUpTo(persisted, n) \in Nat
    BY <1>1, TrackedLen
  <2>4. /\ Len(answers) = TrackedUpTo(persisted, n)
        /\ \A i \in 1..n : NeedsCompletionPermit(persisted[i]) =>
               answers[TrackedUpTo(persisted, i)] = persisted[i]
    BY DEF AnswersInOrder
  <2> HIDE DEF e, answers
  <2>5. completed' \o completions' =
            IF NeedsCompletionPermit(e) THEN Append(answers, e) ELSE answers
    <3>1. completed \o Append(completions, e) = Append(completed \o completions, e)
      BY SMTT(30), <1>1, <2>1, AppendToConcat
    <3> QED
      BY <2>1, <3>1 DEF answers
  <2> DEFINE new == completed' \o completions'
  <2>6. /\ Len(persisted') = n + 1 /\ persisted'[n + 1] = e
        /\ \A i \in 1..n : persisted'[i] = persisted[i]
    BY <1>1, <2>1
  <2>7. /\ \A i \in 0..n : TrackedUpTo(persisted', i) = TrackedUpTo(persisted, i)
        /\ TrackedUpTo(persisted', n + 1) =
               TrackedUpTo(persisted, n) + (IF NeedsCompletionPermit(e) THEN 1 ELSE 0)
    BY <1>1, <2>1, TrackedAppend
  <2> HIDE DEF n, new
  <2>8. /\ Len(new) = TrackedUpTo(persisted', n + 1)
        /\ \A j \in 1..Len(answers) : new[j] = answers[j]
        /\ NeedsCompletionPermit(e) => new[TrackedUpTo(persisted', n + 1)] = e
    BY SMTT(30), <2>1, <2>2, <2>3, <2>4, <2>5, <2>7 DEF new
  <2>9. ASSUME NEW i \in 1..(n + 1), NeedsCompletionPermit(persisted'[i])
        PROVE  new[TrackedUpTo(persisted', i)] = persisted'[i]
    <3>1. CASE i = n + 1
      BY <2>6, <2>8, <2>9, <3>1
    <3>2. CASE i # n + 1
      <4>1. i \in 1..n /\ i \in 0..n
        BY <2>3, <2>9, <3>2
      <4>2. NeedsCompletionPermit(persisted[i]) /\ persisted'[i] = persisted[i]
        BY <2>6, <2>9, <4>1
      <4>3. TrackedUpTo(persisted, i) \in 1..TrackedUpTo(persisted, n)
        BY <2>3, <4>1, <4>2, TrackedPositive
      <4>4. answers[TrackedUpTo(persisted, i)] = persisted[i]
        BY <2>4, <4>1, <4>2
      <4>5. new[TrackedUpTo(persisted, i)] = answers[TrackedUpTo(persisted, i)]
        BY <2>4, <2>8, <4>3
      <4> QED
        BY <2>7, <4>1, <4>2, <4>4, <4>5
    <3> QED
      BY <3>1, <3>2
  <2> QED
    BY <2>6, <2>8, <2>9 DEF AnswersInOrder, new
<1> QED
  BY <1>2, <1>3, <1>4, ChannelStep DEF Quiet, Publishes, Takes

\* Completions come back once each and in the order of the saves, and none is
\* left when the final flush starts.
THEOREM CompletionsAreFifo == Spec => []CompletionFifo
<1> DEFINE I == PermitsBalance /\ AnswersInOrder /\ DrainInv
<1>1. Init => I
  <2> SUFFICES ASSUME Init PROVE I
    OBVIOUS
  <2>1. DrainInv
    BY DEF Init, DrainInv, OwnerDrained, WorkerIdle, WorkerGone, BothJoined, OwnerHandleDropped
  <2>2. Len(<<>>) = 0 /\ <<>> \o <<>> = <<>>
    OBVIOUS
  <2>3. PermitsBalance
    BY <2>2, TrackedNone, BoundsAssumption DEF Init, PermitsBalance, OutstandingPermits
  <2>4. AnswersInOrder
    BY <2>2, TrackedNone DEF Init, AnswersInOrder
  <2> QED
    BY <2>1, <2>3, <2>4
<1>2. TypeOK /\ I /\ [Next]_vars => I'
  BY PermitsStep, AnswersStep, DrainStep
<1>3. I => CompletionFifo
  BY DEF CompletionFifo, PermitsBalance, AnswersInOrder, DrainInv, BothJoined
<1> QED
  BY <1>1, <1>2, <1>3, TypeCorrect, PTL DEF Spec
------------------------------------------------------------------------------
(***************************************************************************)
(* The ingress channels: a slot is held by a sender from reserve to send   *)
(* and by the message from send to its receipt.                            *)
(***************************************************************************)
Holders(k) == {c \in Commands : ClassOf(c) = k /\ caller[c] = "reserved"}

IngressBounded == \A k \in Class : Slots(k) <= IngressCapacity[k]

LEMMA HoldersFinite ==
    ASSUME NEW k \in Class
    PROVE  IsFiniteSet(Holders(k)) /\ Cardinality(Holders(k)) \in Nat
<1>1. Holders(k) \in SUBSET Items /\ IsFiniteSet(Items)
  BY ItemsAssumption DEF Holders, Items
<1> DEFINE H == Holders(k)
<1> HIDE DEF H
<1>2. IsFiniteSet(H)
  BY <1>1, FS_Subset DEF H
<1>3. Cardinality(H) \in Nat
  BY <1>2, FS_CardinalityType
<1> QED
  BY <1>2, <1>3 DEF H

\* A step that leaves the holders of the slots alone.
KeepsHolders == \A c \in Commands : caller'[c] = "reserved" <=> caller[c] = "reserved"

LEMMA HoldersKept ==
    ASSUME KeepsHolders, NEW k \in Class
    PROVE  Holders(k)' = Holders(k)
BY DEF KeepsHolders, Holders, ClassOf

LEMMA IngressQuiet ==
    ASSUME IngressBounded, KeepsHolders, ingress' = ingress
    PROVE  IngressBounded'
<1>1. SUFFICES ASSUME NEW k \in Class PROVE Slots(k)' = Slots(k)
  BY <1>1 DEF IngressBounded
<1>2. Holders(k)' = Holders(k)
  BY HoldersKept
<1> QED
  BY <1>2 DEF Slots, Holders

\* The owner receives the message at the front of a channel.
LEMMA IngressTaken ==
    ASSUME TypeOK, IngressBounded, caller' = caller, NEW m \in Class,
           ingress[m] # <<>>, ingress' = [ingress EXCEPT ![m] = Tail(@)]
    PROVE  IngressBounded'
<1>1. SUFFICES ASSUME NEW k \in Class PROVE Slots(k)' <= IngressCapacity[k]
  BY <1>1 DEF IngressBounded
<1>2. Holders(k)' = Holders(k)
  BY HoldersKept DEF KeepsHolders
<1>3. Cardinality(Holders(k)) \in Nat
  BY HoldersFinite
<1>4. ingress \in [Class -> Seq(Commands)]
  BY DEF TypeOK, CallerType
<1>5. Len(ingress'[k]) \in Nat /\ Len(ingress[k]) \in Nat /\ Len(ingress'[k]) <= Len(ingress[k])
  <2>1. CASE k = m
    BY <1>4, <2>1
  <2>2. CASE k # m
    BY <1>4, <2>2
  <2> QED
    BY <2>1, <2>2
<1>6. Len(ingress[k]) + Cardinality(Holders(k)) <= IngressCapacity[k]
  BY DEF IngressBounded, Slots, Holders
<1>7. Slots(k)' = Len(ingress'[k]) + Cardinality(Holders(k))
  BY <1>2 DEF Slots, Holders
<1>8. IngressCapacity[k] \in Nat
  BY BoundsAssumption
<1> QED
  BY <1>3, <1>5, <1>6, <1>7, <1>8

LEMMA IngressReserved ==
    ASSUME TypeOK, IngressBounded, NEW c \in Commands, Reserve(c)
    PROVE  IngressBounded'
<1> DEFINE m == ClassOf(c)
<1>1. /\ caller[c] = "idle" /\ caller' = [caller EXCEPT ![c] = "reserved"] /\ ingress' = ingress
      /\ Slots(m) < IngressCapacity[m]
  BY DEF Reserve
<1>2. m \in Class
  BY DEF ClassOf, Class
<1>3. caller \in [Commands \cup Intents -> CallerStates]
  BY DEF TypeOK, CallerType
<1>4. SUFFICES ASSUME NEW k \in Class PROVE Slots(k)' <= IngressCapacity[k]
  BY <1>4 DEF IngressBounded
<1>5. /\ Slots(k)' = Len(ingress[k]) + Cardinality(Holders(k)')
      /\ Slots(k) = Len(ingress[k]) + Cardinality(Holders(k))
  BY <1>1 DEF Slots, Holders
<1>6. CASE k # m
  <2>1. Holders(k)' = Holders(k)
    BY <1>1, <1>3, <1>6 DEF Holders, ClassOf
  <2> QED
    BY <1>5, <2>1 DEF IngressBounded
<1>7. CASE k = m
  <2>1. Holders(k)' = Holders(k) \cup {c} /\ c \notin Holders(k)
    BY <1>1, <1>3, <1>7 DEF Holders, ClassOf
  <2>2. IsFiniteSet(Holders(k)) /\ Cardinality(Holders(k)) \in Nat
    BY HoldersFinite
  <2>3. Cardinality(Holders(k)') = Cardinality(Holders(k)) + 1
    BY <2>1, <2>2, FS_AddElement
  <2>4. Len(ingress[k]) \in Nat /\ IngressCapacity[k] \in Nat
    BY BoundsAssumption DEF TypeOK, CallerType
  <2>5. Len(ingress[k]) + Cardinality(Holders(k)) < IngressCapacity[k]
    BY <1>1, <1>5, <1>7
  <2> HIDE DEF m
  <2> QED
    BY <1>5, <2>2, <2>3, <2>4, <2>5
<1> QED
  BY <1>6, <1>7

\* Sending turns the sender's slot into the message's.
LEMMA IngressSent ==
    ASSUME TypeOK, IngressBounded, NEW c \in Commands, Send(c)
    PROVE  IngressBounded'
<1> DEFINE m == ClassOf(c)
<1>1. /\ caller[c] = "reserved" /\ caller' = [caller EXCEPT ![c] = "sent"]
      /\ ingress' = [ingress EXCEPT ![m] = Append(@, c)]
  BY DEF Send
<1>2. m \in Class
  BY DEF ClassOf, Class
<1>3. caller \in [Commands \cup Intents -> CallerStates] /\ ingress \in [Class -> Seq(Commands)]
  BY DEF TypeOK, CallerType
<1>4. SUFFICES ASSUME NEW k \in Class PROVE Slots(k)' <= IngressCapacity[k]
  BY <1>4 DEF IngressBounded
<1>5. /\ Slots(k)' = Len(ingress'[k]) + Cardinality(Holders(k)')
      /\ Slots(k) = Len(ingress[k]) + Cardinality(Holders(k))
  BY DEF Slots, Holders
<1>6. CASE k # m
  <2>1. Holders(k)' = Holders(k)
    BY <1>1, <1>3, <1>6 DEF Holders, ClassOf
  <2>2. ingress'[k] = ingress[k]
    <3> HIDE DEF m
    <3> QED BY <1>1, <1>2, <1>3, <1>6
  <2> QED
    BY <1>5, <2>1, <2>2 DEF IngressBounded
<1>7. CASE k = m
  <2>1. Holders(k)' = Holders(k) \ {c} /\ c \in Holders(k)
    BY <1>1, <1>3, <1>7 DEF Holders, ClassOf
  <2>2. IsFiniteSet(Holders(k)) /\ Cardinality(Holders(k)) \in Nat
    BY HoldersFinite
  <2>3. Cardinality(Holders(k)') = Cardinality(Holders(k)) - 1
    BY <2>1, <2>2, FS_RemoveElement
  <2>4. Len(ingress[k]) \in Nat /\ IngressCapacity[k] \in Nat /\ Len(ingress'[k]) = Len(ingress[k]) + 1
    <3> HIDE DEF m
    <3> QED BY <1>1, <1>2, <1>3, <1>7, BoundsAssumption
  <2>5. Slots(k) <= IngressCapacity[k]
    BY DEF IngressBounded
  <2> HIDE DEF m
  <2> QED
    BY <1>5, <2>2, <2>3, <2>4, <2>5
<1> QED
  BY <1>6, <1>7

\* take_admitted_command takes the parked head or the front of the channel.
LEMMA IngressCandidate ==
    ASSUME TypeOK, IngressBounded, caller' = caller,
           Candidate(nextClass) # None, TakeCandidate(nextClass)
    PROVE  IngressBounded'
<1>1. nextClass \in Class
  BY DEF TypeOK, AdmitType
<1>2. CASE heads[nextClass] # None
  <2>1. ingress' = ingress
    BY <1>2 DEF TakeCandidate
  <2> QED
    BY <2>1, IngressQuiet DEF KeepsHolders
<1>3. CASE heads[nextClass] = None
  <2>1. ingress[nextClass] # <<>> /\ ingress' = [ingress EXCEPT ![nextClass] = Tail(@)]
    BY <1>3 DEF Candidate, TakeCandidate
  <2> QED
    BY <1>1, <2>1, IngressTaken
<1> QED
  BY <1>2, <1>3

LEMMA IngressStep ==
    ASSUME TypeOK, IngressBounded, [Next]_vars
    PROVE  IngressBounded'
<1>1. caller \in [Commands \cup Intents -> CallerStates] /\ Commands \cap Intents = {}
      /\ None \notin Durable
  BY ItemsAssumption, KindsAssumption DEF TypeOK, CallerType, Items
<1>2. ASSUME NEW c \in Commands, CallerStep(c) PROVE IngressBounded'
  <2>1. CASE Refuse(c) \/ Wake(c)
    <3>1. ingress' = ingress /\ KeepsHolders
      BY <1>1, <2>1 DEF Refuse, Wake, KeepsHolders
    <3> QED
      BY <3>1, IngressQuiet
  <2> QED
    BY <1>2, <2>1, IngressReserved, IngressSent DEF CallerStep
<1>3. ASSUME NEW i \in Intents, RequestIntent(i) \/ Wake(i) PROVE IngressBounded'
  <2>1. ingress' = ingress /\ KeepsHolders
    BY <1>1, <1>3 DEF RequestIntent, Wake, KeepsHolders
  <2> QED
    BY <2>1, IngressQuiet
<1>4. CASE ParkHead \/ AdmitCommand
  <2>1. caller' = caller /\ TakeCandidate(nextClass) /\ Candidate(nextClass) # None
    BY <1>1, <1>4 DEF ParkHead, AdmitCommand
  <2> QED
    BY <2>1, IngressCandidate
<1>5. CASE ~(ParkHead \/ AdmitCommand) /\ OwnerStep
  <2>1. UNCHANGED <<caller, ingress>>
    BY <1>5 DEF OwnerStep, CheckShutdown, PlanImmediate, PlanPark, Park, Unpark,
         DrainCompletion, BeginAdmission, AdmitDelete, NoAdmittedDelete, SkipClass, EndAdmission,
         RunDueAction, EndDue, CollectIntents, AdmitIntent, EndIntents, CloseIngress,
         QuiescingCheck, QuiescingPlan, ReceiveLastCompletion, CompletionsClosed, callerVars
  <2> QED
    BY <2>1, IngressQuiet DEF KeepsHolders
<1>6. CASE WorkerStep \/ SendShutdown \/ ShutdownStep \/ ParkTimeout \/ UNCHANGED vars
  <2>1. UNCHANGED <<caller, ingress>>
    BY <1>6 DEF WorkerStep, WorkerReceive, WorkerGather, WorkerBeginBatch, WorkerPersist,
         WorkerNotify, WorkerEndBatch, WorkerExit, SendShutdown, ShutdownStep, WakeForShutdown,
         DropMainHandle, JoinTasks, FinalFlush, ParkTimeout, vars, callerVars
  <2> QED
    BY <2>1, IngressQuiet DEF KeepsHolders
<1>7. ASSUME NEW c \in Delayed, DeadlinePasses(c) PROVE IngressBounded'
  BY <1>7, IngressQuiet DEF DeadlinePasses, callerVars, KeepsHolders
<1> QED
  BY <1>2, <1>3, <1>4, <1>5, <1>6, <1>7 DEF Next, Terminated

\* Every bounded channel stays within its capacity, and every permit of the
\* completion channel is free, with an envelope or with a completion: the
\* worker's answer never has to wait for the owner.
THEOREM ChannelsAreBounded == Spec => []WithinCapacity
<1> DEFINE I == PermitsBalance /\ IngressBounded
<1>1. Init => I
  <2> SUFFICES ASSUME Init PROVE I
    OBVIOUS
  <2>1. Len(<<>>) = 0
    OBVIOUS
  <2>2. PermitsBalance
    BY <2>1, TrackedNone, BoundsAssumption DEF Init, PermitsBalance, OutstandingPermits
  <2>3. ASSUME NEW k \in Class PROVE Slots(k) <= IngressCapacity[k]
    <3>1. Holders(k) = {}
      BY DEF Init, Holders
    <3>2. Slots(k) = Len(ingress[k]) + Cardinality(Holders(k))
      BY DEF Slots, Holders
    <3>3. Len(ingress[k]) = 0 /\ Cardinality(Holders(k)) = 0
      BY <2>1, <3>1, FS_EmptySet DEF Init
    <3>4. IngressCapacity[k] \in Nat
      BY BoundsAssumption
    <3> QED
      BY <3>2, <3>3, <3>4
  <2> QED
    BY <2>2, <2>3 DEF IngressBounded
<1>2. TypeOK /\ I /\ [Next]_vars => I'
  BY PermitsStep, IngressStep
<1>3. I => WithinCapacity
  BY DEF WithinCapacity, PermitsBalance, IngressBounded
<1> QED
  BY <1>1, <1>2, <1>3, TypeCorrect, PTL DEF Spec
==============================================================================
