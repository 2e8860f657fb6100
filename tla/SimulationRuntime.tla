-------------------------- MODULE SimulationRuntime --------------------------
(***************************************************************************)
(* The simulation owner thread of openmines-server with everything that    *)
(* talks to it: the callers of the three bounded ingress channels, the     *)
(* persistence worker on the other side of the save queue, the unpark      *)
(* token that wakes the owner, and the shutdown sequence of main.          *)
(*                                                                         *)
(*   caller --reserve/send/wake--> ingress[class] --+                      *)
(*                                                  v                      *)
(*   due actions --follow-ups--> deletes --> owner (heads, budgets)        *)
(*   intents (deaths, box pickups) --------------^  |                      *)
(*                                                  v publish              *)
(*   completions <--- worker (batch) <--- save queue                       *)
(*                                                                         *)
(* Commands are atoms; what a command does to the game is left to the      *)
(* modules of the game logic.  What is kept of a command is its ingress    *)
(* class, whether it reserves a save slot (PlayerCommand::persistence_kind)*)
(* and whether the kind of its save needs a completion permit.             *)
(***************************************************************************)
EXTENDS Integers, Sequences, FiniteSets

CONSTANTS
    Lifecycle, Gameplay, Internal,  \* commands, by CommandIngressClass
    FollowUps,                      \* RemovePack commands born inside the owner
    Deaths, Pickups,                \* player deaths and box pickups (SaveKind::Box)
    Durable,                        \* commands whose persistence_kind() is Some
    Tracked,                        \* saves whose kind needs a completion permit
    Delayed,                        \* commands that publish a DueAction
    FollowUp,                       \* [Delayed -> FollowUps]
    None,                           \* Option::None of a pending head
    IngressCapacity,                \* [Class -> Nat]: the bounded channels
    Budget,                         \* [Class -> Nat]: *_ingress_batch_budget
    QueueCapacity,                  \* QUEUE_CAPACITY of both persistence channels
    BatchLimit,                     \* BATCH_LIMIT of the worker
    DueCapacity                     \* due_action_capacity

Class == 0..2
Commands == Lifecycle \cup Gameplay \cup Internal
Intents == Deaths \cup Pickups
Items == Commands \cup FollowUps \cup Intents

\* CommandIngressClass::index of a command that arrives from outside.
ClassOf(c) == IF c \in Lifecycle THEN 0 ELSE IF c \in Gameplay THEN 1 ELSE 2

ASSUME ItemsAssumption ==
    /\ Lifecycle \cap Gameplay = {} /\ Lifecycle \cap Internal = {}
    /\ Gameplay \cap Internal = {}
    /\ Commands \cap FollowUps = {} /\ Commands \cap Intents = {}
    /\ FollowUps \cap Intents = {} /\ Deaths \cap Pickups = {}
    /\ None \notin Items
    /\ IsFiniteSet(Items)

ASSUME KindsAssumption ==
    /\ Durable \subseteq Commands
    /\ Delayed \subseteq Gameplay \ Durable
    /\ FollowUp \in [Delayed -> FollowUps]
    /\ FollowUps \subseteq Tracked
    /\ Tracked \subseteq Durable \cup FollowUps

ASSUME BoundsAssumption ==
    /\ IngressCapacity \in [Class -> Nat \ {0}]
    /\ Budget \in [Class -> Nat \ {0}]
    /\ QueueCapacity \in Nat \ {0}
    /\ BatchLimit \in Nat \ {0}
    /\ DueCapacity \in Nat \ {0}

VARIABLES
    caller,        \* what the task issuing each command or intent has done so far
    ingress,       \* [Class -> Seq(Commands)]: messages buffered in the channels
    closed,        \* CommandReceivers::close has run
    heads,         \* PendingCommandHeads: one parked durable head per class
    nextClass,     \* PendingCommandHeads.next_class
    remaining,     \* class_remaining of the current command phase
    tries,         \* classes still to be tried by take_admitted_command
    deletes,       \* TickPendingWork.building_deletes
    due,           \* due actions whose deadline is in the future
    ripe,          \* due actions whose deadline has passed
    intentQueue,   \* GameState's death queue (1) and box pickup queue (2)
    backlog,       \* TickPendingWork.deaths (1) and .box_pickups (2)
    opc,           \* where the owner thread is
    mode,          \* "running" or "quiescing"
    timed,         \* the owner parks with a timeout
    token,         \* the unpark token of the owner thread
    queue,         \* envelopes in the save queue
    batch,         \* envelopes the worker took and has not finished
    wpc,           \* where the worker is
    completions,   \* completions sent and not yet received by the owner
    slots,         \* free slots of the completion channel (its semaphore)
    shutdown,      \* the shutdown broadcast was sent
    mpc,           \* where main's shutdown sequence is
    sent,          \* history: [Class -> Seq(Commands)] in channel order
    applied,       \* history: [Class -> Seq(Commands)] in order of application
    published,     \* history: saves in the order they entered the save queue
    persisted,     \* history: saves in the order the store finished them
    completed      \* history: completions in the order the owner applied them

callerVars == <<caller, ingress, sent>>
admitVars == <<heads, nextClass, remaining, tries, applied>>
dueVars == <<due, ripe>>
intentVars == <<intentQueue, backlog>>
queueVars == <<queue, published, slots>>
workerVars == <<batch, wpc, persisted>>
ownerVars == <<opc, mode, timed, closed>>
mainVars == <<shutdown, mpc>>
vars == <<callerVars, admitVars, deletes, dueVars, intentVars, ownerVars, token,
          queueVars, workerVars, completions, completed, mainVars>>
------------------------------------------------------------------------------
(***************************************************************************)
(* Persistence admission: PersistenceHandle over two tokio channels.       *)
(***************************************************************************)
NeedsCompletionPermit(s) == s \in Tracked

\* Mutant: a full completion channel still grants a permit.
CompletionHasRoomOffByOne == slots >= 0

QueueHasRoom == Len(queue) < QueueCapacity
CompletionHasRoom == slots > 0

\* check_capacity, and what decides try_reserve between Ok and Full.
CapacityAvailable(s) ==
    /\ NeedsCompletionPermit(s) => CompletionHasRoom
    /\ QueueHasRoom

\* try_reserve and PersistencePermit::publish: the completion permit leaves
\* with the envelope.
Publish(s) ==
    /\ queue' = Append(queue, s)
    /\ published' = Append(published, s)
    /\ slots' = IF NeedsCompletionPermit(s) THEN slots - 1 ELSE slots

\* A permit dropped without a save gives its slots back.
PublishNothing == UNCHANGED <<queue, published, slots>>
------------------------------------------------------------------------------
(***************************************************************************)
(* Readiness, as the owner computes it before it parks.                    *)
(***************************************************************************)
NoHeads == \A k \in Class : heads[k] = None
HasEmptySlot == \E k \in Class : heads[k] = None
IngressEmpty == \A k \in Class : ingress[k] = <<>>

\* PendingCommandHeads::persistence_ready.
HeadReady ==
    \E k \in Class :
        /\ heads[k] # None
        /\ heads[k] \in Durable => CapacityAvailable(heads[k])

CommandReady == HeadReady \/ (~IngressEmpty /\ HasEmptySlot)

BacklogPending == \E k \in 1..2 : backlog[k] # <<>> \/ intentQueue[k] # <<>>
BacklogReady == BacklogPending /\ QueueHasRoom

\* plan_wait returns Immediate for one of these; deadlines are the timeout.
WaitInputsReady == CommandReady \/ completions # <<>> \/ BacklogReady \/ ripe # {}

\* Mutant: the follow-up deletes are forgotten.
DrainedWithoutDeletes ==
    IngressEmpty /\ NoHeads /\ due = {} /\ ripe = {} /\ ~BacklogPending
\* Mutant: commands still buffered in the channels are forgotten.
DrainedWithoutIngress ==
    NoHeads /\ deletes = <<>> /\ due = {} /\ ripe = {} /\ ~BacklogPending

QuiescingIsDrained ==
    /\ IngressEmpty
    /\ NoHeads
    /\ deletes = <<>>
    /\ due = {} /\ ripe = {}
    /\ ~BacklogPending

\* Mutant: a follow-up delete does not count as ready work.
ReadyWithoutDeletes ==
    \/ completions # <<>>
    \/ ripe # {}
    \/ ~IngressEmpty /\ HasEmptySlot
    \/ HeadReady
    \/ BacklogReady

QuiescingWorkIsReady ==
    \/ completions # <<>>
    \/ ripe # {}
    \/ ~IngressEmpty /\ HasEmptySlot
    \/ HeadReady
    \/ IF deletes # <<>> THEN CapacityAvailable(Head(deletes)) ELSE BacklogReady
------------------------------------------------------------------------------
(***************************************************************************)
(* Callers: CommandIngress.  reserve, send and wake are three steps of a   *)
(* tokio task, so the owner and the worker run between them.               *)
(***************************************************************************)
\* A sender's permit keeps its slot until the message is received.
Slots(k) ==
    Len(ingress[k]) + Cardinality({c \in Commands : ClassOf(c) = k /\ caller[c] = "reserved"})

Reserve(c) ==
    /\ caller[c] = "idle"
    /\ ~closed
    /\ Slots(ClassOf(c)) < IngressCapacity[ClassOf(c)]
    /\ caller' = [caller EXCEPT ![c] = "reserved"]
    /\ UNCHANGED <<ingress, sent, admitVars, deletes, dueVars, intentVars, ownerVars, token,
                   queueVars, workerVars, completions, completed, mainVars>>

\* Lifecycle and internal senders await a slot, so only a closed channel
\* refuses them; gameplay uses try_reserve and is refused when full too.
Refuse(c) ==
    /\ caller[c] = "idle"
    /\ \/ closed
       \/ c \in Gameplay /\ Slots(1) >= IngressCapacity[1]
    /\ caller' = [caller EXCEPT ![c] = "refused"]
    /\ UNCHANGED <<ingress, sent, admitVars, deletes, dueVars, intentVars, ownerVars, token,
                   queueVars, workerVars, completions, completed, mainVars>>

\* permit.send: succeeds after close as well, the slot was reserved before.
Send(c) ==
    /\ caller[c] = "reserved"
    /\ caller' = [caller EXCEPT ![c] = "sent"]
    /\ ingress' = [ingress EXCEPT ![ClassOf(c)] = Append(@, c)]
    /\ sent' = [sent EXCEPT ![ClassOf(c)] = Append(@, c)]
    /\ UNCHANGED <<admitVars, deletes, dueVars, intentVars, ownerVars, token,
                   queueVars, workerVars, completions, completed, mainVars>>

\* Mutant: the sender returns without waking the owner.
WakeForgotten(c) ==
    /\ caller[c] = "sent"
    /\ caller' = [caller EXCEPT ![c] = "accepted"]
    /\ UNCHANGED <<ingress, sent, admitVars, deletes, dueVars, intentVars, ownerVars, token,
                   queueVars, workerVars, completions, completed, mainVars>>

\* waker.wake() and return true.
Wake(c) ==
    /\ caller[c] = "sent"
    /\ caller' = [caller EXCEPT ![c] = "accepted"]
    /\ token' = TRUE
    /\ UNCHANGED <<ingress, sent, admitVars, deletes, dueVars, intentVars, ownerVars,
                   queueVars, workerVars, completions, completed, mainVars>>

\* request_player_death and request_box_pickup: push, then (Wake) unpark.
RequestIntent(i) ==
    /\ caller[i] = "idle"
    /\ caller' = [caller EXCEPT ![i] = "sent"]
    /\ LET k == IF i \in Deaths THEN 1 ELSE 2
       IN  intentQueue' = [intentQueue EXCEPT ![k] = Append(@, i)]
    /\ UNCHANGED <<ingress, sent, backlog, admitVars, deletes, dueVars, ownerVars, token,
                   queueVars, workerVars, completions, completed, mainVars>>
------------------------------------------------------------------------------
(***************************************************************************)
(* Owner: wait_until_runnable.                                             *)
(***************************************************************************)
\* shutdown_requested, then next_wait_plan and plan_wait.  The flush
\* deadlines are always set, so a running owner always parks with a timeout.
CheckShutdown ==
    /\ opc = "check"
    /\ opc' = IF shutdown THEN "close" ELSE "plan"
    /\ UNCHANGED <<callerVars, admitVars, deletes, dueVars, intentVars, mode, timed, closed,
                   token, queueVars, workerVars, completions, completed, mainVars>>

PlanImmediate ==
    /\ opc = "plan"
    /\ opc' = "completions"              \* something is ready, or a deadline is due
    /\ UNCHANGED <<callerVars, admitVars, deletes, dueVars, intentVars, mode, timed, closed,
                   token, queueVars, workerVars, completions, completed, mainVars>>

PlanPark ==
    /\ opc = "plan"
    /\ ~WaitInputsReady
    /\ opc' = "park"
    /\ timed' = TRUE
    /\ UNCHANGED <<callerVars, admitVars, deletes, dueVars, intentVars, mode, closed, token,
                   queueVars, workerVars, completions, completed, mainVars>>

Resume == IF mode = "running" THEN "check" ELSE "qcheck"

\* park: returns at once when the token is there, and takes it.
Park ==
    /\ opc = "park"
    /\ opc' = IF token THEN Resume ELSE "parked"
    /\ token' = FALSE
    /\ UNCHANGED <<callerVars, admitVars, deletes, dueVars, intentVars, mode, timed, closed,
                   queueVars, workerVars, completions, completed, mainVars>>

Unpark ==
    /\ opc = "parked"
    /\ token
    /\ token' = FALSE
    /\ opc' = Resume
    /\ UNCHANGED <<callerVars, admitVars, deletes, dueVars, intentVars, mode, timed, closed,
                   queueVars, workerVars, completions, completed, mainVars>>

\* The deadline of park_timeout passed; the token stays as it is.
ParkTimeout ==
    /\ opc = "parked"
    /\ timed
    /\ opc' = Resume
    /\ UNCHANGED <<callerVars, admitVars, deletes, dueVars, intentVars, mode, timed, closed,
                   token, queueVars, workerVars, completions, completed, mainVars>>
------------------------------------------------------------------------------
(***************************************************************************)
(* Owner: run_command_phase.                                               *)
(***************************************************************************)
DrainCompletion ==
    /\ opc = "completions"
    /\ completions # <<>>
    /\ completions' = Tail(completions)
    /\ completed' = Append(completed, Head(completions))
    /\ slots' = slots + 1
    /\ UNCHANGED <<callerVars, admitVars, deletes, dueVars, intentVars, ownerVars, token,
                   queue, published, workerVars, mainVars>>

BeginAdmission ==
    /\ opc = "completions"
    /\ completions = <<>>
    /\ opc' = "deletes"
    /\ remaining' = Budget
    /\ UNCHANGED <<callerVars, heads, nextClass, tries, applied, deletes, dueVars, intentVars,
                   mode, timed, closed, token, queueVars, workerVars, completions,
                   completed, mainVars>>

\* After an applied command: the next iteration of the loop, or the due phase
\* when the tick budget is spent and work is left.
AfterApply ==
    \/ opc' = "deletes"
    \/ /\ \/ \E k \in Class : ingress'[k] # <<>> \/ heads'[k] # None
          \/ deletes' # <<>>
       /\ opc' = "due"

\* take_admitted_internal_building_delete: the front follow-up gets its
\* permit and is applied; a building that is already gone saves nothing.
AdmitDelete ==
    /\ opc = "deletes"
    /\ deletes # <<>>
    /\ CapacityAvailable(Head(deletes))
    /\ deletes' = Tail(deletes)
    /\ Publish(Head(deletes)) \/ PublishNothing
    /\ UNCHANGED <<callerVars, admitVars>>
    /\ AfterApply
    /\ UNCHANGED <<dueVars, intentVars, mode, timed, closed, token,
                   workerVars, completions, completed, mainVars>>

NoAdmittedDelete ==
    /\ opc = "deletes"
    /\ deletes # <<>> => ~CapacityAvailable(Head(deletes))
    /\ opc' = "admit"
    /\ tries' = 3
    /\ UNCHANGED <<callerVars, heads, nextClass, remaining, applied, deletes, dueVars,
                   intentVars, mode, timed, closed, token, queueVars, workerVars,
                   completions, completed, mainVars>>

\* Mutant: a fresh message overtakes the parked head.
CandidateOvertakes(k) ==
    IF ingress[k] # <<>> THEN Head(ingress[k]) ELSE heads[k]

\* The head parked for class k, else the next message of its channel.
Candidate(k) ==
    IF heads[k] # None THEN heads[k]
    ELSE IF ingress[k] # <<>> THEN Head(ingress[k])
    ELSE None

TakeCandidate(k) ==
    IF heads[k] # None THEN UNCHANGED ingress
    ELSE ingress' = [ingress EXCEPT ![k] = Tail(@)]

\* Mutant: the rotation does not wrap.
NextClassUnwrapped == nextClass' = nextClass + 1

NextClass == nextClass' = (nextClass + 1) % 3

\* One turn of take_admitted_command finds nothing to run in the class.
SkipClass ==
    /\ opc = "admit" /\ tries > 0
    /\ remaining[nextClass] = 0 \/ Candidate(nextClass) = None
    /\ NextClass
    /\ tries' = tries - 1
    /\ UNCHANGED <<callerVars, heads, remaining, applied, deletes, dueVars, intentVars, ownerVars,
                   token, queueVars, workerVars, completions, completed, mainVars>>

\* Mutant: a blocked head ends the scan and keeps its turn.
ParkHeadBlocksAll ==
    /\ opc = "admit" /\ tries > 0
    /\ remaining[nextClass] > 0
    /\ Candidate(nextClass) \in Durable
    /\ ~CapacityAvailable(Candidate(nextClass))
    /\ heads' = [heads EXCEPT ![nextClass] = Candidate(nextClass)]
    /\ TakeCandidate(nextClass)
    /\ tries' = 0
    /\ UNCHANGED <<caller, sent, nextClass, remaining, applied, deletes, dueVars, intentVars,
                   ownerVars, token, queueVars, workerVars, completions, completed, mainVars>>

\* try_reserve answers Full: the command waits in its class's head slot and
\* the other classes are tried.
ParkHead ==
    /\ opc = "admit" /\ tries > 0
    /\ remaining[nextClass] > 0
    /\ Candidate(nextClass) \in Durable
    /\ ~CapacityAvailable(Candidate(nextClass))
    /\ heads' = [heads EXCEPT ![nextClass] = Candidate(nextClass)]
    /\ TakeCandidate(nextClass)
    /\ NextClass
    /\ tries' = tries - 1
    /\ UNCHANGED <<caller, sent, remaining, applied, deletes, dueVars, intentVars, ownerVars,
                   token, queueVars, workerVars, completions, completed, mainVars>>

\* What applying a command may do here: publish its one save or none, or
\* schedule a due action if the due queue has room.
ApplyEffect(c) ==
    \/ /\ c \in Durable
       /\ Publish(c)
       /\ UNCHANGED due
    \/ /\ c \in Delayed
       /\ Cardinality(due \cup ripe) < DueCapacity
       /\ due' = due \cup {c}
       /\ PublishNothing
    \/ /\ PublishNothing
       /\ UNCHANGED due

\* The class's command is admitted, with a permit when it is durable, and applied.
AdmitCommand ==
    /\ opc = "admit" /\ tries > 0
    /\ remaining[nextClass] > 0
    /\ Candidate(nextClass) # None
    /\ Candidate(nextClass) \in Durable => CapacityAvailable(Candidate(nextClass))
    /\ ApplyEffect(Candidate(nextClass))
    /\ applied' = [applied EXCEPT ![nextClass] = Append(@, Candidate(nextClass))]
    /\ heads' = [heads EXCEPT ![nextClass] = None]
    /\ TakeCandidate(nextClass)
    /\ remaining' = [remaining EXCEPT ![nextClass] = @ - 1]
    /\ NextClass
    /\ UNCHANGED deletes
    /\ AfterApply
    /\ tries' = 0
    /\ UNCHANGED <<caller, sent, ripe, intentVars, mode, timed, closed, token,
                   workerVars, completions, completed, mainVars>>

\* Every class was tried in vain: the phase ends and its budgets with it.
EndAdmission ==
    /\ opc = "admit" /\ tries = 0
    /\ opc' = "due"
    /\ remaining' = Budget
    /\ UNCHANGED <<callerVars, heads, nextClass, tries, applied, deletes, dueVars, intentVars, mode, timed, closed,
                   token, queueVars, workerVars, completions, completed, mainVars>>
------------------------------------------------------------------------------
(***************************************************************************)
(* Owner: run_due_action_phase and the effects of a cycle.                 *)
(***************************************************************************)
\* A due action runs; its building removals join the owner-local delete FIFO.
\* The phase goes on with the next one or stops on its item or time budget.
RunDueAction(c) ==
    /\ opc = "due"
    /\ c \in ripe
    /\ ripe' = ripe \ {c}
    /\ \/ deletes' = Append(deletes, FollowUp[c])
       \/ UNCHANGED deletes
    /\ opc' \in {"due", "deaths"}
    /\ UNCHANGED <<callerVars, admitVars, due, intentVars, mode, timed, closed, token,
                   queueVars, workerVars, completions, completed, mainVars>>

EndDue ==
    /\ opc = "due"
    /\ ripe = {}
    /\ opc' = "deaths"
    /\ UNCHANGED <<callerVars, admitVars, deletes, dueVars, intentVars, mode, timed, closed,
                   token, queueVars, workerVars, completions, completed, mainVars>>

\* Deaths are collected and admitted before box pickups.
IntentStage(k) == IF k = 1 THEN "deaths" ELSE "pickups"
AdmitStage(k) == IF k = 1 THEN "deathsAdmit" ELSE "pickupsAdmit"

CollectIntents(k) ==
    /\ opc = IntentStage(k)
    /\ backlog' = [backlog EXCEPT ![k] = @ \o intentQueue[k]]
    /\ intentQueue' = [intentQueue EXCEPT ![k] = <<>>]
    /\ opc' = AdmitStage(k)
    /\ UNCHANGED <<callerVars, admitVars, deletes, dueVars, mode, timed, closed, token,
                   queueVars, workerVars, completions, completed, mainVars>>

\* A Box permit is reserved first; a stale intent saves nothing.
AdmitIntent(k) ==
    /\ opc = AdmitStage(k)
    /\ backlog[k] # <<>>
    /\ QueueHasRoom
    /\ backlog' = [backlog EXCEPT ![k] = Tail(@)]
    /\ Publish(Head(backlog[k])) \/ PublishNothing
    /\ UNCHANGED <<callerVars, admitVars, deletes, dueVars, intentQueue, ownerVars, token,
                   workerVars, completions, completed, mainVars>>

EndIntents(k) ==
    /\ opc = AdmitStage(k)
    /\ backlog[k] = <<>> \/ ~QueueHasRoom
    /\ opc' = IF k = 1 THEN "pickups" ELSE IF mode = "running" THEN "check" ELSE "qready"
    /\ UNCHANGED <<callerVars, admitVars, deletes, dueVars, intentVars, mode, timed, closed,
                   token, queueVars, workerVars, completions, completed, mainVars>>
------------------------------------------------------------------------------
(***************************************************************************)
(* Owner: finish_shutdown.                                                 *)
(***************************************************************************)
CloseIngress ==
    /\ opc = "close"
    /\ closed' = TRUE
    /\ mode' = "quiescing"
    /\ opc' = "qcheck"
    /\ UNCHANGED <<callerVars, admitVars, deletes, dueVars, intentVars, timed, token,
                   queueVars, workerVars, completions, completed, mainVars>>

\* Drained: the owner drops its persistence handle and waits for completions.
QuiescingCheck ==
    /\ opc = "qcheck"
    /\ opc' = IF QuiescingIsDrained THEN "drain" ELSE "completions"
    /\ UNCHANGED <<callerVars, admitVars, deletes, dueVars, intentVars, mode, timed, closed,
                   token, queueVars, workerVars, completions, completed, mainVars>>

\* park_timeout until the next due action, or park without a timeout.
QuiescingPlan ==
    /\ opc = "qready"
    /\ IF ~QuiescingIsDrained /\ ~QuiescingWorkIsReady
       THEN opc' = "park" /\ timed' = (due # {})
       ELSE opc' = "qcheck" /\ UNCHANGED timed
    /\ UNCHANGED <<callerVars, admitVars, deletes, dueVars, intentVars, mode, closed, token,
                   queueVars, workerVars, completions, completed, mainVars>>

OwnerHandleDropped == opc \in {"drain", "done"}
\* Mutant: main keeps its handle until the tasks have been joined.
MainHandleLeaked == mpc \in {"joined", "flushed"}

MainHandleDropped == mpc \in {"dropped", "joined", "flushed"}

\* drain_persistence_completions: blocking_recv until the channel is closed,
\* that is until no handle and no permit inside an envelope is left.
ReceiveLastCompletion ==
    /\ opc = "drain"
    /\ completions # <<>>
    /\ completions' = Tail(completions)
    /\ completed' = Append(completed, Head(completions))
    /\ slots' = slots + 1
    /\ UNCHANGED <<callerVars, admitVars, deletes, dueVars, intentVars, ownerVars, token,
                   queue, published, workerVars, mainVars>>

\* Mutant: the owner stops at the first empty channel instead of a closed one.
CompletionsEmpty ==
    /\ opc = "drain"
    /\ completions = <<>>
    /\ MainHandleDropped
    /\ opc' = "done"
    /\ UNCHANGED <<callerVars, admitVars, deletes, dueVars, intentVars, mode, timed, closed,
                   token, queueVars, workerVars, completions, completed, mainVars>>

CompletionsClosed ==
    /\ opc = "drain"
    /\ completions = <<>>
    /\ MainHandleDropped
    /\ slots = QueueCapacity
    /\ opc' = "done"
    /\ UNCHANGED <<callerVars, admitVars, deletes, dueVars, intentVars, mode, timed, closed,
                   token, queueVars, workerVars, completions, completed, mainVars>>
------------------------------------------------------------------------------
(***************************************************************************)
(* Worker: run_worker.  The store's retries are steps that change nothing; *)
(* an envelope leaves the batch when its save is done or has been given up *)
(* with a failure completion.                                              *)
(***************************************************************************)
\* Mutant: the batch is filled from the front.
TakeEnvelopeReversed ==
    /\ queue' = Tail(queue)
    /\ batch' = <<Head(queue)>> \o batch

TakeEnvelope ==
    /\ queue' = Tail(queue)
    /\ batch' = Append(batch, Head(queue))

WorkerReceive ==
    /\ wpc = "recv"
    /\ queue # <<>>
    /\ TakeEnvelope
    /\ wpc' = "gather"
    /\ UNCHANGED <<callerVars, admitVars, deletes, dueVars, intentVars, ownerVars, token,
                   published, slots, persisted, completions, completed, mainVars>>

WorkerGather ==
    /\ wpc = "gather"
    /\ queue # <<>> /\ Len(batch) < BatchLimit
    /\ TakeEnvelope
    /\ UNCHANGED <<callerVars, admitVars, deletes, dueVars, intentVars, ownerVars, token,
                   published, slots, wpc, persisted, completions, completed, mainVars>>

\* The slots of the batch are free again: wake the owner, then persist.
WorkerBeginBatch ==
    /\ wpc = "gather"
    /\ queue = <<>> \/ Len(batch) >= BatchLimit
    /\ token' = TRUE
    /\ wpc' = "persist"
    /\ UNCHANGED <<callerVars, admitVars, deletes, dueVars, intentVars, ownerVars,
                   queueVars, batch, persisted, completions, completed, mainVars>>

WorkerPersist ==
    /\ wpc = "persist"
    /\ batch # <<>>
    /\ batch' = Tail(batch)
    /\ persisted' = Append(persisted, Head(batch))
    /\ IF NeedsCompletionPermit(Head(batch))
       THEN /\ completions' = Append(completions, Head(batch))
            /\ wpc' = "notify"
       ELSE UNCHANGED <<completions, wpc>>
    /\ UNCHANGED <<callerVars, admitVars, deletes, dueVars, intentVars, ownerVars, token,
                   queueVars, completed, mainVars>>

WorkerNotify ==
    /\ wpc = "notify"
    /\ token' = TRUE
    /\ wpc' = "persist"
    /\ UNCHANGED <<callerVars, admitVars, deletes, dueVars, intentVars, ownerVars,
                   queueVars, batch, persisted, completions, completed, mainVars>>

WorkerEndBatch ==
    /\ wpc = "persist"
    /\ batch = <<>>
    /\ token' = TRUE
    /\ wpc' = "recv"
    /\ UNCHANGED <<callerVars, admitVars, deletes, dueVars, intentVars, ownerVars,
                   queueVars, batch, persisted, completions, completed, mainVars>>

\* recv returns None once every handle is gone and the queue is empty.
WorkerExit ==
    /\ wpc = "recv"
    /\ queue = <<>>
    /\ OwnerHandleDropped /\ MainHandleDropped
    /\ token' = TRUE
    /\ wpc' = "exited"
    /\ UNCHANGED <<callerVars, admitVars, deletes, dueVars, intentVars, ownerVars,
                   queueVars, batch, persisted, completions, completed, mainVars>>
------------------------------------------------------------------------------
(***************************************************************************)
(* Time, and main's shutdown sequence.                                     *)
(***************************************************************************)
DeadlinePasses(c) ==
    /\ c \in due
    /\ due' = due \ {c}
    /\ ripe' = ripe \cup {c}
    /\ UNCHANGED <<callerVars, admitVars, deletes, intentVars, ownerVars, token,
                   queueVars, workerVars, completions, completed, mainVars>>

SendShutdown ==
    /\ mpc = "run"
    /\ shutdown' = TRUE
    /\ mpc' = "signalled"
    /\ UNCHANGED <<callerVars, admitVars, deletes, dueVars, intentVars, ownerVars, token,
                   queueVars, workerVars, completions, completed>>

\* BackgroundTasks::shutdown: wake, drop the handle, await the worker, join the owner.
WakeForShutdown ==
    /\ mpc = "signalled"
    /\ token' = TRUE
    /\ mpc' = "woken"
    /\ UNCHANGED <<callerVars, admitVars, deletes, dueVars, intentVars, ownerVars,
                   queueVars, workerVars, completions, completed, shutdown>>

DropMainHandle ==
    /\ mpc = "woken"
    /\ mpc' = "dropped"
    /\ UNCHANGED <<callerVars, admitVars, deletes, dueVars, intentVars, ownerVars, token,
                   queueVars, workerVars, completions, completed, shutdown>>

JoinTasks ==
    /\ mpc = "dropped"
    /\ wpc = "exited"
    /\ opc = "done"
    /\ mpc' = "joined"
    /\ UNCHANGED <<callerVars, admitVars, deletes, dueVars, intentVars, ownerVars, token,
                   queueVars, workerVars, completions, completed, shutdown>>

FinalFlush ==
    /\ mpc = "joined"
    /\ mpc' = "flushed"
    /\ UNCHANGED <<callerVars, admitVars, deletes, dueVars, intentVars, ownerVars, token,
                   queueVars, workerVars, completions, completed, shutdown>>

\* The process has exited; nothing is left to happen.
Terminated == mpc = "flushed" /\ UNCHANGED vars
------------------------------------------------------------------------------
OwnerStep ==
    \/ CheckShutdown \/ PlanImmediate \/ PlanPark \/ Park \/ Unpark
    \/ DrainCompletion \/ BeginAdmission \/ AdmitDelete \/ NoAdmittedDelete
    \/ SkipClass \/ ParkHead \/ AdmitCommand \/ EndAdmission
    \/ \E c \in Delayed : RunDueAction(c)
    \/ EndDue
    \/ \E k \in 1..2 : CollectIntents(k) \/ AdmitIntent(k) \/ EndIntents(k)
    \/ CloseIngress \/ QuiescingCheck \/ QuiescingPlan
    \/ ReceiveLastCompletion \/ CompletionsClosed

WorkerStep ==
    \/ WorkerReceive \/ WorkerGather \/ WorkerBeginBatch
    \/ WorkerPersist \/ WorkerNotify \/ WorkerEndBatch \/ WorkerExit

ShutdownStep == WakeForShutdown \/ DropMainHandle \/ JoinTasks \/ FinalFlush

CallerStep(c) == Reserve(c) \/ Refuse(c) \/ Send(c) \/ Wake(c)

\* main returns after the final flush and the process ends with it.
Next ==
    \/ /\ mpc # "flushed"
       /\ \/ \E c \in Commands : CallerStep(c)
          \/ \E i \in Intents : RequestIntent(i) \/ Wake(i)
          \/ \E c \in Delayed : DeadlinePasses(c)
          \/ OwnerStep
          \/ ParkTimeout
          \/ WorkerStep
          \/ SendShutdown
          \/ ShutdownStep
    \/ Terminated

Init ==
    /\ caller = [i \in Commands \cup Intents |-> "idle"]
    /\ ingress = [k \in Class |-> <<>>]
    /\ sent = [k \in Class |-> <<>>]
    /\ applied = [k \in Class |-> <<>>]
    /\ heads = [k \in Class |-> None]
    /\ nextClass = 0
    /\ remaining = Budget
    /\ tries = 0
    /\ deletes = <<>>
    /\ due = {} /\ ripe = {}
    /\ intentQueue = [k \in 1..2 |-> <<>>]
    /\ backlog = [k \in 1..2 |-> <<>>]
    /\ opc = "check" /\ mode = "running" /\ timed = FALSE /\ closed = FALSE
    /\ token = FALSE
    /\ queue = <<>> /\ published = <<>>
    /\ batch = <<>> /\ wpc = "recv" /\ persisted = <<>>
    /\ completions = <<>> /\ completed = <<>> /\ slots = QueueCapacity
    /\ shutdown = FALSE /\ mpc = "run"

Spec == Init /\ [][Next]_vars

\* Threads and tasks that can run do run, deadlines pass (the dirty-flush
\* deadline comes round for ever, so an owner that plans again and again finds
\* it due), and a transient store error does not last for ever.  Nothing makes
\* a caller issue a command or an operator ask for the shutdown.
Fairness ==
    /\ WF_vars(mpc # "flushed" /\ OwnerStep)
    /\ SF_vars(mpc # "flushed" /\ PlanImmediate)
    /\ WF_vars(mpc # "flushed" /\ ParkTimeout)
    /\ WF_vars(mpc # "flushed" /\ WorkerStep)
    /\ WF_vars(mpc # "flushed" /\ ShutdownStep)
    /\ \A c \in Commands : WF_vars(mpc # "flushed" /\ (Send(c) \/ Wake(c)))
    /\ \A i \in Intents : WF_vars(mpc # "flushed" /\ Wake(i))
    /\ \A c \in Delayed : WF_vars(mpc # "flushed" /\ DeadlinePasses(c))

FairSpec == Spec /\ Fairness

\* The same without the worker: the store does not answer for ever.
StalledStoreSpec ==
    /\ Spec
    /\ WF_vars(mpc # "flushed" /\ OwnerStep)
    /\ SF_vars(mpc # "flushed" /\ PlanImmediate)
    /\ WF_vars(mpc # "flushed" /\ ParkTimeout)
    /\ \A c \in Commands : WF_vars(mpc # "flushed" /\ (Send(c) \/ Wake(c)))
------------------------------------------------------------------------------
CallerStates == {"idle", "reserved", "refused", "sent", "accepted"}
OwnerStates ==
    {"check", "plan", "park", "parked", "completions", "deletes", "admit", "due", "deaths",
     "deathsAdmit", "pickups", "pickupsAdmit", "close", "qcheck", "qready", "drain", "done"}

\* The types of the variables, by the part of the system that owns them.
CallerType ==
    /\ caller \in [Commands \cup Intents -> CallerStates]
    /\ ingress \in [Class -> Seq(Commands)]
    /\ sent \in [Class -> Seq(Commands)]

AdmitType ==
    /\ heads \in [Class -> Commands \cup {None}]
    /\ nextClass \in Class
    /\ remaining \in [Class -> Nat]
    /\ tries \in 0..3
    /\ applied \in [Class -> Seq(Commands)]

WorkType ==
    /\ deletes \in Seq(FollowUps)
    /\ due \in SUBSET Delayed
    /\ ripe \in SUBSET Delayed

IntentType ==
    /\ intentQueue \in [1..2 -> Seq(Intents)]
    /\ backlog \in [1..2 -> Seq(Intents)]

OwnerType ==
    /\ opc \in OwnerStates
    /\ mode \in {"running", "quiescing"}
    /\ timed \in BOOLEAN /\ closed \in BOOLEAN /\ token \in BOOLEAN

QueueType ==
    /\ queue \in Seq(Items) /\ published \in Seq(Items)
    /\ slots \in Int

WorkerType ==
    /\ batch \in Seq(Items) /\ persisted \in Seq(Items)
    /\ wpc \in {"recv", "gather", "persist", "notify", "exited"}

CompletionType ==
    /\ completions \in Seq(Items) /\ completed \in Seq(Items)

MainType ==
    /\ shutdown \in BOOLEAN
    /\ mpc \in {"run", "signalled", "woken", "dropped", "joined", "flushed"}

TypeOK ==
    /\ CallerType /\ AdmitType /\ WorkType /\ IntentType /\ OwnerType
    /\ QueueType /\ WorkerType /\ CompletionType /\ MainType

HeadSeq(k) == IF heads[k] = None THEN <<>> ELSE <<heads[k]>>

\* Within a class no command is lost, duplicated or overtaken: what entered
\* the channel is what was applied, then the parked head, then the buffer
\* (take_admitted_command, PendingCommandHeads).
ClassFifo == \A k \in Class : sent[k] = applied[k] \o HeadSeq(k) \o ingress[k]

\* Saves reach the store in the order they were published, whatever their
\* kind; none is lost or written twice (persist_batch keeps FIFO).
SaveFifo == published = persisted \o batch \o queue

\* How many of the first n saves of q need a completion permit.
TrackedUpTo(q, n) == Cardinality({j \in 1..n : NeedsCompletionPermit(q[j])})

\* Each tracked save that the store finished has exactly one completion, the
\* owner applies completions in the order of the saves (the n-th tracked save
\* has the n-th completion), and none is left when the final flush starts.
CompletionFifo ==
    /\ Len(completed \o completions) = TrackedUpTo(persisted, Len(persisted))
    /\ \A i \in 1..Len(persisted) :
         NeedsCompletionPermit(persisted[i]) =>
             (completed \o completions)[TrackedUpTo(persisted, i)] = persisted[i]
    /\ mpc \in {"joined", "flushed"} => completions = <<>>

\* Completion permits travel inside the envelopes of the queue and the batch.
OutstandingPermits == TrackedUpTo(queue, Len(queue)) + TrackedUpTo(batch, Len(batch))

\* The bounded channels never hold more than their capacity, and a slot of
\* the completion channel is free, travels with an envelope or holds a
\* completion: the worker can always answer without waiting for the owner.
WithinCapacity ==
    /\ \A k \in Class : Slots(k) <= IngressCapacity[k]
    /\ Len(queue) <= QueueCapacity
    /\ slots >= 0
    /\ slots + OutstandingPermits + Len(completions) = QueueCapacity

\* Somebody has published work and is about to unpark the owner.
WakePending ==
    \/ \E i \in Commands \cup Intents : caller[i] = "sent"
    \/ wpc \in {"gather", "notify"}

\* The owner never sleeps on ready work: when it is parked (or about to
\* park) without a token and its wait inputs are ready, a wake is on its way
\* or its timeout runs (SimulationWaker, wait_until_runnable, finish_shutdown).
NoLostWake ==
    opc \in {"park", "parked"} /\ ~token =>
        /\ mode = "running" /\ shutdown => mpc = "signalled"
        /\ mode = "running" /\ WaitInputsReady => WakePending \/ (timed /\ ripe # {})
        /\ mode = "quiescing" /\ QuiescingWorkIsReady => WakePending \/ (timed /\ ripe # {})

\* The final flush starts only when every published save was persisted and no
\* command, follow-up, due action or intent is pending inside the owner
\* (BackgroundTasks::shutdown, finish_shutdown).
FlushAfterDrain ==
    mpc \in {"joined", "flushed"} =>
        /\ persisted = published
        /\ NoHeads /\ deletes = <<>> /\ due \cup ripe = {}
        /\ \A k \in 1..2 : backlog[k] = <<>>

\* A command buffered while the ingress is open is applied in the end, even
\* across saturation and shutdown.
BufferedIsApplied ==
    \A c \in Commands :
        (~closed /\ \E n \in 1..Len(ingress[ClassOf(c)]) : ingress[ClassOf(c)][n] = c)
            ~> (\E n \in 1..Len(applied[ClassOf(c)]) : applied[ClassOf(c)][n] = c)

\* A shutdown request ends in the final flush: owner and worker never wait
\* for each other for ever.
ShutdownCompletes == shutdown ~> (mpc = "flushed")

\* A follow-up delete in the owner's FIFO leaves it.
DeletesDrain == (deletes # <<>>) ~> (deletes = <<>>)

\* Classes without durable commands keep running while the store is stuck
\* and durable heads of the other classes wait.
ClassesIsolated ==
    \A c \in Commands :
        (\A d \in Durable : ClassOf(d) # ClassOf(c)) =>
            ((~closed /\ caller[c] = "accepted")
                ~> (\E n \in 1..Len(applied[ClassOf(c)]) : applied[ClassOf(c)][n] = c))
==============================================================================
