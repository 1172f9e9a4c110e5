-------------------------- MODULE RuntimeLifecycle --------------------------
(***************************************************************************)
(* The dsh Runtime of the Tauri host: RuntimeActor (runtime_actor.rs), the *)
(* start, stop, restart and status procedures that run on it concurrently  *)
(* (runtime/control.rs, runtime/start.rs, runtime/spawn.rs), the registry  *)
(* of starting processes (process.rs) and the exit path (supervisor.rs).   *)
(*                                                                         *)
(* Every procedure is a thread that takes the RuntimeActor mutex several   *)
(* times and lets go of it in between; one action here is one such         *)
(* critical section, or one operating-system effect between two of them.   *)
(* A thread's local variables are functions of the thread.                 *)
(*                                                                         *)
(* The Gateway calls these procedures make touch none of these variables.  *)
(* Mutex poisoning is left out.  A child process is named by the           *)
(* generation and the attempt it was spawned for.                          *)
(***************************************************************************)
EXTENDS Integers, FiniteSets

CONSTANTS
    Workers,         \* threads serving Tauri commands, menu, tray, kernel
    Commands,        \* the commands they are asked to serve
    Supervisor,      \* the task spawned by request_exit
    MaxGen,          \* bound: generations ever begun
    MaxAttempts,     \* bound: launch attempts of one start_blocking call
    DeadlineMayFire  \* TRUE: the 30 s drain deadline may expire

ASSUME SupervisorAssumption == Supervisor \notin Workers
ASSUME CommandsAssumption == Commands \subseteq {"start", "stop", "restart", "status"}
ASSUME BoundsAssumption == MaxGen \in Nat /\ MaxAttempts \in Nat \ {0}
ASSUME DeadlineAssumption == DeadlineMayFire \in BOOLEAN

Threads == Workers \cup {Supervisor}
Gens == 1 .. MaxGen
None == 0
Pids == [gen : Gens, attempt : 1 .. MaxAttempts]
NoPid == [gen |-> None, attempt |-> 0]

Phases == {"Stopped", "Preparing", "Starting", "Probing", "Ready",
           "Degraded", "Stopping", "Cancelling", "Failed"}
Usable == {"Ready", "Degraded"}
Opening == {"Preparing", "Starting", "Probing"}

VARIABLES
    \* RuntimeActor, guarded by its mutex
    phase,         \* state.phase
    gen,           \* id of state.generation, None when absent
    desired,       \* state.desired_generation
    process,       \* the RuntimeProcess the actor owns, or NoPid
    lease,         \* generation of the published RuntimeLease, or None
    cancellation,  \* generation whose CancellationToken the actor holds
    \* shared with the start threads
    cancelled,     \* generations whose CancellationToken is cancelled
    registry,      \* StartingProcessRegistry
    quitting,      \* the quitting flag
    alive,         \* operating system: the child processes running now
    \* the threads
    pc,            \* where each thread is
    job,           \* the command a worker serves
    mine,          \* generation a start thread works for
    attempt,       \* number of its current launch attempt
    sweep,         \* pids a stop pass has read from the registry
    taken,         \* RuntimeProcess a stop pass took out of the actor
    passes         \* stop passes the exit path has completed

actorVars == <<phase, gen, desired, process, lease, cancellation>>
localVars == <<job, mine, attempt, sweep, taken, passes>>
vars == <<actorVars, cancelled, registry, quitting, alive, pc, localVars>>

-----------------------------------------------------------------------------
(* Where a thread can be.                                                  *)

\* start_impl before begin_start, with the generation being started, and
\* inside the part that may own a child process.
PreStart == {"restart_check", "quit_check", "admit", "begin"}
Owning == {"spawned", "waiting", "kill", "ready", "discard", "reject",
           "publish"}
Closing == {"failed", "discard_settle", "reject_failed"}
Starting == {"prepare", "attempt", "spawn"} \cup Owning \cup Closing
StopPcs == {"begin_stop", "sweep", "sweep_kill", "stop_process", "settle"}
Pcs == {"idle", "reap", "drain", "exited"} \cup PreStart \cup Starting
       \cup StopPcs

Child(w) == [gen |-> mine[w], attempt |-> attempt[w]]

TypeOK ==
    /\ phase \in Phases
    /\ gen \in Gens \cup {None}
    /\ desired \in Gens \cup {None}
    /\ process \in Pids \cup {NoPid}
    /\ lease \in Gens \cup {None}
    /\ cancellation \in Gens \cup {None}
    /\ cancelled \subseteq Gens
    /\ registry \subseteq Pids
    /\ quitting \in BOOLEAN
    /\ alive \subseteq Pids
    /\ pc \in [Threads -> Pcs]
    /\ job \in [Workers -> Commands \cup {"none"}]
    /\ mine \in [Workers -> Gens \cup {None}]
    /\ attempt \in [Workers -> 0 .. MaxAttempts]
    /\ sweep \in [Threads -> SUBSET Pids]
    /\ taken \in [Threads -> Pids \cup {NoPid}]
    /\ passes \in 0 .. 3

Init ==
    /\ phase = "Stopped" /\ gen = None /\ desired = 0
    /\ process = NoPid /\ lease = None /\ cancellation = None
    /\ cancelled = {} /\ registry = {} /\ quitting = FALSE /\ alive = {}
    /\ pc = [t \in Threads |-> "idle"]
    /\ job = [w \in Workers |-> "none"]
    /\ mine = [w \in Workers |-> None]
    /\ attempt = [w \in Workers |-> 0]
    /\ sweep = [t \in Threads |-> {}]
    /\ taken = [t \in Threads |-> NoPid]
    /\ passes = 0

GoTo(t, where) == pc' = [pc EXCEPT ![t] = where]

\* The thread returns to its caller and forgets its locals.
Return(w) ==
    /\ GoTo(w, "idle")
    /\ job' = [job EXCEPT ![w] = "none"]
    /\ mine' = [mine EXCEPT ![w] = None]
    /\ attempt' = [attempt EXCEPT ![w] = 0]
    /\ UNCHANGED <<sweep, taken, passes>>

-----------------------------------------------------------------------------
(* RuntimeActor: one operator per method, applied under the mutex.         *)

IsTransitioning == phase \in Opening \cup {"Stopping", "Cancelling"}

BeginStartRefused ==
    \/ IsTransitioning
    \/ phase \in Usable /\ process # NoPid

\* begin: the next generation id, a fresh token, no lease.
BeginGeneration ==
    /\ desired' = desired + 1
    /\ gen' = desired + 1
    /\ phase' = "Preparing"
    /\ cancellation' = desired + 1
    /\ lease' = None
    /\ UNCHANGED process

\* bind_image, mark_starting and mark_probing under one lock.
CanBind(g) == gen = g /\ phase = "Preparing"

BindImage ==
    /\ phase' = "Probing"
    /\ UNCHANGED <<gen, desired, process, lease, cancellation>>

MarkFailed_of_any_generation(g) ==
    /\ phase' = "Failed"
    /\ cancellation' = None
    /\ lease' = None
    /\ UNCHANGED <<gen, desired, process>>

MarkFailed_keeps_phase(g) ==
    IF gen = g
    THEN /\ cancellation' = None
         /\ lease' = None
         /\ UNCHANGED <<phase, gen, desired, process>>
    ELSE UNCHANGED actorVars

MarkFailed(g) ==
    IF gen = g
    THEN /\ phase' = "Failed"
         /\ cancellation' = None
         /\ lease' = None
         /\ UNCHANGED <<gen, desired, process>>
    ELSE UNCHANGED actorVars

CanPublish_ignoring_generation(g) ==
    /\ cancellation # None => cancellation \notin cancelled
    /\ phase \in Opening

\* publish_ready accepts only the generation the actor is still opening.
CanPublish(g) ==
    /\ cancellation # None => cancellation = g /\ g \notin cancelled
    /\ phase \in Opening
    /\ gen = g

Publish(pid) ==
    /\ phase' \in Usable
    /\ process' = pid
    /\ lease' = pid.gen
    /\ cancellation' = None
    /\ UNCHANGED <<gen, desired>>

BeginStopPhase ==
    CASE phase \in Opening -> "Cancelling"
      [] phase = "Stopped" -> "Stopped"
      [] OTHER             -> "Stopping"

BeginStop_keeping_lease ==
    /\ phase' = BeginStopPhase
    /\ cancelled' = cancelled \cup ({cancellation} \ {None})
    /\ process' = NoPid
    /\ UNCHANGED <<gen, desired, lease, cancellation>>

\* begin_stop cancels the token and hands the process over to its caller.
BeginStop ==
    /\ phase' = BeginStopPhase
    /\ cancelled' = cancelled \cup ({cancellation} \ {None})
    /\ lease' = None
    /\ process' = NoPid
    /\ UNCHANGED <<gen, desired, cancellation>>

\* settle_stopped forgets everything, whatever generation is current now.
\* The process it drops is stopped by RuntimeProcess::drop.
SettleStopped ==
    /\ phase' = "Stopped"
    /\ gen' = None
    /\ process' = NoPid
    /\ lease' = None
    /\ cancellation' = None
    /\ UNCHANGED desired

-----------------------------------------------------------------------------
(* A start thread's own child.                                             *)

StopChild_leaves_it_running(w) == UNCHANGED alive

\* terminate_tree and stop_child_tree: the whole group is dead on return.
StopChild(w) == alive' = alive \ {Child(w)}

CompleteRegistration_forgotten(w) == UNCHANGED registry

\* StartingProcessGuard::complete, or its Drop.
CompleteRegistration(w) == registry' = registry \ {Child(w)}

-----------------------------------------------------------------------------
(* Requests.                                                               *)

Request(w, what, where) ==
    /\ pc[w] = "idle"
    /\ pc[Supervisor] # "exited"
    /\ what \in Commands
    /\ job' = [job EXCEPT ![w] = what]
    /\ GoTo(w, where)
    /\ UNCHANGED <<actorVars, cancelled, registry, quitting, alive,
                   mine, attempt, sweep, taken, passes>>

RequestStart(w) == Request(w, "start", "quit_check")
RequestRestart(w) == Request(w, "restart", "restart_check")
RequestStop(w) == Request(w, "stop", "begin_stop")
RequestStatus(w) == Request(w, "status", "reap")

\* restart_managed_mode refuses once the application is quitting.
RestartCheck(w) ==
    /\ pc[w] = "restart_check"
    /\ IF quitting
       THEN Return(w)
       ELSE GoTo(w, "begin_stop") /\ UNCHANGED localVars
    /\ UNCHANGED <<actorVars, cancelled, registry, quitting, alive>>

-----------------------------------------------------------------------------
(* start_impl and start_blocking.                                          *)

QuitCheck(w) ==
    /\ pc[w] = "quit_check"
    /\ IF quitting
       THEN Return(w)
       ELSE GoTo(w, "admit") /\ UNCHANGED localVars
    /\ UNCHANGED <<actorVars, cancelled, registry, quitting, alive>>

\* An owned process is reported as it is, dead or alive, and nothing starts.
Admit(w) ==
    /\ pc[w] = "admit"
    /\ IF process # NoPid
       THEN Return(w)
       ELSE GoTo(w, "begin") /\ UNCHANGED localVars
    /\ UNCHANGED <<actorVars, cancelled, registry, quitting, alive>>

BeginStart(w) ==
    /\ pc[w] = "begin"
    /\ IF BeginStartRefused \/ desired = MaxGen
       THEN /\ Return(w)
            /\ UNCHANGED actorVars
       ELSE /\ BeginGeneration
            /\ mine' = [mine EXCEPT ![w] = desired + 1]
            /\ GoTo(w, "prepare")
            /\ UNCHANGED <<job, attempt, sweep, taken, passes>>
    /\ UNCHANGED <<cancelled, registry, quitting, alive>>

\* load_runtime_image, then the image is bound; an image that cannot be
\* loaded or that arrives too late fails the generation.
Prepare(w) ==
    /\ pc[w] = "prepare"
    /\ \/ /\ CanBind(mine[w])
          /\ BindImage
          /\ GoTo(w, "attempt")
          /\ attempt' = [attempt EXCEPT ![w] = 1]
          /\ UNCHANGED <<job, mine, sweep, taken, passes>>
       \/ /\ MarkFailed(mine[w])
          /\ Return(w)
    /\ UNCHANGED <<cancelled, registry, quitting, alive>>

IsCancelled(w) == quitting \/ mine[w] \in cancelled

\* An attempt starts unless the generation is cancelled or a resource is
\* missing; the first admission check of spawn_registered belongs to it.
Attempt(w) ==
    /\ pc[w] = "attempt"
    /\ \/ ~IsCancelled(w) /\ GoTo(w, "spawn")
       \/ GoTo(w, "failed")
    /\ UNCHANGED <<actorVars, cancelled, registry, quitting, alive, localVars>>

\* Command::spawn runs outside the registry lock.
Spawn(w) ==
    /\ pc[w] = "spawn"
    /\ \/ /\ alive' = alive \cup {Child(w)}
          /\ GoTo(w, "spawned")
       \/ /\ GoTo(w, "failed")
          /\ UNCHANGED alive
    /\ UNCHANGED <<actorVars, cancelled, registry, quitting, localVars>>

Register_without_second_check(w) ==
    /\ pc[w] = "spawned"
    /\ registry' = registry \cup {Child(w)}
    /\ GoTo(w, "waiting")
    /\ UNCHANGED <<actorVars, cancelled, quitting, alive, localVars>>

\* The second admission check, under the registry lock.
Register(w) ==
    /\ pc[w] = "spawned"
    /\ IF quitting
       THEN GoTo(w, "kill") /\ UNCHANGED registry
       ELSE /\ registry' = registry \cup {Child(w)}
            /\ GoTo(w, "waiting")
    /\ UNCHANGED <<actorVars, cancelled, quitting, alive, localVars>>

\* wait_for_ready: a ready file and a stable child, or a failed attempt
\* (cancelled, exited, the 120 s deadline).
WaitForReady(w) ==
    /\ pc[w] = "waiting"
    /\ \/ ~IsCancelled(w) /\ Child(w) \in alive /\ GoTo(w, "ready")
       \/ GoTo(w, "kill")
    /\ UNCHANGED <<actorVars, cancelled, registry, quitting, alive, localVars>>

\* Whether start_blocking has another attempt to fall back to.
MoreAttempts(w) == attempt[w] < MaxAttempts

\* The failed attempt kills its own child and completes its registration;
\* start_blocking may then fall back to another attempt.
KillAttempt(w) ==
    /\ pc[w] = "kill"
    /\ StopChild(w)
    /\ CompleteRegistration(w)
    /\ \/ /\ MoreAttempts(w)
          /\ attempt' = [attempt EXCEPT ![w] = @ + 1]
          /\ GoTo(w, "attempt")
       \/ /\ GoTo(w, "failed")
          /\ UNCHANGED attempt
    /\ UNCHANGED <<actorVars, cancelled, quitting, job, mine, sweep, taken,
                   passes>>

StartFailed(w) ==
    /\ pc[w] = "failed"
    /\ MarkFailed(mine[w])
    /\ Return(w)
    /\ UNCHANGED <<cancelled, registry, quitting, alive>>

\* start_blocking returned a process: a cancelled generation is discarded, a
\* process without a valid lease is rejected, any other goes on to publish.
CheckReady(w) ==
    /\ pc[w] = "ready"
    /\ IF IsCancelled(w)
       THEN GoTo(w, "discard")
       ELSE GoTo(w, "publish") \/ GoTo(w, "reject")
    /\ UNCHANGED <<actorVars, cancelled, registry, quitting, alive, localVars>>

Discard(w) ==
    /\ pc[w] \in {"discard", "reject"}
    /\ StopChild(w)
    /\ GoTo(w, IF pc[w] = "discard" THEN "discard_settle" ELSE "reject_failed")
    /\ UNCHANGED <<actorVars, cancelled, registry, quitting, localVars>>

\* The actor is settled only if it still holds this generation.  Returning
\* drops the process and with it the registration.
DiscardSettle(w) ==
    /\ pc[w] = "discard_settle"
    /\ IF gen = mine[w]
       THEN SettleStopped /\ alive' = alive \ {process}
       ELSE UNCHANGED <<actorVars, alive>>
    /\ CompleteRegistration(w)
    /\ Return(w)
    /\ UNCHANGED <<cancelled, quitting>>

RejectFailed(w) ==
    /\ pc[w] = "reject_failed"
    /\ MarkFailed(mine[w])
    /\ CompleteRegistration(w)
    /\ Return(w)
    /\ UNCHANGED <<cancelled, quitting, alive>>

\* publish_ready; a stale process is stopped while the lock is still held.
PublishReady(w) ==
    /\ pc[w] = "publish"
    /\ IF CanPublish(mine[w])
       THEN Publish(Child(w)) /\ alive' = alive \ ({process} \ {NoPid})
       ELSE StopChild(w) /\ UNCHANGED actorVars
    /\ CompleteRegistration(w)
    /\ Return(w)
    /\ UNCHANGED <<cancelled, quitting>>

-----------------------------------------------------------------------------
(* Stopping: stop_impl for a worker, stop_managed_processes for the exit.  *)

\* stop_impl begins the stop before it sweeps the registry, the exit path
\* sweeps first.
AfterBegin(t) == IF t = Supervisor THEN "stop_process" ELSE "sweep"
AfterSweep(t) == IF t = Supervisor THEN "begin_stop" ELSE "stop_process"

StopBegin(t) ==
    /\ pc[t] = "begin_stop"
    /\ BeginStop
    /\ taken' = [taken EXCEPT ![t] = process]
    /\ GoTo(t, AfterBegin(t))
    /\ UNCHANGED <<registry, quitting, alive, job, mine, attempt, sweep, passes>>

\* stop_starting_processes copies the pids under the lock ...
Sweep(t) ==
    /\ pc[t] = "sweep"
    /\ sweep' = [sweep EXCEPT ![t] = registry]
    /\ GoTo(t, "sweep_kill")
    /\ UNCHANGED <<actorVars, cancelled, registry, quitting, alive, job, mine,
                   attempt, taken, passes>>

\* ... and kills them one after the other without it.
SweepKill(t) ==
    /\ pc[t] = "sweep_kill"
    /\ \/ \E pid \in sweep[t] :
             /\ alive' = alive \ {pid}
             /\ sweep' = [sweep EXCEPT ![t] = @ \ {pid}]
             /\ UNCHANGED pc
       \/ /\ sweep[t] = {}
          /\ GoTo(t, AfterSweep(t))
          /\ UNCHANGED <<alive, sweep>>
    /\ UNCHANGED <<actorVars, cancelled, registry, quitting, job, mine,
                   attempt, taken, passes>>

StopProcess(t) ==
    /\ pc[t] = "stop_process"
    /\ alive' = alive \ {taken[t]}
    /\ taken' = [taken EXCEPT ![t] = NoPid]
    /\ GoTo(t, "settle")
    /\ UNCHANGED <<actorVars, cancelled, registry, quitting, job, mine,
                   attempt, sweep, passes>>

\* A restart goes on to start_impl once its stop has settled.
Settle(w) ==
    /\ pc[w] = "settle"
    /\ SettleStopped
    /\ alive' = alive \ {process}
    /\ IF job[w] = "restart"
       THEN GoTo(w, "quit_check") /\ UNCHANGED localVars
       ELSE Return(w)
    /\ UNCHANGED <<cancelled, registry, quitting>>

-----------------------------------------------------------------------------
(* status_snapshot: the explicit reaper.                                   *)

ProcessDied == process # NoPid /\ process \notin alive

Reap(w) ==
    /\ pc[w] = "reap"
    /\ IF ProcessDied THEN SettleStopped ELSE UNCHANGED actorVars
    /\ Return(w)
    /\ UNCHANGED <<cancelled, registry, quitting, alive>>

-----------------------------------------------------------------------------
(* The exit path.                                                          *)

RequestExit ==
    /\ ~quitting
    /\ quitting' = TRUE
    /\ GoTo(Supervisor, "sweep")
    /\ UNCHANGED <<actorVars, cancelled, registry, alive, localVars>>

\* The first pass is followed by the drain, the second by exit(0), whose
\* RunEvent::Exit handler runs the third.
SettlePass ==
    /\ pc[Supervisor] = "settle"
    /\ SettleStopped
    /\ alive' = alive \ {process}
    /\ passes' = passes + 1
    /\ GoTo(Supervisor, CASE passes = 0 -> "drain"
                          [] passes = 1 -> "sweep"
                          [] OTHER      -> "exited")
    /\ UNCHANGED <<cancelled, registry, quitting, job, mine, attempt, sweep,
                   taken>>

\* lifecycle::managed_operations_idle and an empty registry, as far as the
\* Runtime is concerned.
Drained == registry = {} /\ ~IsTransitioning

Drain ==
    /\ pc[Supervisor] = "drain"
    /\ Drained \/ DeadlineMayFire
    /\ GoTo(Supervisor, "sweep")
    /\ UNCHANGED <<actorVars, cancelled, registry, quitting, alive, localVars>>

-----------------------------------------------------------------------------

\* A Runtime child may exit or crash at any time.
ChildDies ==
    /\ pc[Supervisor] # "exited"
    /\ \E pid \in alive : alive' = alive \ {pid}
    /\ UNCHANGED <<actorVars, cancelled, registry, quitting, pc, localVars>>

StartStep(w) ==
    \/ QuitCheck(w) \/ Admit(w) \/ BeginStart(w) \/ Prepare(w)
    \/ Attempt(w) \/ Spawn(w) \/ Register(w) \/ WaitForReady(w)
    \/ KillAttempt(w) \/ StartFailed(w) \/ CheckReady(w) \/ Discard(w)
    \/ DiscardSettle(w) \/ RejectFailed(w) \/ PublishReady(w)

StopStep(t) == StopBegin(t) \/ Sweep(t) \/ SweepKill(t) \/ StopProcess(t)

WorkerStep(w) ==
    /\ pc[Supervisor] # "exited"
    /\ StartStep(w) \/ StopStep(w) \/ Settle(w) \/ RestartCheck(w) \/ Reap(w)

SupervisorStep == StopStep(Supervisor) \/ SettlePass \/ Drain

Requests(w) ==
    RequestStart(w) \/ RequestRestart(w) \/ RequestStop(w) \/ RequestStatus(w)

\* After exit(0) there is no process left to take a step.
Exited == pc[Supervisor] = "exited" /\ UNCHANGED vars

Next ==
    \/ \E w \in Workers : Requests(w) \/ WorkerStep(w)
    \/ RequestExit
    \/ SupervisorStep
    \/ ChildDies
    \/ Exited

Spec == Init /\ [][Next]_vars

\* Threads are scheduled; commands, exits and crashes need not happen.
Fairness ==
    /\ \A w \in Workers : WF_vars(WorkerStep(w))
    /\ WF_vars(SupervisorStep)

FairSpec == Spec /\ Fairness

-----------------------------------------------------------------------------
(* Safety.                                                                 *)

\* A lease is published exactly while the actor is Ready or Degraded, owns a
\* process, and all three belong to the newest generation: what
\* current_lease hands to the Gateway and to Harness Web is never stale
\* (publish_ready, mark_failed, begin_stop, settle_stopped together).
LeaseCoherent ==
    /\ lease # None <=> phase \in Usable
    /\ lease # None <=> process # NoPid
    /\ lease # None => lease = gen /\ lease = desired /\ lease = process.gen

\* Every running child has somebody who will stop it: the actor, the start
\* thread that spawned it, or the stop pass that took it out of the actor.
EveryChildOwned ==
    \A pid \in alive :
        \/ process = pid
        \/ \E w \in Workers : pc[w] \in Owning /\ Child(w) = pid
        \/ \E t \in Threads : pc[t] \in StopPcs /\ taken[t] = pid

\* When the application has exited without the drain deadline, a child can
\* only have survived in one of two places the drain does not look at: the
\* window of spawn_registered between Command::spawn and the registration
\* (or the kill after the second check), and the hands of a concurrent
\* stop_impl that has taken the process and not killed it yet.
ExitSurvivorsExplained ==
    pc[Supervisor] = "exited" /\ ~DeadlineMayFire =>
        \A pid \in alive : \E w \in Workers :
            \/ pc[w] \in {"spawned", "kill"} /\ Child(w) = pid
            \/ pc[w] \in StopPcs /\ taken[w] = pid

\* A live Runtime loses its lease only to a stop pass: no failing, stale or
\* cancelled start and no status poll can revoke it (mark_failed and the
\* reaper work on the generation they were called for).
LeaseOnlyRevokedByStop ==
    [][lease # None /\ lease' = None =>
          \/ process \notin alive
          \/ \E t \in Threads : /\ pc[t] \in {"begin_stop", "settle"}
                                /\ pc'[t] # pc[t]]_vars

\* The actor and its start threads implement LeaseService: a generation is
\* granted at most one lease, only while it is the newest one and still
\* opening, and a cancelled or stopped generation never gets one.
Leases == INSTANCE LeaseService
              WITH epoch <- desired, open <- phase \in Opening

LeaseServiceSafety == Leases!LSSpec

-----------------------------------------------------------------------------
(* Liveness.                                                               *)

\* No interleaving of starts, stops and restarts wedges the actor in a
\* transitional phase, where begin_start would refuse for ever.
TransitionSettles == IsTransitioning ~> ~IsTransitioning

\* A child the actor does not own is published or dead in the end, unless
\* the host exits first.
StrayChildrenEnd ==
    \A pid \in Pids :
        pid \in alive /\ process # pid ~>
            pid \notin alive \/ process = pid \/ pc[Supervisor] = "exited"

\* Once exit was requested the drain ends by itself and the host exits; the
\* 30 s deadline of wait_for_managed_processes is not needed for that.
ShutdownCompletes == quitting ~> pc[Supervisor] = "exited"

-----------------------------------------------------------------------------
(* What the repository says of the Runtime and interleavings refute.       *)

\* "<= 1 managed Runtime process" (an invariant of the client architecture
\* plan): never two children of different generations at once.
OneManagedRuntime ==
    \A p, q \in alive : p.gen = q.gen

\* "old generation event cannot mutate current state": a stop pass settles
\* only a generation it has itself begun to stop.
StoppedBy(t) == pc[t] = "settle" /\ pc'[t] # "settle"
SettleHitsNoLiveLease ==
    [][\A t \in Workers : StoppedBy(t) => lease = None]_vars

\* "Quitting => no new long-lived resource may publish Ready".
NoPublishWhileQuitting ==
    [][quitting /\ lease' # None => lease' = lease]_vars

\* "A final idempotent pass is the no-orphan boundary": nothing is left
\* running when the host has exited.
NoOrphanAtExit == pc[Supervisor] = "exited" => alive = {}
=============================================================================
