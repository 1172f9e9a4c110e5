-------------------------- MODULE GatewayLifecycle --------------------------
(***************************************************************************)
(* The Mobile Gateway's lifecycle (gateway_host/lifecycle.rs and           *)
(* commands.rs) beside the Runtime it borrows its lease from.              *)
(*                                                                         *)
(* The Gateway has two locks: the mutex of GatewayActorState, held only    *)
(* for the length of one action here, and the `lifecycle' mutex (`serial') *)
(* that is held across the joining of a server's threads.                  *)
(*                                                                         *)
(* Three kinds of thread meet.  The main thread runs the synchronous       *)
(* commands one at a time: those of the Gateway, runtime_status and        *)
(* runtime_stop.  A restart runs stop_impl on a blocking thread.  The exit *)
(* task runs the passes of wait_for_managed_processes.  Runtimes come and  *)
(* go by the steps of LeaseService, and a Runtime may die behind its lease *)
(* until a status command of the main thread reaps it.                     *)
(*                                                                         *)
(* A server is named by the Gateway generation it was spawned for.         *)
(***************************************************************************)
EXTENDS LeaseService, FiniteSets

CONSTANTS
    Main,        \* the main thread
    Restarters,  \* blocking threads that run the stop of a restart
    Exit,        \* the task that request_exit spawns
    NoThread,    \* owner of a free mutex
    MaxRuntime,  \* bound on Runtime generations
    MaxGateway   \* bound on Gateway generations

ASSUME ThreadsDiffer == Main # Exit /\ Main \notin Restarters /\ Exit \notin Restarters
ASSUME NobodyIsNoThread == NoThread \notin Restarters \union {Main, Exit}
ASSUME BoundsArePositive == MaxRuntime \in Nat \ {0} /\ MaxGateway \in Nat \ {0}

Threads == {Main, Exit} \union Restarters
NoServer == [gw |-> 0, rt |-> 0]
Servers == [gw : 0..MaxGateway, rt : 0..MaxRuntime]

VARIABLES
    phase,       \* GatewayActorState.phase
    generation,  \* GatewayActorState.generation
    server,      \* GatewayActorState.server
    serial,      \* owner of GatewayActorState.lifecycle
    alive,       \* the process behind the current lease runs
    quitting,    \* AppState.quitting
    listening,   \* servers whose threads run and whose port is bound
    pc,          \* what each thread does next
    back,        \* where a thread goes on after stop_managed_inner
    joining,     \* the server a thread has taken out of the actor to stop it
    resume,      \* where the main thread goes on after live_lease
    cmd          \* the main thread's locals

gwVars == <<phase, generation, server, serial, listening>>
vars == <<lsVars, gwVars, alive, quitting, pc, back, joining, resume, cmd>>
runtime == <<lsVars, alive>>

Phases == {"Stopped", "Starting", "Ready", "Stopping"} \union {"Failed"}
Transitioning == phase \in {"Starting", "Stopping"}

Init ==
    /\ LSInit
    /\ phase = "Stopped" /\ generation = 0 /\ server = NoServer
    /\ serial = NoThread /\ listening = {}
    /\ alive = FALSE /\ quitting = FALSE
    /\ pc = [t \in Threads |-> "idle"]
    /\ back = [t \in Threads |-> "idle"]
    /\ joining = [t \in Threads |-> 0]
    /\ cmd = [lease |-> 0, seen |-> 0, gw |-> 0] /\ resume = "idle"

Goto(t, l) == pc' = [pc EXCEPT ![t] = l]
----------------------------------------------------------------------------
(* stop_managed_inner, under the lifecycle mutex.                          *)

\* Call stop_managed and go on at l.
CallStop(t, l) ==
    /\ Goto(t, "take")
    /\ back' = [back EXCEPT ![t] = l]

\* stop_managed takes the lifecycle mutex.
TakeSerial(t) ==
    /\ pc[t] = "take"
    /\ serial = NoThread
    /\ serial' = t
    /\ Goto(t, "begin_stop")
    /\ UNCHANGED <<runtime, phase, generation, server, listening, quitting, back, joining, resume, cmd>>

\* Mutant: begin_stop hands out the server and keeps it.
BeginStop_keeping_the_server(t) ==
    /\ pc[t] = "begin_stop"
    /\ phase' = IF phase = "Stopped" /\ server = NoServer THEN phase ELSE "Stopping"
    /\ joining' = [joining EXCEPT ![t] = server.gw]
    /\ Goto(t, "join")
    /\ UNCHANGED <<runtime, generation, server, serial, listening, quitting, back, resume, cmd>>

\* GatewayActorState::begin_stop: a start in flight loses its phase here.
BeginStop(t) ==
    /\ pc[t] = "begin_stop"
    /\ phase' = IF phase = "Stopped" /\ server = NoServer THEN phase ELSE "Stopping"
    /\ joining' = [joining EXCEPT ![t] = server.gw]
    /\ server' = NoServer
    /\ Goto(t, "join")
    /\ UNCHANGED <<runtime, generation, serial, listening, quitting, back, resume, cmd>>

\* NativeGateway::stop joins the accept loop and every connection.
Join(t) ==
    /\ pc[t] = "join"
    /\ listening' = listening \ {joining[t]}
    /\ joining' = [joining EXCEPT ![t] = 0]
    /\ Goto(t, "settle")
    /\ UNCHANGED <<runtime, phase, generation, server, serial, quitting, back, resume, cmd>>

\* settle_stopped; stop_managed then drops the lifecycle mutex, and
\* gateway_host_start keeps it for its own begin_start.
Settle(t) ==
    /\ pc[t] = "settle"
    /\ phase' = "Stopped"
    /\ server' = NoServer
    /\ serial' = IF back[t] = "begin_start" THEN serial ELSE NoThread
    /\ Goto(t, back[t])
    /\ UNCHANGED <<runtime, generation, listening, quitting, back, joining, resume, cmd>>
----------------------------------------------------------------------------
(* live_lease, and with it runtime_status: the reaping look at the Runtime. *)

CallLiveLease(l) == Goto(Main, "probe") /\ resume' = l

Probe ==
    /\ pc[Main] = "probe"
    /\ IF lease # 0 /\ ~alive
       THEN lease' = 0 /\ CallStop(Main, "probed") /\ UNCHANGED <<epoch, open>>
       ELSE Goto(Main, "probed") /\ UNCHANGED <<lsVars, back>>
    /\ UNCHANGED <<alive, gwVars, quitting, joining, resume, cmd>>

\* current_lease, after the snapshot released the actor.
Probed ==
    /\ pc[Main] = "probed"
    /\ cmd' = [cmd EXCEPT !.seen = lease]
    /\ Goto(Main, resume)
    /\ UNCHANGED <<runtime, gwVars, quitting, back, joining, resume>>
----------------------------------------------------------------------------
(* gateway_host_start                                                      *)

StartCommand ==
    /\ pc[Main] = "idle"
    /\ ~quitting
    /\ generation < MaxGateway
    /\ CallLiveLease("start")
    /\ UNCHANGED <<runtime, gwVars, quitting, back, joining, cmd>>

\* Under the lifecycle mutex: keep a healthy server of this lease, refuse
\* while transitioning, or stop whatever is there.
StartCheck ==
    /\ pc[Main] = "start"
    /\ cmd' = [cmd EXCEPT !.lease = cmd.seen]
    /\ \/ /\ cmd.seen = 0
          /\ Goto(Main, "idle")
          /\ UNCHANGED <<serial, back>>
       \/ /\ cmd.seen # 0 /\ serial = NoThread
          /\ \/ server # NoServer /\ server.rt = cmd.seen /\ server.gw \in listening
             \/ Transitioning
          /\ Goto(Main, "idle")
          /\ UNCHANGED <<serial, back>>
       \/ /\ cmd.seen # 0 /\ serial = NoThread
          /\ ~(server # NoServer /\ server.rt = cmd.seen /\ server.gw \in listening)
          /\ ~Transitioning
          /\ serial' = Main
          /\ Goto(Main, "begin_stop")
          /\ back' = [back EXCEPT ![Main] = "begin_start"]
    /\ UNCHANGED <<runtime, phase, generation, server, listening, quitting, joining, resume>>

\* GatewayActorState::begin_start, then the lifecycle mutex is dropped.
BeginStart ==
    /\ pc[Main] = "begin_start"
    /\ generation' = generation + 1
    /\ phase' = "Starting"
    /\ serial' = NoThread
    /\ cmd' = [cmd EXCEPT !.gw = generation + 1]
    /\ Goto(Main, "spawn")
    /\ UNCHANGED <<runtime, server, listening, quitting, back, joining, resume>>

\* gateway_host_start returns.
EndStart == Goto(Main, "idle") /\ cmd' = [cmd EXCEPT !.gw = 0]

\* GatewayActorState::fail
Fail(gw) ==
    IF phase = "Starting" /\ generation = gw
    THEN phase' = "Failed" /\ server' = NoServer
    ELSE UNCHANGED <<phase, server>>

\* spawn_native_gateway binds the port, or fails to.
Spawn ==
    /\ pc[Main] = "spawn"
    /\ \/ /\ listening' = listening \union {cmd.gw}
          /\ CallLiveLease("recheck")
          /\ UNCHANGED <<phase, server, cmd>>
       \/ /\ Fail(cmd.gw)
          /\ EndStart
          /\ UNCHANGED <<listening, resume>>
    /\ UNCHANGED <<runtime, generation, serial, quitting, back, joining>>

\* Mutant: quitting was read when the command began, so it is not read again.
Recheck_without_quitting ==
    /\ pc[Main] = "recheck"
    /\ IF cmd.seen # cmd.lease
       THEN /\ listening' = listening \ {cmd.gw}
            /\ Goto(Main, "give_up")
       ELSE /\ Goto(Main, "publish")
            /\ UNCHANGED listening
    /\ UNCHANGED <<runtime, phase, generation, server, serial, quitting, back, joining, resume, cmd>>

\* The lease or the application went away while the server was spawned.
Recheck ==
    /\ pc[Main] = "recheck"
    /\ IF cmd.seen # cmd.lease \/ quitting
       THEN /\ listening' = listening \ {cmd.gw}
            /\ Goto(Main, "give_up")
       ELSE /\ Goto(Main, "publish")
            /\ UNCHANGED listening
    /\ UNCHANGED <<runtime, phase, generation, server, serial, quitting, back, joining, resume, cmd>>

GiveUpStart ==
    /\ pc[Main] = "give_up"
    /\ Fail(cmd.gw)
    /\ EndStart
    /\ UNCHANGED <<runtime, generation, serial, listening, quitting, back, joining, resume>>

\* Mutant: a server that came too late is dropped without being stopped.
Publish_leaking ==
    /\ pc[Main] = "publish"
    /\ serial = NoThread
    /\ IF phase = "Starting" /\ generation = cmd.gw
       THEN /\ server' = [gw |-> cmd.gw, rt |-> cmd.lease]
            /\ phase' = "Ready"
            /\ CallLiveLease("verify")
            /\ cmd' = [cmd EXCEPT !.gw = 0]
       ELSE EndStart /\ UNCHANGED <<server, phase, resume>>
    /\ UNCHANGED <<runtime, generation, serial, listening, quitting, back, joining>>

\* GatewayActorState::publish under both locks; a server that came too late is
\* stopped there and then.
Publish ==
    /\ pc[Main] = "publish"
    /\ serial = NoThread
    /\ IF phase = "Starting" /\ generation = cmd.gw
       THEN /\ server' = [gw |-> cmd.gw, rt |-> cmd.lease]
            /\ phase' = "Ready"
            /\ CallLiveLease("verify")
            /\ cmd' = [cmd EXCEPT !.gw = 0]
            /\ UNCHANGED listening
       ELSE /\ listening' = listening \ {cmd.gw}
            /\ EndStart
            /\ UNCHANGED <<server, phase, resume>>
    /\ UNCHANGED <<runtime, generation, serial, quitting, back, joining>>

\* A Runtime stop may have raced with the publication.
Verify ==
    /\ pc[Main] = "verify"
    /\ IF cmd.seen # cmd.lease
       THEN CallStop(Main, "idle")
       ELSE Goto(Main, "idle") /\ UNCHANGED back
    /\ UNCHANGED <<runtime, gwVars, quitting, joining, resume, cmd>>
----------------------------------------------------------------------------
(* The main thread's other commands.                                       *)

\* gateway_host_status, first look: a server whose accept loop is gone.
StatusCommand ==
    /\ pc[Main] = "idle"
    /\ server # NoServer
    /\ IF server.gw \notin listening
       THEN CallStop(Main, "idle") /\ UNCHANGED <<resume, cmd>>
       ELSE /\ CallLiveLease("verify")
            /\ cmd' = [cmd EXCEPT !.lease = server.rt]
            /\ UNCHANGED back
    /\ UNCHANGED <<runtime, gwVars, quitting, joining>>

\* gateway_host_stop
StopCommand ==
    /\ pc[Main] = "idle"
    /\ CallStop(Main, "idle")
    /\ UNCHANGED <<runtime, gwVars, quitting, joining, resume, cmd>>

\* runtime_status, or any other synchronous caller of status_snapshot.
RuntimeStatus ==
    /\ pc[Main] = "idle"
    /\ CallLiveLease("idle")
    /\ UNCHANGED <<runtime, gwVars, quitting, back, joining, cmd>>
----------------------------------------------------------------------------
(* runtime::stop_impl: stop the Gateway, the Runtime, and the Gateway again. *)

\* runtime_stop on the main thread, or the stop of a restart.
StopRuntime(t) ==
    /\ t # Exit
    /\ pc[t] = "idle"
    /\ t = Main \/ ~quitting
    /\ CallStop(t, "revoke")
    /\ UNCHANGED <<runtime, gwVars, quitting, joining, resume, cmd>>

\* RuntimeActor::begin_stop and settle_stopped: either withdraws the lease or
\* cancels the start it finds.
Withdraw(t, at, next) ==
    /\ pc[t] = at
    /\ lease' = 0 /\ open' = FALSE /\ alive' = FALSE
    /\ next
    /\ UNCHANGED <<epoch, gwVars, quitting, joining, resume, cmd>>

\* Mutant: the Gateway is stopped before the Runtime only.
SettleRuntime_without_second_stop(t) ==
    Withdraw(t, "settle_runtime", Goto(t, "idle") /\ UNCHANGED back)

BeginStopRuntime(t) == Withdraw(t, "revoke", Goto(t, "settle_runtime") /\ UNCHANGED back)
SettleRuntime(t) == Withdraw(t, "settle_runtime", CallStop(t, "idle"))
----------------------------------------------------------------------------
(* request_exit and wait_for_managed_processes                             *)

RequestExit ==
    /\ ~quitting
    /\ quitting' = TRUE
    /\ CallStop(Exit, "pass1")
    /\ UNCHANGED <<runtime, gwVars, alive, joining, resume, cmd>>

FirstPass == \/ Withdraw(Exit, "pass1", Goto(Exit, "pass1_settle") /\ UNCHANGED back)
             \/ Withdraw(Exit, "pass1_settle", Goto(Exit, "wait") /\ UNCHANGED back)

\* Idle, or the deadline of 30 seconds.
WaitIdle ==
    /\ pc[Exit] = "wait"
    /\ CallStop(Exit, "pass2")
    /\ UNCHANGED <<runtime, gwVars, quitting, joining, resume, cmd>>

LastPass == \/ Withdraw(Exit, "pass2", Goto(Exit, "pass2_settle") /\ UNCHANGED back)
            \/ Withdraw(Exit, "pass2_settle", Goto(Exit, "exited") /\ UNCHANGED back)

Exited == pc[Exit] = "exited"
----------------------------------------------------------------------------
(* The Runtime side, and accidents.                                        *)

OpenRuntime == Open /\ epoch < MaxRuntime /\ UNCHANGED alive
GrantRuntime == Grant /\ alive' = TRUE
FailRuntime == GiveUp /\ UNCHANGED alive
RuntimeDies == alive /\ alive' = FALSE /\ UNCHANGED lsVars

Elsewhere ==
    /\ OpenRuntime \/ GrantRuntime \/ FailRuntime \/ RuntimeDies
    /\ UNCHANGED <<gwVars, quitting, pc, back, joining, resume, cmd>>

\* The accept loop of the published server panics.
AcceptLoopDies ==
    /\ server.gw \in listening
    /\ listening' = listening \ {server.gw}
    /\ UNCHANGED <<runtime, phase, generation, server, serial, quitting, pc, back, joining, resume, cmd>>
----------------------------------------------------------------------------
StopSteps(t) == TakeSerial(t) \/ BeginStop(t) \/ Join(t) \/ Settle(t)
StopRuntimeSteps(t) == BeginStopRuntime(t) \/ SettleRuntime(t)
MainSteps ==
    Probe \/ Probed \/ StartCheck \/ BeginStart \/ Spawn \/ Recheck \/ GiveUpStart
      \/ Publish \/ Verify
ExitSteps == FirstPass \/ WaitIdle \/ LastPass
Steps(t) ==
    \/ StopSteps(t)
    \/ t = Main /\ MainSteps
    \/ t # Exit /\ StopRuntimeSteps(t)
    \/ t = Exit /\ ExitSteps

Commands == StartCommand \/ StatusCommand \/ StopCommand \/ RuntimeStatus
              \/ (\E t \in Threads : StopRuntime(t)) \/ RequestExit

Next ==
    \/ /\ ~Exited
       /\ (\E t \in Threads : Steps(t)) \/ Commands \/ Elsewhere \/ AcceptLoopDies
    \/ Exited /\ UNCHANGED vars

Spec == Init /\ [][Next]_vars

\* Threads are scheduled, and joins and binds are bounded in time.
Fairness == \A t \in Threads : WF_vars(~Exited /\ Steps(t))
FairSpec == Spec /\ Fairness
----------------------------------------------------------------------------
Labels == {"idle", "take", "begin_stop", "join", "settle", "probe", "probed",
    "start", "begin_start", "spawn", "recheck", "give_up", "publish", "verify",
    "revoke", "settle_runtime", "pass1", "pass1_settle", "wait", "pass2",
    "pass2_settle", "exited"}

TypeOK ==
    /\ epoch \in 0..MaxRuntime /\ open \in BOOLEAN /\ lease \in 0..MaxRuntime
    /\ phase \in Phases
    /\ generation \in 0..MaxGateway
    /\ server \in Servers
    /\ serial \in Threads \union {NoThread}
    /\ listening \subseteq 1..MaxGateway
    /\ alive \in BOOLEAN /\ quitting \in BOOLEAN
    /\ pc \in [Threads -> Labels]
    /\ back \in [Threads -> Labels]
    /\ joining \in [Threads -> 0..MaxGateway]
    /\ cmd \in [lease : 0..MaxRuntime, seen : 0..MaxRuntime, gw : 0..MaxGateway]
    /\ resume \in Labels

\* A server that listens is the one the actor has published, or a thread is on
\* its way to publish or to stop it: no race of a start with stops of the
\* Gateway, of the Runtime or of the application loses a bound port.
EveryServerOwned ==
    listening \subseteq {server.gw, cmd.gw} \union {joining[t] : t \in Threads}

\* Ready says the same as a published server, and that server is of the newest
\* generation, while the phase is written by threads that hold no common lock
\* across a start.
ReadyMeansNewestServer ==
    /\ phase = "Ready" <=> server # NoServer
    /\ server # NoServer => server.gw = generation

\* Once the first pass of the exit has stopped the Gateway, none is ever
\* published again: a start that read quitting too early was cancelled by that
\* pass, a later one reads quitting before it publishes.
Drained ==
    \/ pc[Exit] \in {"pass1", "pass1_settle", "wait", "pass2", "pass2_settle", "exited"}
    \/ back[Exit] = "pass2"
NoGatewayAfterDrain == Drained => server = NoServer

\* A published Gateway whose Runtime lease was withdrawn or replaced is taken
\* down, whichever of the stops and the start noticed.
GatewayFollowsLease ==
    (server # NoServer /\ server.rt # lease)
        ~> (server = NoServer \/ server.rt = lease \/ Exited)

\* The Gateway never stays Starting or Stopping, which would refuse every start.
GatewaySettles == Transitioning ~> (~Transitioning \/ Exited)

\* Whatever stops and starts cross, both.
GatewayConverges == GatewayFollowsLease /\ GatewaySettles

\* "Gateway Ready => current RuntimeLease exists", as the test plan has it.
ReadyHasCurrentLease == phase = "Ready" => lease # 0 /\ server.rt = lease
=============================================================================
