# HarnessDock in TLA+

This directory models and verifies the control logic of HarnessDock: the Tauri
desktop host (`apps/tauri/src-tauri/src`, Rust) and the TypeScript packages it
shares state with (`packages/*/src`).  Paths below are relative to the
repository; Rust files without a directory are in `apps/tauri/src-tauri/src`.

## 1. Inventory

| Part | State it keeps | Operations | Talks to | What is hard |
|---|---|---|---|---|
| Runtime lifecycle: `runtime_actor.rs`, `runtime/{control,start,spawn,types}.rs`, `process.rs`, `supervisor.rs`, `lifecycle.rs` | actor (phase, generation, owned process, lease, token) behind a mutex; registry of starting pids; `quitting` | start, stop, restart, status (reaper), exit | Gateway (stops it), Surface, UI commands | several procedures take the mutex repeatedly and release it in between; children die; exit races everything |
| Start plan: `runtime/start.rs`, `runtime/safe_mode.rs`, `plugin_quarantine.rs` | quarantine file, work directory | direct / profile / quarantine / normal / recovery / rescue attempts | process registry, disk | which fallback follows which failure; the quarantine record is written, expired and cleared along the way |
| Harness surface: `surface_actor.rs`, `harness_window/*`, `startup.rs` | phase, operation slot, navigation id, bound generation | open, reload, restart, safe mode, diagnostics, page-load callbacks, 20 s watchdog, recovery page | Runtime lease, WebView | late callbacks of old navigations; guards that release another operation's slot |
| Gateway lifecycle: `gateway_host/{lifecycle,commands,server,connection}.rs` | phase, gateway generation, server handle, lifecycle mutex | start, stop, status, pairing, revoke | Runtime lease | server must not outlive the generation it proxies to |
| Gateway sessions: `gateway_host/{handler,request,http_io,types}.rs`, `gateway.rs` | pairing code, sessions, connect tickets, rate limits, open connections | pair, connect, proxy, revoke, prune | mobile clients | one-time codes and tickets, expiry, limits, shutdown of open connections |
| Host kernel: `host_kernel.rs`, `reconciler.rs`, `capability_broker.rs`, `bridge.rs` | two command queues, dedupe window, event log | submit, reconcile, record event | every actor | duplicates across the two queues, eviction, sequence numbers |
| Application update: `update.rs`, `update_actor.rs` | update phase, `quitting` | check, install, restart | slow queue of the kernel, supervisor | an install that lasts holds up the queue and races the exit path |
| Runtime lease file: `packages/bootstrap/src/runtime-lease.ts` | `runtime.lock`, `active.json` on a shared disk | acquire, update, heartbeat, release, inspect | other host processes | crashes, stale locks, races between processes without any lock but the file |
| Runtime update: `packages/bootstrap/src/runtime-update.ts` | version directories, staging directories, activation state | prepare, activate, rollback | disk, network | crash between any two file operations, concurrent managers |
| Client services: `packages/bootstrap/src/{client-services,client-command-bus,client-core,runtime-provider,update-state,gateway}.ts` | a registry of handlers | dispatch with time limit and abort, connect, pair | Host protocol, client runtime | a late answer after a timeout |
| Client runtime: `packages/client-runtime/src/{runtime,process,plugin-quarantine}.ts` | child, work directory, stop request and its generation, calls in flight, quarantine record | start, stop, recovery boot, termination ladders | dsh processes, disk | both calls suspend at a dozen awaits and overlap |
| Client runtime image: `packages/client-runtime/src/{fetch-runtime,prune,prepare-cli,integrity}.ts` | the packed Runtime image | fetch, prune, prepare | network, disk | integrity, cache keys |
| VS Code host: `apps/vscode/src`, `packages/bootstrap/src/{local-runtime-provider,rollback}.ts` | panel, controller | open, close, restart | client runtime | two opens at once |
| Foundations not wired into a running path: `runtime_supervisor*.rs`, `shutdown_manager.rs`, `startup_orchestrator.rs`, `diagnostic_*` | small state machines | – | – | – |
| Presentation: tray, menus, splash, web assets, VS Code views, docs-sync, scripts | none that matters here | – | – | pure I/O |

What would make each part correct (section 14 lists where the code falls short of it):

* Runtime: a lease is published exactly while the newest generation owns a
  live-managed process; cancelled generations never publish; every child has an
  owner; the actor never wedges; exit leaves nothing behind.
* Surface: only the current navigation of the current generation becomes visible;
  one surface operation at a time.
* Gateway: no server without the lease it was started for; pairing codes and
  tickets are used once; stopping ends every connection.
* Kernel: a request id is executed once within the dedupe window; events are
  numbered without gaps and in order.
* Lease file: one live owner; a crashed owner is replaced.
* Runtime update: an installed version is complete, verified and never changes; the
  activation record names installed versions only; a crash at any point leaves a usable
  state.
* Start plan: plugins are isolated automatically only after a recovery without them has
  worked; a start believes only its own child; no failure leads back to an earlier one.
* Application update: only a newer stable release is installed; quitting ends the
  application, whatever the update is doing.
* Client runtime: no process is forgotten; nothing comes to life after a stop; every
  call settles.

## 2. Plan

The modules, in the order of their dependence:

1. `LeaseService` (what a Runtime lease promises) and `RuntimeLifecycle` (how the
   actor keeps it), with `RuntimeLifecycle_proofs`.
2. `HarnessSurface`, with `HarnessSurface_proofs`, and `HostKernel`, both on top of
   `LeaseService`; `DiagnosticsPage` and `Updater` on top of `HostKernel`; what is proved
   of these three is in `HostKernel_proofs`.
3. `RuntimeLeaseFile`: the lease that the hosts share.
4. `GatewayLifecycle`, on top of `LeaseService`, with `GatewayLifecycle_proofs`;
   `GatewaySessions`, the inside of one server, with `GatewaySessions_proofs`.
5. `RuntimeStore` (what the directory of Runtime versions promises) and
   `RuntimeUpdate` (how its clients keep it), with `RuntimeUpdate_proofs`.
6. `StartPlan`: which launch attempt follows which failure, beside the quarantine record,
   with `StartPlan_proofs`.
7. `ClientRuntime`, the Node counterpart of both.  What is proved of it and of
   `RuntimeLeaseFile`, the two modules of the Node hosts, is in `NodeHost_proofs`.

Left: the image of the client Runtime as far as it has failures of its own; `TypeOK` of
the kernel, the updater and the page, of which the proofs use the part they need.

How the modules compose: `HarnessSurface`, `HostKernel` and `GatewayLifecycle`
extend `LeaseService` and take its steps as their environment; `RuntimeLifecycle`
is proved to implement it.  So each of them runs beside every lease history the
Runtime lifecycle can produce (and some it cannot), without its 10^6 states.
`StartPlan` and `GatewaySessions` are the insides of one step of `RuntimeLifecycle`
(a launch) and of `GatewayLifecycle` (a join).

`TypeOK` is proved of every module but `HostKernel` and the two on top of it, where it
documents the state; the runs spend their properties on other things.

## 3. Runtime lifecycle

`RuntimeLifecycle.tla` is the core.  One action is one critical section of the
RuntimeActor mutex, or one operating-system effect between two of them, executed
by a thread: a *worker* serving a start, stop, restart or status command, or the
*supervisor* task of `request_exit`.  A thread's program counter `pc` and its
locals (`mine`, `attempt`, `sweep`, `taken`) are functions of the thread.  A
restart is the stop procedure followed by the start procedure, as in
`restart_managed_mode`.  Child processes are named by generation and attempt, and
`alive` is the operating system's view of them.

The Gateway calls these procedures make are not in this module; they touch none of
its variables.  Mutex poisoning is left out.  `runtime_stop` is a synchronous
command (main thread), the stop of a restart runs on a blocking thread; the model
lets any worker run either.

Bounds: two workers, two generations, one or two launch attempts, which is enough for a
stale start thread, a stopper and a newer generation to meet.  A third generation adds
states but no new relation between a thread and the published generation (it is still
older, equal or not begun), which is what the proofs below use for any number.

* `runtime_safety`: `LeaseCoherent`, `EveryChildOwned`, `ExitSurvivorsExplained`,
  `LeaseOnlyRevokedByStop`, and that the module implements `LeaseService`
  (`LeaseServiceSafety`).
* `runtime_live`: two racing restarts; `TransitionSettles`, `StrayChildrenEnd`,
  `ShutdownCompletes`.  Fairness: every thread that can take a step eventually does
  (OS threads and tokio tasks are scheduled, `wait_for_ready` has a 120 s deadline,
  kills are bounded).  Commands, exits and crashes are never assumed to happen, and
  the 30 s drain deadline is switched off to show that the drain does not need it.
  One launch attempt per start: the next attempt and the dump of the configuration between
  two attempts, which may wait for ever (section 11), are not in this run.  `Drained` is the
  Runtime and the registry, whose part in the drain this module is about; the drain waits
  for Gateway, update and surface as well (`lifecycle.rs:15`), see sections 7, 9 and 4.

Proved in `RuntimeLifecycle_proofs.tla` for any number of workers, generations and
attempts: `TypeCorrect`, `LeaseIsCoherent`, `ImplementsLeaseService`, `NoChildIsLost`
(`EveryChildOwned`), `SurvivorsAreExplained` (`ExitSurvivorsExplained`) and
`OnlyAStopRevokes` (`LeaseOnlyRevokedByStop`).
`LeaseCoherent` is not inductive: a `mark_failed` of a start thread working for the
published generation would break it.  `LeaseInv` adds that start threads work for
pairwise distinct generations that have begun and are not published, and that the
actor's generation is the newest or none.  `Classify` reduces every step to one of
the few ways a step can touch the actor, and both the invariant and the refinement
are proved over that classification.

For the children, `OwnedInv` adds that whoever has taken the actor's process has it only
until the end of that stop pass (`TakenShape`).  `ExitInv` adds, to that and to `LeaseInv`,
that a start thread past `register` has its child in the registry (`Registered`), so that
once the supervisor has seen the registry empty no start thread holds a registered child
(`NoneHeld`), and that the exit comes after its passes with nothing owned (`ExitShape`).

## 4. Harness surface

`HarnessSurface.tla` models the one Harness window.  `SurfaceActor` is `phase`,
`operation`, `nav` and `navGen`; one action is one critical section of its mutex, or
one look at the Runtime or the WebView in between.  The WebView is `doc` (what it
shows), `requested` (a navigation it has admitted) and `finished` (load events that
have not been delivered); the page-load callback runs as a process of its own
(`page`), and so do the 20 s timers (`watchdogs`, `alarms`).  Commands of menus, tray,
kernel and pages are served by `Workers`; `Startup` is the task of `startup.rs`.  Each
Runtime generation listens on its own port, so an origin is a generation.  Whose ports
answer (`listening`) is separate from the lease: a stop withdraws the lease and only then
ends the process, with a grace period (`control.rs:229-234`), so an old Runtime may answer
beside the lease of the next one, and a listener may die under its lease.

* `surface_safety`: `VisibleIsNotOlder`, `LoadIsWatched`.  The
  startup task runs beside one command that opens or closes the window; two Runtime
  generations make callbacks and timers stale.
* `surface_live`: two workers that refresh or restart (they are what the slot has to keep
  apart), one generation: `SurfaceSettles`, which is that the slot is freed
  (`SlotIsFreed`) and that a page stops loading (`LoadingSettles`).  Fairness: tasks and
  timers are scheduled by tokio; neither a WebView event nor a lease is ever assumed to
  come.

`VisibleIsNotOlder`: what is visible is never a page of an *older* Runtime than the surface
is bound to.  It does not rest on the listener, which may answer for a Runtime that has been
replaced, but on the order in which generations are read.  The page may be *newer*:
`VisibleShowsItsGeneration`, which asks for equality, holds with one command beside the
startup task and is refuted with two.  A command that has checked an old lease begins its
navigation after one of the new lease has, and the startup fallback, which holds the old
lease from its last poll (`startup.rs:87`), or a callback that still finds the old listener,
publishes that navigation while the window shows the new Runtime's page.

`HarnessSurface_proofs.tla` proves `TypeCorrect`, `NoOldGenerationIsShown`
(`VisibleIsNotOlder`) and `EveryLoadIsWatched` for any number of tasks, commands and
generations.  `LoadIsWatched` is inductive with the types.  For the other, `SurfaceInv` says
that generations only grow: tasks hold no generation that has not begun (`HeldAreOld`), a
navigation that is under way is not older than the document it replaces
(`DocumentsAreInOrder`), the fallback and the callback have seen a document at least as new
as what they hold (`RevealsNotOlder`, `PageKnows`).

The state space grows with the product of callbacks, timers and commands: with
open and close beside the startup task `surface_safety` has 4.0 million states.  The
statements that interleavings refute are in section 14.

Not in it: what is painted, popups, menus, the quarantine choices of the recovery page.

## 5. Host kernel and diagnostics page

`HostKernel.tla`: a call is queued in the fast or the slow lane (`LaneOf`), and each
lane has one consumer whose steps are look-up, authorise, run, number, emit, cache,
reply; the dedupe window (`dedupe`, `order`) and the event number (`sequence`) are
shared.  What a command does is one tick of `world`; whether it succeeds is open.

* `kernel` runs the kernel together with `Updater` (section 9): two calls out of three
  requests (two of one id, for different commands), a window of one id, so that every
  insertion evicts, and one place per queue, so that callers wait.  `OncePerWindow`,
  `RepeatsAgree`, and `FastCallsAnswered`: a slow command that never ends does not stop
  the fast lane.  A third call could add a second eviction, which meets the same state as
  the first.  Fairness: consumers and waiting callers are tasks; a fast command ends; a
  slow one is not assumed to.

`DiagnosticsPage.tla` adds the settings page, which never polls: it hears an event,
arms a timer, reads a snapshot (state first, event number after it) and drops
snapshots older than the one it shows.  A read may fail at any point: the page then keeps
what it shows, with the error, and reads again only if a refresh was asked for meanwhile or
an event comes (`failed`; both properties except a page that shows such an error).  `page`
checks `AskedRefreshShows` and
`QuietPageIsCurrent` with two commands of the host beside one refresh of the page.  The
fairness is that of a page's event loop.

`HostKernel_proofs.tla` proves these for any set of requests, any number of calls, window
and capacity, of the kernel alone (`KernelOncePerWindow`, `KernelRepeatsAgree`) and, since
the updater and the page only add to it, of the application:

* `UpdaterRefinesKernel`: every step of the application is one of the kernel or leaves its
  variables alone.  The two theorems carry over as `RunsOncePerWindow` and
  `RepeatsGetOneAnswer`.
* `OncePerWindow` needs the condition that no request id is used in both lanes
  (`NoSharedIds`); `ReusedIdIsRefused` in section 14 shows what happens otherwise.  Callers
  draw a fresh id for each action (`apps/tauri/web/settings.js:20`), so ids that recur are
  resends of one request, which meet it.  `WindowInv` says that the window is exactly the
  end of what was processed (`WindowIsTail`) and that what a consumer is processing is not
  in it (`FlightFresh`).
* `RepeatsAgree` needs no condition.  `AnswerInv` follows an answer from its one execution
  through the consumer's reply and the window (`AnswersTrue`), and shows that two consumers
  never reply for one execution (`OneReply`).
* `QuietPageStaysCurrent`: `PageInv` says of each event that the page has been handed that
  it is rendered, or that a timer, a read in progress or a pending refresh will cover its
  number, or that the last read has failed (`HeardIsCovered`).

## 6. Runtime lease file

`RuntimeLeaseFile.tla`: hosts share two files and nothing else.  One action is one file
operation, and any host may die between two of them.  `lock.written` distinguishes the
empty file that `open 'wx'` makes from the written record; `attempt` counts the three
rounds of `acquireRuntimeLease`.  Process ids are not reused, and a host acquires once.  The
calls of one handle (`Calls`) may overlap; they share one temporary file
(`runtime-lease.ts:173`), so that `active.json` may come out unreadable.

* `lease_file`: two hosts with the three rounds of the code.  Safety:
  `SettledOwnerStays`, `ActiveWasHeld`.  Liveness: `LoneHostAcquires`: a lone survivor
  gets the lease whatever debris it finds.  Fairness: a host that has started a procedure
  goes on unless it dies.  Two hosts are an owner and one with a stale view; the
  theorems below cover any number.

Mutual exclusion does not hold, so what is proved is what is left of it:
`SettledOwnerIsSafe` says that an owner loses the lease only to a host that was already
*poised* to remove the lock unseen.  `NodeHost_proofs.tla` proves it, and
`LeaseFileTypeCorrect` and `ActiveNamesHolders`, for any number of hosts and rounds.
`ActiveWasHeld` needs that only hosts whose acquire has returned beat (`HoldersBeat`)
and the types that a round is left while acquiring (`RoundsLeft`).

## 7. Gateway lifecycle

`GatewayLifecycle.tla`: the Gateway actor (`phase`, `generation`, `server`) and its
second mutex `serial`, held while the threads of a server are joined.  `gateway_host_*`,
`runtime_status` and `runtime_stop` are synchronous Tauri commands and therefore share
the main thread; the stop of a restart runs on a blocking thread and the exit in a task
of its own.  `stop_managed` and `live_lease` are procedures with a return label (`back`,
`resume`).  A Runtime can die behind its lease (`alive`), and a status command reaps it.

* `gateway`: `EveryServerOwned`, `ReadyMeansNewestServer`, `NoGatewayAfterDrain`, and
  `GatewayConverges`: a Gateway without its lease goes down (`GatewayFollowsLease`) and
  every operation ends (`GatewaySettles`).  Two Gateway and two
  Runtime generations, one restarting thread: a start, two stops and the exit can
  overlap.  Fairness: threads are scheduled; joins are bounded, which `GatewaySessions`
  shows (`StopCompletes`).

`GatewayLifecycle_proofs.tla` proves `TypeCorrect`, `NoServerIsLost`, `ReadyIsNewest` and
`DrainIsFinal` for any number of restarting threads and generations.  None of them is
inductive.  `IInv` adds who holds the lifecycle mutex (`SerialHeld`), which thread can
be in which procedure and where it returns to (`Continuations`, `OwnProcedures`), that a
stopper leaves the actor without server until it releases the mutex
(`NoneWhileStopping`), that the start in flight is named by `cmd.gw` and is the newest
generation (`StartNamed`), and that after the first exit pass no start can publish
(`NothingToPublish`).  Each action has a lemma of its own.

## 8. Gateway sessions

`GatewaySessions.tla`: the threads of one server.  The accept loop counts and registers a
connection and spawns its worker; a worker reads one request and pairs, exchanges a
ticket, or checks its session, dials the Runtime, registers that socket too, sends, marks
the session and copies until either side ends.  `streams` is the table that the stop
sweeps, `shut` what it has shut down.  Expiry is a removal at any time, because every
reader prunes the registry under its lock first; sessions are named by their pairing.

* `gateway_sessions`: `ActiveIsExact`, `StoppedIsQuiet`, `SessionsAreSound` (tickets name
  sessions, a code pairs once, a session counts as bootstrapped only after its launch
  request has reached the Runtime) and, under fairness, `StopCompletes`; three connections
  against a limit of two, two codes, two sessions, one pair request per rate window.
  Fairness: threads are scheduled; reading a request and dialling have timeouts; writing
  to the Runtime and copying have none, so they are fair only once their socket has been
  shut down.

`GatewaySessions_proofs.tla` proves `TypeCorrect`, `CounterIsExact`, `StopLeavesNothing` and
`SessionsStaySound` for any set of connections and any limits.  The counter's range is not
part of the first induction: `CountInv` proves that it equals the number of connections
in service (`ActiveIsExact`), a finite set, and stays within the limit, so that the subtraction
never wraps.  `ServerInv` adds in whose hands a connection is (`AcceptShape`), when one
of its sockets can be in the table (`StreamShape`), and that the loop ends with its workers
before the stop does (`StopShape`).  `RegistryInv` adds that a code that can still pair has
paired nothing (`CodesFresh`) and that a worker about to mark a session has sent its launch
request (`LaunchShape`).

Not in it: HTTP framing, headers, cookies, the health page, failing `try_clone` (the
same as a failing dial or spawn).

## 9. Application update

`Updater.tla` extends `HostKernel`: `install-update` and `quit` are commands of the slow
queue, and what its consumer does in `update_install` takes several steps (`update`):
admission by the quitting flag, `begin`, the release on GitHub, the signed manifest,
download, installation, restart.  Beside it run the exits of tray, close button and
command (`quitting`, `leaving`), with the 30 s after which the drain stops waiting.  `app`
says how the application has ended: exited, restarted, or replaced by the Windows
installer.  What an exit stops belongs to sections 3 and 7.  `update_install` is registered as
a command of its own too (`bridge.rs:46`), but no capability under `capabilities/` holds its
permission, so no window can call it: the slow queue is its only caller, and the refusal of
a second update by `begin` is never needed.

The comparison of versions (`IsNewer`) is checked over all versions of two core numbers
with up to two pre-release identifiers against the precedence of semver.org, stated
independently (`Precedes`), by the assumption `ComparesByPrecedence` of `MCUpdater`.  The
theorem of that name in `HostKernel_proofs.tla` says it of all versions, of any length; it
goes by the first identifier in which two versions differ (the well-foundedness of the
numbers), not by induction over the sequence.

* `kernel` (also section 5): `InstalledIsNewer`, `QuittingEnds`.  Three published versions:
  one with a higher patch number that is older, a newer one, and its preview.  Fairness:
  as in section 5; tasks and timers of an exit go on.  A download, and with it the slow
  queue, may take for ever.

`OnlyNewerIsInstalled` proves `InstalledIsNewer` for any published versions.  Its invariant
`TargetWanted` says that from the second check (`verify`) to the installation the target is a
published stable version newer than the running one, whatever the release said.

## 10. Runtime update

`RuntimeUpdate.tla`: clients share version directories and one activation record, and
nothing else.  One action is one file operation of `prepare`, `activate` or `rollback`, so
that clients interleave between any two and may die there.  A file is what its digest
says or `Bad`; a release is a manifest of a version, and two releases may claim the same
version.  Files and metadata of an installed directory may rot, before or after another
client has verified them.  Every call trims the version it is given before it looks for its
directory (runtime-update.ts:113), but `activate` compares and records the version as it
was given (390, 396), so an activation is a release and a spelling of its version, and
activating the active release under another spelling is a switch.

* `runtime_update`: `InstalledIsVerified`, `PreparedIsInstalled`, `StoreSafety` (the module
  implements `RuntimeStore`).  Two clients, two versions, one of them in two releases, two
  files (one that is shared and one that differs), two spellings; one file and one metadata
  file may rot.  No liveness is claimed: `fetchFile` is the caller's, and `prepare` awaits
  it without a timeout or a way to abort (328, 333).  Two clients are a winner and a loser of the rename, or two writers of the record;
  the theorems cover any number.

`RuntimeUpdate_proofs.tla` proves `TypeCorrect`, `InstalledStaysVerified`,
`PreparedStaysInstalled` and `ImplementsStore` for any clients, releases and numbers of
files.  `InstalledIsVerified` is not inductive: `IInv` adds that the files of a staging
directory before the one under work have passed their check (`StagedIsVerified`), that
whoever has prepared or is activating a release may rely on it (`JobIsInstalled`), and
that the record on disk and every copy a client has read of it, however old, name
installed releases (`RecordsAreGood`).  That the way back leads to *another* release is not
among them: it does not (`WayBackIsAnotherRelease`, section 14).

## 11. Start plan

`StartPlan.tla`: the thread of each start, from the startup policy to the attempt it comes
up with.  An attempt is rescue, direct, profile, quarantine, normal or recovery; `Try`
begins one, and `AfterFailure` says which follows.  `FirstAttempt` and `RecoveryPlan` decide
what each isolates, the latter from the plugin rows of a dump or, without one, from the
user's patches (`RecoveryRows`).  The dump is its helper process: it is spawned, waited for
with a deadline, and its pipes are read to their end (`ReadDump`).  That reading has no
deadline and looks at no token (`runtime/spawn.rs:308`), and what the helper has started is
ended only after it (320), so an orphan that keeps the pipes holds the start up
(`Held`).  The child of an attempt may exit, by itself or in the sweep of a stop, at any
time, also after `wait_for_ready` has looked last (`spawn.rs:230`): `start_blocking` returns
`Ok` without looking again (`start.rs:420`), and a child that has died by then is left to
`RuntimeLifecycle`'s reaper.

The quarantine record and its temporary file are names for files (`record`, `tmp`), so that
a start may go on filling a file that another start has renamed; filling may fail and leave
a torn file.  `commit_replace` is its four file operations.  A newer start may begin once
the older one is cancelled, and the older one goes on until it looks.  `earned` remembers
what a recovery has come up without.

* `start_plan`: `QuarantineIsEarned`; `ComesUpOnItsOwnChild` (ready file and child are those
  of the last attempt, which has not been ended, in a work directory that is still there;
  not that the child still runs); `StartsEnd` (every start ends or is `Held`).  Two starts,
  every plan, a scope with and one without external plugins, crashes of the application.
  Fairness: a start thread goes on, for its waits have deadlines; reading a dump has none
  and is not enabled while an orphan holds the pipes, and no fairness ends an orphan.  Two
  starts are the cancelled one and its successor, or the ones before and after a crash.

`StartPlan_proofs.tla` proves `TypeCorrect`, `QuarantineAlwaysEarned` and `UpMeansOwnChild`
for any rows, plans, starts and files.  `PlanInv` says of every *file*, whatever its name
at the moment, that a record it holds was earned unless it cannot be read or has expired
(`RecordsEarned`): two starts that write through one temporary name cannot break that.  Of
every start (`ThreadOK`) it says that what it runs or is about to write was earned
(`Earns`), and that the child it waits for is its own (`OnItsOwnChild`).  The proof needs
that the mark for "no record" is neither a scope nor an attempt (`NoneAssumption`).

## 12. Client runtime

`ClientRuntime.tla`: the object `DshRuntime` of the Node hosts.  JavaScript runs to the
next `await`, so an action is what lies between two; `start` and `stop` are the calls in
flight, each with the point it waits at and the child it holds in a local variable.  Calls
that join one in flight change nothing.  A spawn may throw at once.  Termination ladders end with the process gone or
given up (`survivors`), throw (a failing `taskkill`), or run in the background (a dump that
has timed out).

* `client`: `NoProcessIsLost`, `StopIsFinal`, `NothingRevives` and, under fairness,
  `CallsSettle`; two starts and two stops, which is the longest chain of waiting: a start
  waits for a stop that waits for a start.  Fairness: file operations, timers and ladders
  end.

`NodeHost_proofs.tla` proves `TypeCorrect`, `NoProcessIsEverLost`, `StopsAreFinal` and
`NothingIsRevived` for any number of calls.  `IInv` adds which point of a start has a
process in hand and when the field names the same one (`StartShape`), that a stop in
flight keeps the field empty (`StopShape`), and that it waits for the one start that may
be under way (`StopOrder`).

## 13. What is proved, checked, and left out

Theorems hold for all values of the constants under the named assumptions in the modules
(identifiers differ, bounds are natural or positive numbers).  They were checked by TLC
first, on the runs above, and the inductive invariants of the proof modules as well.  Two
theorems, `KernelOncePerWindow` and `RunsOncePerWindow`, have a hypothesis beyond the
modules' assumptions, `NoSharedIds`.

Every invariant and every safety action property that a run checks is also a theorem.  Only
model-checked are the liveness properties (`TransitionSettles`, `StrayChildrenEnd`,
`ShutdownCompletes`, `SurfaceSettles`, `FastCallsAnswered`, `QuittingEnds`,
`AskedRefreshShows`, `LoneHostAcquires`, `GatewayConverges`, `StopCompletes`,
`StartsEnd`, `CallsSettle`): the prover has no rules for fairness and `ENABLED`.

Deadlock checking is on for the Runtime lifecycle and the Gateway modules (where the end
of the application is a step of its own).  It is off where the system may stop: hosts
that have died or given up, workers without further commands, bounds used up.

Poisoned mutexes and panics are left out, except the accept loop's.  Bounds on
generations, calls, requests and attempts are constants with names starting in `Max`.

Not modelled:

* the command bus and the other client services: a registry of handlers, whose state lives
  within one call;
* the image of the client Runtime: sequential file and network work, an await that may
  fail to `ClientRuntime`;
* the VS Code host: presentation around `DshRuntime`.  Reading it shows that two opens
  begun while nothing runs each start a Runtime (`apps/vscode/src/extension.ts:60-118`),
  the second replacing the first in `runtime`, although `controller.ts:9` speaks of a
  single shared one;
* supervisor, shutdown manager, orchestrator and diagnostics stores: no running path calls
  them yet;
* presentation, tray, menus, documentation sync and scripts, except the tray's exit;
* the menus and popups of the Harness window, the handlers that kernel commands are
  delegated to, and the buttons of the settings page, which is why these components are
  listed as partly modelled.

## 14. Refuted statements

Some sentences of the repository are refuted by an interleaving.  Each is a definition
beside the properties of its module, with a comment that names the sentence; none of them
has a run of its own.  A counterexample is found by exchanging the properties of a cfg of
the module for the definition (one with `[]`, `~>` or `<>` as a `PROPERTY`, the others as an
`INVARIANT`), under the cfg's bounds unless others are given.

| Module | Definition | Bounds | What happens |
|---|---|---|---|
| `RuntimeLifecycle` | `NoOrphanAtExit` | `RuntimeLifecycle_safety.cfg` | a child that is between two owners survives the drain of the exit (`supervisor.rs:77`) |
| | `OneManagedRuntime` | same | two overlapping stops: the quicker one settles, and the next Runtime starts beside the child that the slower one is still ending |
| | `SettleHitsNoLiveLease` | same | a late stop wipes the lease of a newer Runtime: `settle_stopped` takes no generation |
| | `NoPublishWhileQuitting` | same | a start publishes after `quitting` has been set and before the first stop pass |
| `HarnessSurface` | `ExclusiveOperations` | two workers, refresh and restart, `MaxEpoch` 1, `MaxRequests` 3 | a failing restart frees the slot twice, the second time it is another operation's |
| | `VisibleIsItsNavigation` | two workers, open, `MaxEpoch` 1, `MaxRequests` 2 | an old load event makes a newer navigation visible: the event carries no navigation id |
| | `OldEventFailsNothing` | two workers, open, `MaxEpoch` 2, `MaxRequests` 2, `FairSpec` | an old generation's load event sends the new one to recovery |
| | `VisibleMatchesGeneration` | two workers, open, `MaxEpoch` 1, `MaxRequests` 1 | a visible page outlives its Runtime's lease |
| | `VisibleShowsItsGeneration` | two workers, startup and open, `MaxEpoch` 2, `MaxRequests` 2 (some minutes) | the startup fallback publishes a navigation that an old command has begun over a newer document (`startup.rs:87`) |
| `HostKernel` | `EventsInOrder` | `Updater.cfg` | numbering and emitting are two steps of two concurrent consumers |
| | `ReusedIdIsRefused` | `SPECIFICATION Spec`, requests of one id for a fast and a slow command, `MaxCalls` 2, `MaxEpoch` 0, `Window` 1, `Capacity` 1 | the two lanes run the same id at once: look-up and insertion are two critical sections (`host_kernel.rs:214`) |
| | `DispatchChecksGeneration` | `SPECIFICATION Spec`, requests of a page, `MaxCalls` 2, `MaxEpoch` 2, `Window` 2, `Capacity` 1 | a queued command of an old page runs under the next Runtime generation |
| `DiagnosticsPage` | `PageCatchesUp` | `DiagnosticsPage.cfg` | a snapshot with old state and a new number hides an event |
| `Updater` | `NoUpdateWhileQuitting` | `Updater.cfg` | the flag is looked at before `begin`; the exit is asked for in between (`update.rs:307`) |
| | `ExitSparesInstallation` | same | the drain counts the update's phase (`lifecycle.rs:26`), but gives up after 30 s (`supervisor.rs:68`); and an update admitted before the exit begins after the drain has found everything idle |
| | `ExitIsNotARestart` | same | an exit asked for while an update is about to restart ends in the restart (`harness_shell.rs:431`) |
| `RuntimeLeaseFile` | `OneLiveHolder` | `RuntimeLeaseFile.cfg` | the lock is empty between creation and writing, and looks stale |
| | `ReclaimSparesNextOwner` | three hosts | the reclaiming rename takes a live host's new lock |
| | `LockNamesOwner` | two hosts | a failing write of `active.json` leaves a lock nobody holds |
| | `NoRefusalByActiveAlone` | two hosts | with an unreadable lock, `active.json` alone refuses a host |
| `GatewayLifecycle` | `ReadyHasCurrentLease` | `MaxRuntime` 2, `MaxGateway` 1 | the Gateway is Ready for a while after its lease was withdrawn |
| `RuntimeUpdate` | `WayBackIsLastActive` | `RuntimeUpdate.cfg` | two clients read the record, and the later write drops the version the earlier one activated |
| | `WayBackIsAnotherRelease` | same | activating the active release under another spelling of its version makes it its own way back (`runtime-update.ts:390`, `396`) |
| `StartPlan` | `OfficialStaysEnabled` | `StartPlan.cfg` | without a dump the rows come from the user's patches, where an official row that is mentioned looks external (`runtime/config.rs:254`) |
| | `CancelKeepsRecord` | same | a start cancelled during its quarantined attempt takes the failure for the record's (`runtime/start.rs:296`) |
| | `WrittenIsWhole` | same | a cancelled start and its successor write through one temporary file: what is renamed is the other's, half written (`plugin_quarantine.rs:147`) |
| | `OrphansAreEnded` | same | what the helper of a dump has started keeps its pipes open, and the start waits for their end before it ends the orphans (`runtime/spawn.rs:308`, `320`) |
| `ClientRuntime` | `WaitingStartProceeds` | `ClientRuntime.cfg` | a start that has waited for a stop finds `stopRequested` still set and gives up (`runtime.ts:157`) |
| | `ReadyIsNotStopped` | same | a stop comes while the recovered boot writes its record; the start resolves with what has been stopped (`runtime.ts:507`) |
| | `StopCleansUp` | same | a ladder that throws leaves the work directory (`runtime.ts:556`) |

One sentence is contradicted without any interleaving, so it has no definition: "Automatic
recovery persists only plugins attributed to a concrete startup failure"
(`runtime/safe_mode.rs:4`).  `recovery_plan` (`runtime/config.rs:136`) uses the diagnostic
only to say which of the candidates it suspects; it returns all external candidates, the
recovery isolates all of them, and when it comes up all of them are written to the record
(`runtime/start.rs:421`).  So `RecoveryPlan` takes no diagnostic.
