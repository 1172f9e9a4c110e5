------------------------------ MODULE Updater ------------------------------
(***************************************************************************)
(* The application update (update.rs, update_actor.rs) and the way out of  *)
(* the application (supervisor.rs) beside the Host Kernel: install-update  *)
(* and quit are commands of the kernel's slow queue, but the tray, the     *)
(* close button and the end of the control window ask for the exit         *)
(* directly.  What an exit stops is RuntimeLifecycle's and                 *)
(* GatewayLifecycle's; here it only waits until their operations are over. *)
(*                                                                         *)
(* The command update_install is registered besides (bridge.rs:46), but no *)
(* capability of capabilities/ holds the permission update-install, so no  *)
(* window can call it: the slow queue is the only caller.                  *)
(*                                                                         *)
(* One action is one use of the UpdateActor or of the quitting flag, or    *)
(* what runs between two awaits.  The plugin tauri_plugin_updater, GitHub  *)
(* and the installer are external.                                         *)
(***************************************************************************)
EXTENDS HostKernel

CONSTANTS
    Current,     \* the version that runs, CARGO_PKG_VERSION
    Published    \* versions that a release or a signed manifest may name

Identifiers == [numeric : BOOLEAN, value : Nat]
Versions == [core : Nat \X Nat \X Nat, prerelease : Seq(Identifiers)]

ASSUME VersionsAssumption == Current \in Versions /\ Published \subseteq Versions

VARIABLES
    phase,       \* UpdatePhase of the UpdateActor
    update,      \* where update_install, run by the slow consumer, stands
    target,      \* the version it is about to install
    installed,   \* the version on disk
    quitting,
    leaving,     \* the task of request_exit
    app          \* "running", or how it has ended

updateVars == <<phase, update, target, installed, quitting, leaving, app>>
updaterVars == <<vars, updateVars>>

Steps_of_update == {"none", "admitted", "check", "verify", "download",
                    "install", "installed", "restart", "wait", "stop"}

UpdaterTypeOK ==
    /\ phase \in {"Idle", "Checking", "Downloading", "Installing", "Restarting", "Failed"}
    /\ update \in Steps_of_update
    /\ target \in Published \cup {Current} /\ installed \in Published \cup {Current}
    /\ quitting \in BOOLEAN
    /\ leaving \in {"no", "wait", "stop"}
    /\ app \in {"running", "exited", "restarted", "replaced"}

UpdaterInit ==
    /\ Init
    /\ phase = "Idle" /\ update = "none"
    /\ target = Current /\ installed = Current
    /\ quitting = FALSE /\ leaving = "no" /\ app = "running"

-----------------------------------------------------------------------------
(* Versions.                                                               *)

Sign(a, b) == IF a < b THEN -1 ELSE IF a > b THEN 1 ELSE 0

\* compare_prerelease of two identifiers at one place.
CompareIdentifiers(a, b) ==
    IF a.numeric = b.numeric THEN Sign(a.value, b.value)
    ELSE IF a.numeric THEN -1 ELSE 1

\* zip stops at the end of the shorter list.
ComparePrerelease(a, b) ==
    LET common == 1 .. (IF Len(a) < Len(b) THEN Len(a) ELSE Len(b))
        differs == {i \in common : CompareIdentifiers(a[i], b[i]) # 0}
    IN  IF a = <<>> \/ b = <<>> THEN Sign(Len(b), Len(a))
        ELSE IF differs = {} THEN Sign(Len(a), Len(b))
        ELSE LET i == CHOOSE i \in differs : \A j \in differs : i <= j
             IN  CompareIdentifiers(a[i], b[i])

\* compare_versions; the core is compared as a tuple.
CompareVersions(a, b) ==
    LET differs == {i \in 1 .. 3 : a.core[i] # b.core[i]}
    IN  IF differs = {} THEN ComparePrerelease(a.prerelease, b.prerelease)
        ELSE LET i == CHOOSE i \in differs : \A j \in differs : i <= j
             IN  Sign(a.core[i], b.core[i])

IsNewer(latest, current) == CompareVersions(latest, current) = 1

\* Precedence as https://semver.org words it in its item 11.
Before(a, b) ==
    \E i \in DOMAIN b :
        /\ i <= Len(a) + 1 /\ \A j \in 1 .. i - 1 : a[j] = b[j]
        /\ i <= Len(a) =>
               \/ a[i].numeric /\ ~b[i].numeric
               \/ a[i].numeric = b[i].numeric /\ a[i].value < b[i].value

Precedes(a, b) ==
    \/ \E i \in 1 .. 3 : a.core[i] < b.core[i] /\ \A j \in 1 .. i - 1 : a.core[j] = b.core[j]
    \/ /\ a.core = b.core /\ a.prerelease # <<>>
       /\ b.prerelease = <<>> \/ Before(a.prerelease, b.prerelease)

-----------------------------------------------------------------------------
(* update_install.                                                         *)

Serves(l, c) == serving[l].step = "reconcile" /\ Request(ServedBy(l)).command = c

\* The command ends.  Guard and result go out of scope together: the guard
\* leaves the actor alone once it restarts.
Ends(result, afterwards) ==
    /\ \E l \in Lanes : /\ Serves(l, "install_update") /\ Reconcile(l)
                        /\ serving'[l].result = result
    /\ update' = "none"
    /\ phase' = afterwards
    /\ UNCHANGED <<target, installed, quitting, leaving, app>>

Fails == Ends("failed", IF phase = "Restarting" THEN phase ELSE "Failed")

Continue(step) == update' = step /\ UNCHANGED vars

\* The quitting flag is looked at here and never again.
AdmitUpdate ==
    /\ update = "none" /\ \E l \in Lanes : Serves(l, "install_update")
    /\ IF quitting
       THEN Ends("failed", phase)
       ELSE /\ Continue("admitted")
            /\ UNCHANGED <<phase, target, installed, quitting, leaving, app>>

\* UpdateActorState::begin.
BeginUpdate ==
    /\ update = "admitted"
    /\ IF phase \in {"Idle", "Failed"}
       THEN /\ phase' = "Checking" /\ Continue("check")
            /\ UNCHANGED <<target, installed, quitting, leaving, app>>
       ELSE Ends("failed", phase)

\* update_check: the latest release of GitHub; drafts and previews are none.
CheckRelease ==
    /\ update = "check"
    /\ \/ Fails
       \/ Ends("ok", "Idle")
       \/ \E latest \in Published :
              /\ latest.prerelease = <<>> /\ IsNewer(latest, Current)
              /\ target' = latest /\ Continue("verify")
              /\ UNCHANGED <<phase, installed, quitting, leaving, app>>

MayInstall_any(manifest) == TRUE

\* The release and the signed manifest, published one after the other, have
\* to name the same version.
MayInstall(manifest) == manifest = target

\* Key, endpoint and the updater's own check; the manifest may be missing.
VerifyManifest ==
    /\ update = "verify"
    /\ \/ Fails
       \/ \E manifest \in Published :
              /\ MayInstall(manifest)
              /\ target' = manifest
              /\ phase' = "Downloading" /\ Continue("download")
              /\ UNCHANGED <<installed, quitting, leaving, app>>

\* download_and_install: the package is fetched and its signature verified ...
DownloadUpdate ==
    /\ update = "download"
    /\ \/ Fails
       \/ /\ Continue("install")
          /\ UNCHANGED <<phase, target, installed, quitting, leaving, app>>

\* ... and put in place; on Windows the installer takes over and the process
\* exits at once, after one pass of stop_managed_processes.
InstallUpdate ==
    /\ update = "install"
    /\ \/ Fails
       \/ /\ installed' = target /\ phase' = "Installing" /\ Continue("installed")
          /\ UNCHANGED <<target, quitting, leaving, app>>
       \/ /\ installed' = target /\ app' = "replaced"
          /\ UNCHANGED <<vars, phase, update, target, quitting, leaving>>

PrepareRestart ==
    /\ update = "installed"
    /\ phase' = "Restarting" /\ Continue("restart")
    /\ UNCHANGED <<target, installed, quitting, leaving, app>>

\* stop_managed_processes, then wait_for_managed_processes.
BeginRestart ==
    /\ update = "restart"
    /\ quitting' = TRUE /\ Continue("wait")
    /\ UNCHANGED <<phase, target, installed, leaving, app>>

-----------------------------------------------------------------------------
(* The way out.                                                            *)

\* request_exit: the first one starts the task.
RequestExit ==
    /\ leaving' = IF quitting THEN leaving ELSE "wait"
    /\ quitting' = TRUE
    /\ UNCHANGED <<phase, update, target, installed, app>>

\* The tray, the close button, the close of the control window.
AskExit == RequestExit /\ UNCHANGED vars

QuitCommand ==
    /\ \E l \in Lanes : Serves(l, "quit") /\ Reconcile(l) /\ serving'[l].result = "ok"
    /\ RequestExit

\* wait_for_managed_processes ends once all operations are idle; the update's
\* is one of them.
LeaveWhenIdle ==
    /\ leaving = "wait" /\ phase \in {"Idle", "Failed", "Restarting"}
    /\ leaving' = "stop"
    /\ UNCHANGED <<vars, phase, update, target, installed, quitting, app>>

LeaveWhenOverdue_idle == LeaveWhenIdle

\* Or after 30 s.
LeaveWhenOverdue ==
    /\ leaving = "wait"
    /\ leaving' = "stop"
    /\ UNCHANGED <<vars, phase, update, target, installed, quitting, app>>

\* The last pass over the processes, and handle.exit.
Exit ==
    /\ leaving = "stop" /\ app' = "exited"
    /\ UNCHANGED <<vars, phase, update, target, installed, quitting, leaving>>

\* The update waits for the operations of others.
RestartWhenOver ==
    /\ update = "wait" /\ Continue("stop")
    /\ UNCHANGED <<phase, target, installed, quitting, leaving, app>>

Restart ==
    /\ update = "stop" /\ app' = "restarted"
    /\ UNCHANGED <<vars, phase, update, target, installed, quitting, leaving>>

-----------------------------------------------------------------------------

UpdateStep ==
    \/ AdmitUpdate \/ BeginUpdate \/ CheckRelease \/ VerifyManifest
    \/ DownloadUpdate \/ InstallUpdate \/ PrepareRestart \/ BeginRestart
    \/ RestartWhenOver \/ Restart

LeaveStep == LeaveWhenIdle \/ LeaveWhenOverdue \/ Exit

\* The kernel's other steps.
OtherCommand(l) == Request(ServedBy(l)).command \notin {"install_update", "quit"}
KernelStep(step) == step /\ UNCHANGED updateVars

Running(step) == app = "running" /\ step

UpdaterNext ==
    Running(\/ UpdateStep \/ LeaveStep \/ AskExit \/ QuitCommand
            \/ \E r \in Requests : KernelStep(Submit(r))
            \/ \E n \in DOMAIN calls : KernelStep(Send(n))
            \/ \E l \in Lanes : KernelStep(\/ Bookkeeping(l)
                                           \/ Reconcile(l) /\ OtherCommand(l))
            \/ KernelStep(RuntimeStep))

\* As in HostKernel, while the application runs; the timers and the tasks of
\* request_exit run on.  A download may take for ever.
UpdaterSpec ==
    /\ UpdaterInit /\ [][UpdaterNext]_updaterVars
    /\ \A n \in CallNumbers : WF_updaterVars(Running(KernelStep(Send(n))))
    /\ \A l \in Lanes : WF_updaterVars(Running(KernelStep(Bookkeeping(l))))
    /\ WF_updaterVars(Running(KernelStep(Reconcile("fast"))))
    /\ WF_updaterVars(Running(LeaveStep))
    /\ WF_updaterVars(Running(PrepareRestart \/ BeginRestart \/ RestartWhenOver \/ Restart))

-----------------------------------------------------------------------------
(* Properties.                                                             *)

\* What is put in place is a stable release, newer than what runs by the
\* precedence of semver.org, whatever release and manifest say at what time.
InstalledIsNewer ==
    installed # Current =>
        Precedes(Current, installed) /\ installed.prerelease = <<>>

\* "Quit is a lifecycle escape hatch" (tray.rs:159): it ends the application
\* although the slow queue is held up by a download that does not end.
QuittingEnds == quitting ~> app # "running"

\* "A slow command cannot starve the window/reload surface": a fast command
\* is answered although a slow one never ends, unless the application does.
FastCallsAnswered ==
    \A n \in CallNumbers :
        (n \in DOMAIN calls /\ Request(n).command \in Fast)
            ~> ((n \in DOMAIN calls /\ calls[n].at = "answered") \/ app # "running")

-----------------------------------------------------------------------------
(* What the repository says of the exit and these interleavings refute.    *)

\* "HarnessDock is exiting, the update is refused" (update.rs:311).
NoUpdateWhileQuitting ==
    [][quitting /\ phase # "Checking" => phase' # "Checking"]_updaterVars

\* "Shutdown admission is already closed" (supervisor.rs:47): an exit that
\* has waited for all operations cuts no installation short.  It stops
\* waiting after 30 s; and an update admitted before the exit may begin after
\* the exit has found everything idle, for begin does not look at quitting.
ExitSparesInstallation ==
    [][leaving = "stop" /\ app' = "exited" => update # "install"]_updaterVars

\* "The shell close button always means exit" (harness_shell.rs:431).
ExitIsNotARestart == leaving # "no" => app # "restarted"
=============================================================================
