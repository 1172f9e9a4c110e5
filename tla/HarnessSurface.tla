--------------------------- MODULE HarnessSurface ---------------------------
(***************************************************************************)
(* The Harness Web window of the Tauri host: SurfaceActor                  *)
(* (surface_actor.rs), the commands that open, refresh, restart and close  *)
(* it (harness_window/window.rs, commands.rs), the page-load callback and  *)
(* the 20 s watchdog (harness_window/navigation.rs), the startup           *)
(* coordinator (startup.rs) and the recovery page (splash.rs).             *)
(*                                                                         *)
(* The Runtime beneath is taken as what RuntimeLifecycle implements, the   *)
(* LeaseService, plus one fact the lease does not tell: which Runtimes'    *)
(* web listeners answer.  A stop withdraws the lease before it ends the    *)
(* process, so an old listener may answer without a lease, even beside the *)
(* lease of the next Runtime; and a listener may die under its lease.      *)
(* Each generation listens on a port of its own (--port 0), so an origin   *)
(* is a generation.                                                        *)
(*                                                                         *)
(* One action is one critical section of the SurfaceActor mutex, or one    *)
(* reading of the Runtime or of the WebView between two of them.  What is  *)
(* painted (splash, overlay, decorations, focus, window.show and hide) is  *)
(* left out, except that showing the window may fail.                      *)
(***************************************************************************)
EXTENDS LeaseService, FiniteSets

CONSTANTS
    Workers,       \* tasks serving Tauri commands, menu, tray, kernel
    Commands,      \* what they are asked for
    Startup,       \* the task spawned by startup.rs
    MaxEpoch,      \* bound: Runtime generations
    MaxRequests    \* bound: commands ever served

ASSUME StartupAssumption == Startup \notin Workers
ASSUME CommandsAssumption ==
    Commands \subseteq {"startup", "open", "refresh", "restart", "close"}
ASSUME BoundsAssumption == MaxEpoch \in Nat /\ MaxRequests \in Nat

Tasks == Workers \cup {Startup}
None == 0
Navs == [nav : Nat, gen : Nat]
NoNav == [nav |-> 0, gen |-> None]

VARIABLES
    listening,   \* generations whose web listener answers
    \* SurfaceActor, guarded by its mutex
    phase,       \* SurfacePhase; primary_visible is phase = "Visible"
    operation,   \* the operation slot
    nav,         \* navigation_id
    navGen,      \* runtime_generation
    \* the rest of AppState the surface uses
    recovery,    \* startup_recovery_error is set
    quitting,
    cleanups,    \* passes of stop_managed_processes over the surface
    \* the WebView
    exists,      \* the harness window has been created
    doc,         \* the document it shows: navigation and origin
    requested,   \* a navigation it has admitted and not committed
    finished,    \* PageLoad::Finished events not delivered yet
    \* callbacks and timers
    page,        \* the page-load callback on the main thread
    watchdogs,   \* armed 20 s timers
    alarms,      \* expired timers about to show the recovery page
    \* the tasks
    pc, job,
    held,        \* the lease a task has read
    mine,        \* the navigation it has begun
    reopen,      \* reopen_epoch of a restart
    requests

actorVars == <<phase, operation, nav, navGen>>
appVars == <<recovery, quitting, cleanups>>
webVars == <<exists, doc, requested, finished>>
timerVars == <<watchdogs, alarms>>
localVars == <<job, held, mine, reopen, requests>>
runtimeVars == <<lsVars, listening>>
vars == <<runtimeVars, actorVars, appVars, webVars, page, timerVars, pc,
          localVars>>

-----------------------------------------------------------------------------

Phases == {"Hidden", "Loading", "Visible", "Failed"}
Operations == {"Idle", "Refresh", "Restart"}
Guarded == {"refresh", "restart"}
RestartPcs == {"cancel", "epoch", "restarting", "recheck"}
OpenPcs == {"open_check", "open_decide", "begin_nav", "begin_build",
            "navigate", "build", "recover"}
Pcs == {"idle", "claim", "boot", "poll", "reveal", "revealed", "refresh_read",
        "close", "caller_recovers", "drop"} \cup RestartPcs \cup OpenPcs
PagePcs == {"idle", "lease", "nav", "check", "publish", "show", "recover"}
NoPage == [at |-> "idle", event |-> NoNav, gen |-> None, nav |-> 0]

TypeOK ==
    /\ epoch \in 0 .. MaxEpoch /\ open \in BOOLEAN /\ lease \in 0 .. MaxEpoch
    /\ listening \subseteq 1 .. MaxEpoch
    /\ phase \in Phases /\ operation \in Operations
    /\ nav \in Nat /\ navGen \in Nat
    /\ recovery \in BOOLEAN /\ quitting \in BOOLEAN /\ cleanups \in 0 .. 2
    /\ exists \in BOOLEAN /\ doc \in Navs /\ requested \in Navs
    /\ finished \subseteq Navs
    /\ page \in [at : PagePcs, event : Navs, gen : Nat, nav : Nat]
    /\ watchdogs \subseteq Navs /\ alarms \subseteq Navs
    /\ pc \in [Tasks -> Pcs]
    /\ job \in [Tasks -> Commands \cup {"none", "startup"}]
    /\ held \in [Tasks -> Nat] /\ mine \in [Tasks -> Nat]
    /\ reopen \in [Tasks -> Nat]
    /\ requests \in 0 .. MaxRequests

Init ==
    /\ LSInit /\ listening = {}
    /\ phase = "Hidden" /\ operation = "Idle" /\ nav = 0 /\ navGen = None
    /\ recovery = FALSE /\ quitting = FALSE /\ cleanups = 0
    /\ exists = FALSE /\ doc = NoNav /\ requested = NoNav /\ finished = {}
    /\ page = NoPage /\ watchdogs = {} /\ alarms = {}
    /\ pc = [t \in Tasks |-> IF t = Startup /\ "startup" \in Commands
                             THEN "boot" ELSE "idle"]
    /\ job = [t \in Tasks |-> IF t = Startup THEN "startup" ELSE "none"]
    /\ held = [t \in Tasks |-> None]
    /\ mine = [t \in Tasks |-> 0]
    /\ reopen = [t \in Tasks |-> 0]
    /\ requests = 0

GoTo(t, where) == pc' = [pc EXCEPT ![t] = where]

\* The task ends and forgets its locals.
Return(t) ==
    /\ GoTo(t, "idle")
    /\ job' = [job EXCEPT ![t] = "none"]
    /\ held' = [held EXCEPT ![t] = None]
    /\ mine' = [mine EXCEPT ![t] = 0]
    /\ reopen' = [reopen EXCEPT ![t] = 0]

-----------------------------------------------------------------------------
(* SurfaceActor: one operator per method, applied under the mutex.         *)

CanBeginOperation == operation = "Idle" /\ phase # "Loading"

EndOperation == operation' = "Idle"

BeginNavigation(g) ==
    /\ nav' = nav + 1
    /\ navGen' = g
    /\ phase' = "Loading"

IsCurrent(n, g) == nav = n /\ navGen = g

FinishNavigation(n, g) ==
    IF IsCurrent(n, g) /\ phase = "Loading"
    THEN phase' = "Visible" /\ UNCHANGED <<operation, nav, navGen>>
    ELSE UNCHANGED actorVars

FailNavigation(n, g) ==
    IF IsCurrent(n, g)
    THEN phase' = "Failed" /\ UNCHANGED <<operation, nav, navGen>>
    ELSE UNCHANGED actorVars

CancelNavigation_keeping_loading ==
    /\ nav' = nav + 1
    /\ navGen' = None
    /\ UNCHANGED phase

CancelNavigation ==
    /\ nav' = nav + 1
    /\ navGen' = None
    /\ phase' = "Hidden"

\* show_startup_recovery fails whatever navigation is current and frees the
\* operation slot, whoever holds it.
ShowStartupRecovery ==
    /\ recovery' = TRUE
    /\ phase' = IF navGen # None THEN "Failed" ELSE phase
    /\ EndOperation
    /\ UNCHANGED <<nav, navGen>>

-----------------------------------------------------------------------------
(* Reading the Runtime and the WebView.                                    *)

\* current_runtime_lease, and runtime_listener_reachable of its address.
Reachable(g) == g # None /\ g \in listening

\* allowed_runtime_navigation: the origin of the current lease only.
AllowedNavigation(g) == lease # None /\ g = lease

\* The WebView admits a navigation and forgets the one it had not committed.
RequestDocument(n, g) ==
    requested' = IF AllowedNavigation(g) THEN [nav |-> n, gen |-> g]
                                         ELSE requested

-----------------------------------------------------------------------------
(* Commands.                                                               *)

Request(w, what, where) ==
    /\ pc[w] = "idle" /\ what \in Commands
    /\ requests < MaxRequests
    /\ requests' = requests + 1
    /\ job' = [job EXCEPT ![w] = what]
    /\ GoTo(w, where)
    /\ UNCHANGED <<runtimeVars, actorVars, appVars, webVars, page, timerVars,
                   held, mine, reopen>>

RequestOpen(w) == Request(w, "open", "open_check")
RequestRefresh(w) == Request(w, "refresh", "claim")
RequestRestart(w) == Request(w, "restart", "claim")
RequestClose(w) == Request(w, "close", "close")

\* claim_surface_operation: the guard lives until the task reaches "drop".
Claim(w) ==
    /\ pc[w] = "claim"
    /\ IF CanBeginOperation
       THEN /\ operation' = IF job[w] = "refresh" THEN "Refresh" ELSE "Restart"
            /\ GoTo(w, IF job[w] = "refresh" THEN "refresh_read" ELSE "cancel")
            /\ UNCHANGED <<job, held, mine, reopen>>
       ELSE Return(w) /\ UNCHANGED operation
    /\ UNCHANGED <<runtimeVars, phase, nav, navGen, appVars, webVars, page,
                   timerVars, requests>>

\* The task ends; SurfaceOperationGuard::drop frees the slot.
Drop(t) ==
    /\ pc[t] = "drop"
    /\ IF job[t] \in Guarded THEN EndOperation ELSE UNCHANGED operation
    /\ Return(t)
    /\ UNCHANGED <<runtimeVars, phase, nav, navGen, appVars, webVars, page,
                   timerVars, requests>>

Close(w) ==
    /\ pc[w] = "close"
    /\ CancelNavigation
    /\ GoTo(w, "drop")
    /\ UNCHANGED <<runtimeVars, operation, appVars, webVars, page, timerVars,
                   localVars>>

-----------------------------------------------------------------------------
(* harness_open_impl, for open, for a refresh without a window, for the    *)
(* end of a restart and for startup.                                       *)

\* restart_harness_web_impl and startup show the recovery page once more.
AfterError(t) == IF job[t] \in {"restart", "startup"} THEN "caller_recovers"
                                                      ELSE "drop"
AfterOpen(t) == IF job[t] = "startup" THEN "poll" ELSE "drop"

\* Refused while quitting, without a reachable lease, or for a URL of
\* another origin.
OpenCheck(t) ==
    /\ pc[t] = "open_check"
    /\ \/ /\ ~quitting /\ Reachable(lease)
          /\ held' = [held EXCEPT ![t] = lease]
          /\ GoTo(t, "open_decide")
       \/ /\ GoTo(t, AfterError(t))
          /\ UNCHANGED held
    /\ UNCHANGED <<runtimeVars, actorVars, appVars, webVars, page, timerVars,
                   job, mine, reopen, requests>>

\* A healthy visible document is only brought to the front, unless its URL
\* still holds a launch token.
OpenDecide(t) ==
    /\ pc[t] = "open_decide"
    /\ \/ /\ exists /\ doc.gen = held[t] /\ phase = "Visible" /\ ~recovery
          /\ GoTo(t, AfterOpen(t))
       \/ exists /\ GoTo(t, "begin_nav")
       \/ ~exists /\ GoTo(t, "begin_build")
    /\ UNCHANGED <<runtimeVars, actorVars, appVars, webVars, page, timerVars,
                   localVars>>

Begin(t) ==
    /\ pc[t] \in {"begin_nav", "begin_build"}
    /\ BeginNavigation(held[t])
    /\ mine' = [mine EXCEPT ![t] = nav + 1]
    /\ GoTo(t, IF pc[t] = "begin_nav" THEN "navigate" ELSE "build")
    /\ UNCHANGED <<runtimeVars, operation, appVars, webVars, page, timerVars,
                   job, held, reopen, requests>>

ArmWatchdog_forgotten(t) == UNCHANGED watchdogs

ArmWatchdog(t) ==
    watchdogs' = watchdogs \cup {[nav |-> mine[t], gen |-> held[t]]}

\* window.navigate, window.reload or the window builder, then the watchdog.
\* Two tasks that both found no window cannot both build it.
Navigate(t) ==
    /\ pc[t] \in {"navigate", "build"}
    /\ \/ /\ pc[t] = "build" => ~exists
          /\ exists' = TRUE
          /\ RequestDocument(mine[t], held[t])
          /\ ArmWatchdog(t)
          /\ GoTo(t, AfterOpen(t))
          /\ UNCHANGED <<actorVars, doc, finished>>
       \/ /\ FailNavigation(mine[t], held[t])
          /\ GoTo(t, "recover")
          /\ UNCHANGED <<webVars, watchdogs>>
    /\ UNCHANGED <<runtimeVars, appVars, page, alarms, localVars>>

Recover(t) ==
    /\ pc[t] \in {"recover", "caller_recovers"}
    /\ ShowStartupRecovery
    /\ GoTo(t, IF pc[t] = "recover" THEN AfterError(t) ELSE "drop")
    /\ UNCHANGED <<runtimeVars, quitting, cleanups, webVars, page, timerVars,
                   localVars>>

-----------------------------------------------------------------------------
(* harness_reload_web and restart_harness_web_impl.                        *)

RefreshRead(w) ==
    /\ pc[w] = "refresh_read"
    /\ held' = [held EXCEPT ![w] = lease]
    /\ GoTo(w, CASE lease = None               -> "drop"
                 [] lease # None /\ ~exists    -> "open_check"
                 [] lease # None /\ exists     ->
                        IF Reachable(lease) THEN "begin_nav" ELSE "recover")
    /\ UNCHANGED <<runtimeVars, actorVars, appVars, webVars, page, timerVars,
                   job, mine, reopen, requests>>

\* The generation that has to be exceeded by the restart is kept in held.
RestartCancel(w) ==
    /\ pc[w] = "cancel"
    /\ CancelNavigation
    /\ held' = [held EXCEPT ![w] = epoch]
    /\ GoTo(w, "epoch")
    /\ UNCHANGED <<runtimeVars, operation, appVars, webVars, page, timerVars,
                   job, mine, reopen, requests>>

RestartEpoch(w) ==
    /\ pc[w] = "epoch"
    /\ reopen' = [reopen EXCEPT ![w] = nav]
    /\ GoTo(w, "restarting")
    /\ UNCHANGED <<runtimeVars, actorVars, appVars, webVars, page, timerVars,
                   job, held, mine, requests>>

\* restart_managed returns a newer Runtime, or an error.
RestartRuntime(w) ==
    /\ pc[w] = "restarting"
    /\ \/ lease > held[w] /\ GoTo(w, "recheck")
       \/ GoTo(w, "caller_recovers")
    /\ UNCHANGED <<runtimeVars, actorVars, appVars, webVars, page, timerVars,
                   localVars>>

\* A surface that has been closed or navigated meanwhile is left alone.
RestartRecheck(w) ==
    /\ pc[w] = "recheck"
    /\ IF nav # reopen[w]
       THEN GoTo(w, "drop")
       ELSE GoTo(w, "open_check") \/ GoTo(w, "caller_recovers")
    /\ UNCHANGED <<runtimeVars, actorVars, appVars, webVars, page, timerVars,
                   localVars>>

-----------------------------------------------------------------------------
(* startup.rs: boot, then reveal_clean_runtime_fallback.                   *)

Boot(t) ==
    /\ pc[t] = "boot"
    /\ \/ lease # None /\ GoTo(t, "open_check")
       \/ GoTo(t, "caller_recovers")
    /\ UNCHANGED <<runtimeVars, actorVars, appVars, webVars, page, timerVars,
                   localVars>>

Poll_ignoring_the_document(t) ==
    /\ pc[t] = "poll"
    /\ \/ /\ ~quitting /\ phase # "Visible" /\ exists
          /\ Reachable(lease)
          /\ held' = [held EXCEPT ![t] = lease]
          /\ GoTo(t, "reveal")
       \/ GoTo(t, "drop") /\ UNCHANGED held
    /\ UNCHANGED <<runtimeVars, actorVars, appVars, webVars, page, timerVars,
                   job, mine, reopen, requests>>

\* Up to 50 polls; five clean ones in a row count as one here.
Poll(t) ==
    /\ pc[t] = "poll"
    /\ \/ /\ ~quitting /\ phase # "Visible" /\ exists
          /\ Reachable(lease) /\ doc.gen = lease
          /\ held' = [held EXCEPT ![t] = lease]
          /\ GoTo(t, "reveal")
       \/ GoTo(t, "drop") /\ UNCHANGED held
    /\ UNCHANGED <<runtimeVars, actorVars, appVars, webVars, page, timerVars,
                   job, mine, reopen, requests>>

Reveal(t) ==
    /\ pc[t] = "reveal"
    /\ FinishNavigation(nav, held[t])
    /\ GoTo(t, IF phase' # phase THEN "revealed" ELSE "poll")
    /\ UNCHANGED <<runtimeVars, appVars, webVars, page, timerVars, localVars>>

\* window.show
Revealed(t) ==
    /\ pc[t] = "revealed"
    /\ GoTo(t, "drop") \/ GoTo(t, "caller_recovers")
    /\ UNCHANGED <<runtimeVars, actorVars, appVars, webVars, page, timerVars,
                   localVars>>

-----------------------------------------------------------------------------
(* The WebView and its page-load callback, finish_harness_load.            *)

\* A document is committed; its Finished event is delivered some time later.
Commit ==
    /\ requested # NoNav
    /\ doc' = requested
    /\ finished' = finished \cup {requested}
    /\ requested' = NoNav
    /\ UNCHANGED <<runtimeVars, actorVars, appVars, exists, page, timerVars,
                   pc, localVars>>

\* An event whose URL is not the current one is ignored.
PageFinished ==
    /\ page.at = "idle"
    /\ \E event \in finished :
          /\ finished' = finished \ {event}
          /\ page' = IF event.gen = doc.gen
                     THEN [NoPage EXCEPT !.at = "lease", !.event = event]
                     ELSE page
    /\ UNCHANGED <<runtimeVars, actorVars, appVars, exists, doc, requested,
                   timerVars, pc, localVars>>

PageStep(from, next) ==
    /\ page.at = from
    /\ page' = next
    /\ UNCHANGED <<runtimeVars, webVars, timerVars, pc, localVars>>

PageLease ==
    /\ PageStep("lease", IF lease = None THEN NoPage
                         ELSE [page EXCEPT !.at = "nav", !.gen = lease])
    /\ UNCHANGED <<actorVars, appVars>>

\* The callback learns the navigation id only now, from the actor.
PageNav ==
    /\ PageStep("nav", IF navGen # page.gen THEN NoPage
                       ELSE [page EXCEPT !.at = "check", !.nav = nav])
    /\ UNCHANGED <<actorVars, appVars>>

PageCheck ==
    /\ PageStep("check",
           CASE page.event.gen # page.gen \/ ~Reachable(page.gen) ->
                    [page EXCEPT !.at = "recover"]
             [] quitting -> NoPage
             [] OTHER    -> [page EXCEPT !.at = "publish"])
    /\ UNCHANGED <<actorVars, appVars>>

PagePublish ==
    /\ FinishNavigation(page.nav, page.gen)
    /\ PageStep("publish", IF phase' # phase THEN [page EXCEPT !.at = "show"]
                                             ELSE NoPage)
    /\ UNCHANGED appVars

\* window.show, then clear_startup_recovery.
PageShow ==
    /\ \/ /\ PageStep("show", NoPage)
          /\ recovery' = FALSE
       \/ /\ PageStep("show", [page EXCEPT !.at = "recover"])
          /\ UNCHANGED recovery
    /\ UNCHANGED <<actorVars, quitting, cleanups>>

PageRecover ==
    /\ PageStep("recover", NoPage)
    /\ ShowStartupRecovery
    /\ UNCHANGED <<quitting, cleanups>>

-----------------------------------------------------------------------------
(* schedule_harness_watchdog.                                              *)

Expires(d) == ~quitting /\ phase = "Loading" /\ IsCurrent(d.nav, d.gen)

WatchdogFires ==
    /\ \E d \in watchdogs :
          /\ watchdogs' = watchdogs \ {d}
          /\ IF Expires(d)
             THEN FailNavigation(d.nav, d.gen) /\ alarms' = alarms \cup {d}
             ELSE UNCHANGED <<actorVars, alarms>>
    /\ UNCHANGED <<runtimeVars, appVars, webVars, page, pc, localVars>>

WatchdogRecovers ==
    /\ \E d \in alarms : alarms' = alarms \ {d}
    /\ ShowStartupRecovery
    /\ UNCHANGED <<runtimeVars, quitting, cleanups, webVars, page, watchdogs,
                   pc, localVars>>

-----------------------------------------------------------------------------
(* The exit path and the Runtime.                                          *)

RequestExit ==
    /\ ~quitting /\ quitting' = TRUE
    /\ UNCHANGED <<runtimeVars, actorVars, recovery, cleanups, webVars, page,
                   timerVars, pc, localVars>>

\* The end of stop_managed_processes, before and after the drain.
ExitCleanup ==
    /\ quitting /\ cleanups < 2
    /\ cleanups' = cleanups + 1
    /\ CancelNavigation
    /\ EndOperation
    /\ UNCHANGED <<runtimeVars, recovery, quitting, webVars, page, timerVars,
                   pc, localVars>>

surfaceVars == <<actorVars, appVars, webVars, page, timerVars, pc, localVars>>

\* A Runtime is leased when its listener answers.  Withdrawing the lease ends
\* no listener: the process is terminated afterwards, with a grace period.
RuntimeStep ==
    /\ LSNext /\ epoch' <= MaxEpoch
    /\ listening' = listening \cup ({lease'} \ {None, lease})
    /\ UNCHANGED surfaceVars

\* A listener goes away with its process or before it, leased or not.
ListenerDies ==
    /\ \E g \in listening : listening' = listening \ {g}
    /\ UNCHANGED <<lsVars, surfaceVars>>

Requests(w) == \/ RequestOpen(w) \/ RequestRefresh(w)
               \/ RequestRestart(w) \/ RequestClose(w)

TaskStep(t) ==
    \/ Claim(t) \/ Drop(t) \/ Close(t)
    \/ OpenCheck(t) \/ OpenDecide(t) \/ Begin(t) \/ Navigate(t) \/ Recover(t)
    \/ RefreshRead(t) \/ RestartCancel(t) \/ RestartEpoch(t)
    \/ RestartRuntime(t) \/ RestartRecheck(t)
    \/ Boot(t) \/ Poll(t) \/ Reveal(t) \/ Revealed(t)

PageSteps == \/ PageFinished \/ PageLease \/ PageNav \/ PageCheck
             \/ PagePublish \/ PageShow \/ PageRecover

Watchdogs == WatchdogFires \/ WatchdogRecovers

Next ==
    \/ \E w \in Workers : Requests(w)
    \/ \E t \in Tasks : TaskStep(t)
    \/ Commit \/ PageSteps \/ Watchdogs
    \/ RequestExit \/ ExitCleanup
    \/ RuntimeStep \/ ListenerDies

Spec == Init /\ [][Next]_vars

\* Tasks, timers and the exit task are scheduled (tokio), a restart of the
\* Runtime returns.  The WebView owes no event, the Runtime no lease.
Fairness ==
    /\ \A t \in Tasks : WF_vars(TaskStep(t))
    /\ WF_vars(Watchdogs)
    /\ WF_vars(ExitCleanup)

FairSpec == Spec /\ Fairness

-----------------------------------------------------------------------------
(* Safety.                                                                 *)

\* What is visible is never the page of an older Runtime than the one the
\* surface is bound to: a page of a replaced Runtime is not taken for the
\* current one, whatever old tasks navigate to, whoever publishes it, the
\* page-load callback or the startup fallback, and although the replaced
\* Runtime may still answer (allowed_runtime_navigation, finish_harness_load,
\* reveal_clean_runtime_fallback).
VisibleIsNotOlder == phase = "Visible" => doc.gen >= navGen

\* A surface that is loading cannot be forgotten: the timer of exactly this
\* navigation is armed, or the task that began it is about to arm it.
LoadIsWatched ==
    phase = "Loading" /\ ~quitting =>
        \/ [nav |-> nav, gen |-> navGen] \in watchdogs
        \/ \E t \in Tasks : /\ pc[t] \in {"navigate", "build"}
                            /\ mine[t] = nav /\ held[t] = navGen

-----------------------------------------------------------------------------
(* Liveness.                                                               *)

\* Every load ends, visible, failed or cancelled, even when the WebView
\* never reports anything, unless the application quits.
LoadingSettles == phase = "Loading" ~> phase # "Loading" \/ quitting

\* The slot is always freed again.
SlotIsFreed == operation # "Idle" ~> operation = "Idle"

\* Every procedure of the surface gets to its end.
SurfaceSettles == LoadingSettles /\ SlotIsFreed

-----------------------------------------------------------------------------
(* What the repository says of the surface and interleavings refute.       *)

InOperation(t) == job[t] \in Guarded /\ pc[t] \notin {"idle", "claim"}

\* "Refresh/Restart and other surface operations exclude each other."
ExclusiveOperations ==
    ~quitting => \A s, t \in Tasks :
        InOperation(s) /\ InOperation(t) /\ "drop" \notin {pc[s], pc[t]}
            => s = t

\* "A navigation callback must match generation and navigation id; a stale
\* Finished event is ignored": what becomes visible is the document of the
\* current navigation.
VisibleIsItsNavigation == phase = "Visible" => doc.nav = nav

\* "Late page-load callbacks of an old generation no longer send the new
\* session to recovery".
OldEventFailsNothing ==
    [][page.at = "recover" /\ page' # page /\ phase = "Loading"
          => page.event.gen = navGen]_vars

\* "Harness Visible => current generation matches".
VisibleMatchesGeneration == phase = "Visible" => navGen = lease

\* The same of the document that is seen.  It may be newer: a command that
\* has checked an old lease begins its navigation after the document of the
\* newer one, and the fallback, which also holds the old lease, or a callback
\* that still finds the old listener, publishes it over the newer document.
VisibleShowsItsGeneration == phase = "Visible" => doc.gen = navGen
=============================================================================
