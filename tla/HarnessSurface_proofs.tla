------------------------ MODULE HarnessSurface_proofs ------------------------
(***************************************************************************)
(* Safety of HarnessSurface for any number of tasks, commands and Runtime  *)
(* generations.                                                            *)
(***************************************************************************)
EXTENDS HarnessSurface, TLAPS

(* The invariant.  Generations only grow, so what has been read of them,   *)
(* documents, leases of tasks and of the page callback, can be compared.   *)

LeaseIsNewest == lease \in {0, epoch}

HeldAreOld == \A t \in Tasks : held[t] <= epoch

DocumentsAreInOrder ==
    /\ doc.gen <= epoch /\ requested.gen <= epoch
    /\ requested # NoNav => doc.gen <= requested.gen

RevealsNotOlder == \A t \in Tasks : pc[t] = "reveal" => held[t] <= doc.gen

\* What the callback knows: the page it is about is not newer than the
\* document shown, and it publishes only for the generation of that page.
PageKnows ==
    /\ page.at # "idle" => page.event.gen <= doc.gen
    /\ page.at = "publish" => page.event.gen = page.gen

SurfaceInv ==
    /\ TypeOK
    /\ LeaseIsNewest /\ HeldAreOld /\ DocumentsAreInOrder
    /\ RevealsNotOlder /\ PageKnows
    /\ VisibleIsNotOlder

-----------------------------------------------------------------------------
(* Types.                                                                  *)

PageType == [at : PagePcs, event : Navs, gen : Nat, nav : Nat]

\* TypeOK in the groups of variables the actions change together.
RuntimeTypes ==
    /\ epoch \in 0 .. MaxEpoch /\ open \in BOOLEAN /\ lease \in 0 .. MaxEpoch
    /\ listening \subseteq 1 .. MaxEpoch
ActorTypes ==
    /\ phase \in Phases /\ operation \in Operations
    /\ nav \in Nat /\ navGen \in Nat
AppTypes == recovery \in BOOLEAN /\ quitting \in BOOLEAN /\ cleanups \in 0 .. 2
WebTypes ==
    /\ exists \in BOOLEAN /\ doc \in Navs /\ requested \in Navs
    /\ finished \subseteq Navs
TimerTypes == watchdogs \subseteq Navs /\ alarms \subseteq Navs
Jobs == Commands \cup {"none", "startup"}
LocalTypes ==
    /\ pc \in [Tasks -> Pcs]
    /\ job \in [Tasks -> Jobs]
    /\ held \in [Tasks -> Nat] /\ mine \in [Tasks -> Nat]
    /\ reopen \in [Tasks -> Nat]
    /\ requests \in 0 .. MaxRequests

LEMMA TypeParts ==
    TypeOK <=> /\ RuntimeTypes /\ ActorTypes /\ AppTypes /\ WebTypes
               /\ page \in PageType /\ TimerTypes /\ LocalTypes
BY DEF TypeOK, RuntimeTypes, ActorTypes, AppTypes, WebTypes, PageType,
       TimerTypes, LocalTypes, Jobs

\* The records the actions build.
LEMMA Records ==
    /\ \A n, g \in Nat : [nav |-> n, gen |-> g] \in Navs
    /\ NoNav \in Navs /\ NoNav.gen = 0
    /\ NoPage \in PageType /\ NoPage.at = "idle"
BY DEF Navs, NoNav, None, NoPage, PageType, PagePcs

LEMMA InitType == Init => TypeOK
<1> SUFFICES ASSUME Init PROVE TypeOK
  OBVIOUS
<1>1. RuntimeTypes
  <2>1. open \in BOOLEAN
    BY DEF Init, LSInit
  <2> QED
    BY <2>1, BoundsAssumption DEF Init, LSInit, RuntimeTypes, None
<1>4. ActorTypes
  BY DEF Init, ActorTypes, None, Phases, Operations
<1>5. AppTypes
  <2>1. recovery \in BOOLEAN /\ quitting \in BOOLEAN
    BY DEF Init
  <2> QED
    BY <2>1 DEF Init, AppTypes
<1>2. WebTypes /\ page \in PageType /\ TimerTypes
  BY Records DEF Init, WebTypes, TimerTypes
<1>3. LocalTypes
  BY BoundsAssumption DEF Init, LocalTypes, Jobs, None, Pcs
<1> QED
  BY <1>1, <1>2, <1>3, <1>4, <1>5, TypeParts

\* The surface actor, in whatever task or callback its methods run.
LEMMA RuntimeTypeStep ==
    ASSUME RuntimeTypes, RuntimeStep \/ ListenerDies
    PROVE  RuntimeTypes'
<1>1. CASE RuntimeStep
  <2>1. epoch' \in 0 .. MaxEpoch
    BY <1>1, BoundsAssumption
    DEF RuntimeTypes, RuntimeStep, LSNext, Open, Grant, GiveUp, Revoke
  <2>3. open' \in BOOLEAN
    BY <1>1 DEF RuntimeTypes, RuntimeStep, LSNext, Open, Grant, GiveUp, Revoke
  <2>2. lease' \in 0 .. MaxEpoch
    BY <1>1, BoundsAssumption
    DEF RuntimeTypes, RuntimeStep, LSNext, Open, Grant, GiveUp, Revoke
  <2>4. listening' \subseteq 1 .. MaxEpoch
    <3>1. lease' \in 0 .. MaxEpoch /\ MaxEpoch \in Nat
      BY <2>2, BoundsAssumption
    <3>2. {lease'} \ {None, lease} \subseteq 1 .. MaxEpoch
      BY <3>1 DEF None
    <3> QED
      BY <1>1, <3>2 DEF RuntimeTypes, RuntimeStep
  <2> QED
    BY <2>1, <2>2, <2>3, <2>4 DEF RuntimeTypes
<1>2. CASE ListenerDies
  BY <1>2, BoundsAssumption DEF RuntimeTypes, ListenerDies, lsVars, None
<1> QED
  BY <1>1, <1>2

\* A command or a task changes its own locals only, to values of their types.
LEMMA TaskLocals ==
    ASSUME TypeOK, NEW t \in Tasks, TaskStep(t)
    PROVE  LocalTypes'
<1>0. RuntimeTypes /\ ActorTypes /\ LocalTypes
  BY TypeParts
<1> USE DEF GoTo, LocalTypes, Pcs, RestartPcs, OpenPcs
<1>1. CASE Claim(t)
  BY <1>0, <1>1 DEF Claim, Return, Jobs, None
<1>2. CASE Drop(t)
  BY <1>0, <1>2 DEF Drop, Return, Jobs, None
<1>3. CASE Close(t) \/ Navigate(t) \/ Recover(t) \/ RestartRuntime(t)
           \/ RestartRecheck(t) \/ Boot(t) \/ Reveal(t) \/ Revealed(t)
           \/ OpenDecide(t)
  BY <1>0, <1>3
  DEF Close, Navigate, Recover, RestartRuntime, RestartRecheck, Boot, Reveal,
      Revealed, OpenDecide, AfterOpen, AfterError, localVars
<1>4. CASE OpenCheck(t) \/ RefreshRead(t) \/ RestartCancel(t) \/ Poll(t)
  BY <1>0, <1>4
  DEF OpenCheck, RefreshRead, RestartCancel, Poll, AfterError, RuntimeTypes
<1>5. CASE Begin(t)
  BY <1>0, <1>5 DEF Begin, ActorTypes
<1>6. CASE RestartEpoch(t)
  BY <1>0, <1>6 DEF RestartEpoch, ActorTypes
<1> QED
  BY <1>1, <1>2, <1>3, <1>4, <1>5, <1>6 DEF TaskStep

LEMMA RequestLocals ==
    ASSUME TypeOK, NEW w \in Workers, Requests(w)
    PROVE  LocalTypes'
<1>0. LocalTypes
  BY TypeParts
<1>1. PICK what \in Commands, where \in Pcs : Request(w, what, where)
  BY DEF Requests, RequestOpen, RequestRefresh, RequestRestart,
     RequestClose, Request, Pcs, OpenPcs
<1> QED
  BY <1>0, <1>1, BoundsAssumption DEF Request, GoTo, LocalTypes, Jobs, Tasks

-----------------------------------------------------------------------------
(* Who changes what.                                                       *)

\* The documents of the WebView are changed by navigating and by committing.
LEMMA WebFrame ==
    ASSUME Next, \A t \in Tasks : ~Navigate(t), ~Commit
    PROVE  UNCHANGED <<exists, doc, requested>>
BY DEF Next, Requests, RequestOpen, RequestRefresh, RequestRestart,
       RequestClose, Request, TaskStep, Claim, Drop, Close, OpenCheck,
       OpenDecide, Begin, Recover, RefreshRead, RestartCancel, RestartEpoch,
       RestartRuntime, RestartRecheck, Boot, Poll, Reveal, Revealed,
       PageSteps, PageFinished, PageLease, PageNav, PageCheck, PagePublish,
       PageShow, PageRecover, PageStep, Watchdogs, WatchdogFires,
       WatchdogRecovers, RequestExit, ExitCleanup, RuntimeStep, ListenerDies,
       webVars, surfaceVars

\* The Runtime changes by itself.
LEMMA RuntimeFrame ==
    ASSUME Next, ~RuntimeStep, ~ListenerDies
    PROVE  UNCHANGED <<epoch, open, lease, listening>>
BY DEF Next, Requests, RequestOpen, RequestRefresh, RequestRestart,
       RequestClose, Request, TaskStep, Claim, Drop, Close, OpenCheck,
       OpenDecide, Begin, Navigate, Recover, RefreshRead, RestartCancel,
       RestartEpoch, RestartRuntime, RestartRecheck, Boot, Poll, Reveal,
       Revealed, Commit, PageSteps, PageFinished, PageLease, PageNav,
       PageCheck, PagePublish, PageShow, PageRecover, PageStep, Watchdogs,
       WatchdogFires, WatchdogRecovers, RequestExit, ExitCleanup,
       runtimeVars, lsVars

\* The locals of a task change in its own steps.
LEMMA LocalFrame ==
    ASSUME Next, \A w \in Workers : ~Requests(w), \A t \in Tasks : ~TaskStep(t)
    PROVE  UNCHANGED <<pc, job, held, mine, reopen, requests>>
BY DEF Next, Commit, PageSteps, PageFinished, PageLease, PageNav, PageCheck,
       PagePublish, PageShow, PageRecover, PageStep, Watchdogs, WatchdogFires,
       WatchdogRecovers, RequestExit, ExitCleanup, RuntimeStep, ListenerDies,
       surfaceVars, localVars

\* The page callback is in the page only.
LEMMA PageFrame ==
    ASSUME Next, ~PageSteps
    PROVE  UNCHANGED page
BY DEF Next, Requests, RequestOpen, RequestRefresh, RequestRestart,
       RequestClose, Request, TaskStep, Claim, Drop, Close, OpenCheck,
       OpenDecide, Begin, Navigate, Recover, RefreshRead, RestartCancel,
       RestartEpoch, RestartRuntime, RestartRecheck, Boot, Poll, Reveal,
       Revealed, Commit, Watchdogs, WatchdogFires, WatchdogRecovers,
       RequestExit, ExitCleanup, RuntimeStep, ListenerDies, surfaceVars

\* The timers are armed by navigating and go off.
LEMMA TimerFrame ==
    ASSUME Next, \A t \in Tasks : ~Navigate(t), ~Watchdogs
    PROVE  UNCHANGED <<watchdogs, alarms>>
BY DEF Next, Requests, RequestOpen, RequestRefresh, RequestRestart,
       RequestClose, Request, TaskStep, Claim, Drop, Close, OpenCheck,
       OpenDecide, Begin, Recover, RefreshRead, RestartCancel, RestartEpoch,
       RestartRuntime, RestartRecheck, Boot, Poll, Reveal, Revealed, Commit,
       PageSteps, PageFinished, PageLease, PageNav, PageCheck, PagePublish,
       PageShow, PageRecover, PageStep, RequestExit, ExitCleanup,
       RuntimeStep, ListenerDies, timerVars, surfaceVars

\* What a step does to the surface actor: one of its methods, or nothing.
ActorMove ==
    \/ UNCHANGED <<phase, operation, nav, navGen>>
    \/ operation' \in Operations /\ UNCHANGED <<phase, nav, navGen>>
    \/ /\ \E t \in Tasks : Begin(t) /\ BeginNavigation(held[t])
       /\ UNCHANGED operation
    \/ \E t \in Tasks : FailNavigation(mine[t], held[t])
    \/ \E d \in watchdogs : FailNavigation(d.nav, d.gen)
    \/ \E t \in Tasks : pc[t] = "reveal" /\ FinishNavigation(nav, held[t])
    \/ page.at = "publish" /\ FinishNavigation(page.nav, page.gen)
    \/ CancelNavigation /\ operation' \in {operation, "Idle"}
    \/ ShowStartupRecovery

LEMMA ActorMoves == TypeOK /\ Next => ActorMove
<1> SUFFICES ASSUME TypeOK, Next PROVE ActorMove
  OBVIOUS
<1>1. ASSUME NEW t \in Tasks, TaskStep(t) PROVE ActorMove
  <2>1. CASE Claim(t) \/ Drop(t)
    BY <2>1 DEF Claim, Drop, EndOperation, ActorMove, Operations, TypeOK
  <2>2. CASE Close(t) \/ RestartCancel(t)
    BY <2>2 DEF Close, RestartCancel, ActorMove
  <2>3. CASE Begin(t)
    BY <2>3 DEF Begin, ActorMove
  <2>4. CASE Navigate(t)
    BY <2>4 DEF Navigate, ActorMove, actorVars
  <2>5. CASE Recover(t)
    BY <2>5 DEF Recover, ActorMove
  <2>6. CASE Reveal(t)
    BY <2>6 DEF Reveal, ActorMove
  <2>7. CASE OpenCheck(t) \/ OpenDecide(t) \/ RefreshRead(t)
             \/ RestartEpoch(t) \/ RestartRuntime(t) \/ RestartRecheck(t)
             \/ Boot(t) \/ Poll(t) \/ Revealed(t)
    BY <2>7
    DEF OpenCheck, OpenDecide, RefreshRead, RestartEpoch, RestartRuntime,
        RestartRecheck, Boot, Poll, Revealed, ActorMove, actorVars
  <2> QED
    BY <1>1, <2>1, <2>2, <2>3, <2>4, <2>5, <2>6, <2>7 DEF TaskStep
<1>2. ASSUME NEW w \in Workers, Requests(w) PROVE ActorMove
  BY <1>2 DEF Requests, RequestOpen, RequestRefresh, RequestRestart,
     RequestClose, Request, ActorMove, actorVars
<1>3. CASE PageSteps
  <2>1. CASE PageFinished \/ PageLease \/ PageNav \/ PageCheck \/ PageShow
    BY <2>1 DEF PageFinished, PageLease, PageNav, PageCheck, PageShow,
       ActorMove, actorVars
  <2>2. CASE PagePublish
    BY <2>2 DEF PagePublish, PageStep, ActorMove
  <2>3. CASE PageRecover
    BY <2>3 DEF PageRecover, ActorMove
  <2> QED
    BY <1>3, <2>1, <2>2, <2>3 DEF PageSteps
<1>4. CASE Watchdogs
  BY <1>4 DEF Watchdogs, WatchdogFires, WatchdogRecovers, ActorMove, actorVars
<1>5. CASE ExitCleanup
  BY <1>5 DEF ExitCleanup, EndOperation, ActorMove
<1>6. CASE Commit \/ RequestExit \/ RuntimeStep \/ ListenerDies
  BY <1>6 DEF Commit, RequestExit, RuntimeStep, ListenerDies, surfaceVars,
     actorVars, ActorMove
<1> QED
  BY <1>1, <1>2, <1>3, <1>4, <1>5, <1>6 DEF Next

-----------------------------------------------------------------------------
(* Types stay.                                                             *)

LEMMA ActorTypeStep ==
    ASSUME TypeOK, Next
    PROVE  ActorTypes'
<1>1. ActorTypes /\ LocalTypes
  BY TypeParts
<1>2. ActorMove
  BY ActorMoves
<1> QED
  BY <1>1, <1>2
  DEF ActorTypes, LocalTypes, ActorMove, BeginNavigation, FailNavigation,
      FinishNavigation, CancelNavigation, ShowStartupRecovery, EndOperation,
      actorVars, Phases, Operations, None

\* What is shown is what a task began, for the generation it held.
LEMMA RequestedStep ==
    ASSUME TypeOK, NEW t \in Tasks, Navigate(t)
    PROVE  /\ doc' = doc /\ finished' = finished
           /\ \/ requested' = requested
              \/ /\ requested' = [nav |-> mine[t], gen |-> held[t]]
                 /\ held[t] = lease /\ lease # 0
           /\ \/ watchdogs' = watchdogs
              \/ watchdogs' = watchdogs
                                \cup {[nav |-> mine[t], gen |-> held[t]]}
           /\ exists' \in BOOLEAN
<1>1. exists' \in BOOLEAN
  BY DEF Navigate, webVars, TypeOK
<1> QED
  BY <1>1 DEF Navigate, RequestDocument, AllowedNavigation, ArmWatchdog,
     webVars, None

LEMMA WebTypeStep ==
    ASSUME TypeOK, Next
    PROVE  WebTypes'
<1>1. WebTypes /\ LocalTypes
  BY TypeParts
<1>2. CASE \E t \in Tasks : Navigate(t)
  <2>1. PICK t \in Tasks : Navigate(t)
    BY <1>2
  <2>2. [nav |-> mine[t], gen |-> held[t]] \in Navs
    BY <1>1, Records DEF LocalTypes
  <2> QED
    BY <1>1, <2>1, <2>2, RequestedStep DEF WebTypes
<1>3. CASE Commit
  BY <1>1, <1>3, Records DEF Commit, WebTypes
<1>4. CASE PageFinished
  BY <1>1, <1>4 DEF PageFinished, WebTypes
<1>5. CASE ~Commit /\ ~PageFinished /\ \A t \in Tasks : ~Navigate(t)
  <2>1. UNCHANGED <<exists, doc, requested>>
    BY <1>5, WebFrame
  <2>2. finished' = finished
    BY <1>5
    DEF Next, Requests, RequestOpen, RequestRefresh, RequestRestart,
        RequestClose, Request, TaskStep, Claim, Drop, Close, OpenCheck,
        OpenDecide, Begin, Recover, RefreshRead, RestartCancel, RestartEpoch,
        RestartRuntime, RestartRecheck, Boot, Poll, Reveal, Revealed,
        PageSteps, PageLease, PageNav, PageCheck, PagePublish, PageShow,
        PageRecover, PageStep, Watchdogs, WatchdogFires, WatchdogRecovers,
        RequestExit, ExitCleanup, RuntimeStep, ListenerDies, webVars,
        surfaceVars
  <2> QED
    BY <1>1, <2>1, <2>2 DEF WebTypes
<1> QED
  BY <1>2, <1>3, <1>4, <1>5

LEMMA PageTypeStep ==
    ASSUME TypeOK, Next
    PROVE  page' \in PageType
<1>1. /\ page \in PageType /\ ActorTypes /\ RuntimeTypes
      /\ finished \subseteq Navs
  BY TypeParts DEF WebTypes
<1> USE DEF PageType, PagePcs
<1>2. CASE PageFinished
  BY <1>1, <1>2, Records DEF PageFinished
<1>3. CASE PageLease
  <2>1. lease \in Nat
    BY <1>1 DEF RuntimeTypes
  <2> QED
    BY <1>1, <1>3, <2>1, Records DEF PageLease, PageStep
<1>4. CASE PageNav
  BY <1>1, <1>4, Records DEF PageNav, PageStep, ActorTypes
<1>5. CASE PageCheck
  BY <1>1, <1>5, Records DEF PageCheck, PageStep
<1>6. CASE PagePublish \/ PageShow \/ PageRecover
  BY <1>1, <1>6, Records DEF PagePublish, PageShow, PageRecover, PageStep
<1> QED
  BY <1>1, <1>2, <1>3, <1>4, <1>5, <1>6, PageFrame DEF PageSteps

LEMMA TimerTypeStep ==
    ASSUME TypeOK, Next
    PROVE  TimerTypes'
<1>1. TimerTypes /\ LocalTypes
  BY TypeParts
<1>2. CASE \E t \in Tasks : Navigate(t)
  <2>1. PICK t \in Tasks : Navigate(t)
    BY <1>2
  <2>2. [nav |-> mine[t], gen |-> held[t]] \in Navs
    BY <1>1, Records DEF LocalTypes
  <2>3. alarms' = alarms
    BY <2>1 DEF Navigate
  <2> QED
    BY <1>1, <2>1, <2>2, <2>3, RequestedStep DEF TimerTypes
<1>3. CASE Watchdogs
  BY <1>1, <1>3 DEF Watchdogs, WatchdogFires, WatchdogRecovers, TimerTypes
<1> QED
  BY <1>1, <1>2, <1>3, TimerFrame DEF TimerTypes

LEMMA AppTypeStep ==
    ASSUME TypeOK, Next
    PROVE  AppTypes'
<1>1. AppTypes
  BY TypeParts
<1>2. recovery' \in BOOLEAN
  <2>1. CASE \E t \in Tasks : Recover(t)
    BY <2>1 DEF Recover, ShowStartupRecovery
  <2>2. CASE PageShow \/ PageRecover \/ WatchdogRecovers
    BY <1>1, <2>2 DEF PageShow, PageRecover, WatchdogRecovers,
       ShowStartupRecovery, AppTypes
  <2>3. CASE /\ \A t \in Tasks : ~Recover(t)
             /\ ~PageShow /\ ~PageRecover /\ ~WatchdogRecovers
    <3>1. recovery' = recovery
      BY <2>3
      DEF Next, Requests, RequestOpen, RequestRefresh, RequestRestart,
          RequestClose, Request, TaskStep, Claim, Drop, Close, OpenCheck,
          OpenDecide, Begin, Navigate, RefreshRead, RestartCancel,
          RestartEpoch, RestartRuntime, RestartRecheck, Boot, Poll, Reveal,
          Revealed, Commit, PageSteps, PageFinished, PageLease, PageNav,
          PageCheck, PagePublish, PageStep, Watchdogs, WatchdogFires,
          RequestExit, ExitCleanup, RuntimeStep, ListenerDies, appVars,
          surfaceVars
    <3> QED
      BY <1>1, <3>1 DEF AppTypes
  <2> QED
    BY <2>1, <2>2, <2>3
<1>3. \/ UNCHANGED <<quitting, cleanups>>
      \/ quitting' = TRUE /\ cleanups' = cleanups
      \/ quitting' = quitting /\ cleanups < 2 /\ cleanups' = cleanups + 1
  BY DEF Next, Requests, RequestOpen, RequestRefresh, RequestRestart,
         RequestClose, Request, TaskStep, Claim, Drop, Close, OpenCheck,
         OpenDecide, Begin, Navigate, Recover, RefreshRead, RestartCancel,
         RestartEpoch, RestartRuntime, RestartRecheck, Boot, Poll, Reveal,
         Revealed, Commit, PageSteps, PageFinished, PageLease, PageNav,
         PageCheck, PagePublish, PageShow, PageRecover, PageStep, Watchdogs,
         WatchdogFires, WatchdogRecovers, RequestExit, ExitCleanup,
         RuntimeStep, ListenerDies, appVars, surfaceVars
<1>4. quitting' \in BOOLEAN
  BY <1>1, <1>3 DEF AppTypes
<1>5. cleanups' \in 0 .. 2
  BY <1>1, <1>3 DEF AppTypes
<1> QED
  BY <1>2, <1>4, <1>5 DEF AppTypes

LEMMA TypeStep == TypeOK /\ [Next]_vars => TypeOK'
<1> SUFFICES ASSUME TypeOK, [Next]_vars PROVE TypeOK'
  OBVIOUS
<1>1. CASE UNCHANGED vars
  BY <1>1 DEF TypeOK, vars, runtimeVars, lsVars, actorVars, appVars, webVars,
     timerVars, localVars
<1>2. CASE Next
  <2>1. RuntimeTypes'
    BY <1>2, RuntimeFrame, RuntimeTypeStep, TypeParts DEF RuntimeTypes
  <2>2. LocalTypes'
    BY <1>2, LocalFrame, TaskLocals, RequestLocals, TypeParts DEF LocalTypes
  <2>3. (/\ RuntimeTypes /\ ActorTypes /\ AppTypes /\ WebTypes
         /\ page \in PageType /\ TimerTypes /\ LocalTypes)' => TypeOK'
    BY TypeParts DEF TypeOK, RuntimeTypes, ActorTypes, AppTypes, WebTypes,
       PageType, TimerTypes, LocalTypes, Jobs
  <2> QED
    BY <1>2, <2>1, <2>2, <2>3, ActorTypeStep, AppTypeStep, WebTypeStep,
       PageTypeStep, TimerTypeStep
<1> QED
  BY <1>1, <1>2

\* The state of the surface is well typed for any number of tasks, commands
\* and generations; in particular cleanups and requests keep their bounds.
THEOREM TypeCorrect == Spec => []TypeOK
  BY InitType, TypeStep, PTL DEF Spec

-----------------------------------------------------------------------------
(* Generations.                                                            *)

\* The lease is of the newest generation, and generations only grow.
LEMMA LeaseStep ==
    ASSUME TypeOK, LeaseIsNewest, Next
    PROVE  LeaseIsNewest' /\ epoch <= epoch' /\ epoch' \in Nat
<1>1. RuntimeTypes
  BY TypeParts
<1>2. CASE RuntimeStep
  BY <1>1, <1>2, BoundsAssumption
  DEF RuntimeStep, LSNext, Open, Grant, GiveUp, Revoke, LeaseIsNewest,
      RuntimeTypes
<1>3. CASE ListenerDies
  BY <1>1, <1>3, BoundsAssumption
  DEF ListenerDies, lsVars, None, LeaseIsNewest, RuntimeTypes
<1> QED
  BY <1>1, <1>2, <1>3, RuntimeFrame, BoundsAssumption
  DEF LeaseIsNewest, RuntimeTypes

\* What a task takes down is a generation that has been given.
LEMMA HeldStep ==
    ASSUME TypeOK, LeaseIsNewest, HeldAreOld, Next
    PROVE  HeldAreOld'
<1>1. epoch <= epoch' /\ epoch \in Nat /\ epoch' \in Nat /\ lease <= epoch
      /\ LocalTypes
  BY LeaseStep, TypeParts, BoundsAssumption
  DEF LeaseIsNewest, RuntimeTypes
<1>2. ASSUME NEW t \in Tasks, TaskStep(t) PROVE HeldAreOld'
  <2>1. \/ held' = held
        \/ \E g \in {None, lease, epoch} : held' = [held EXCEPT ![t] = g]
    BY <1>2
    DEF TaskStep, Claim, Drop, Return, Close, OpenCheck, OpenDecide, Begin,
        Navigate, Recover, RefreshRead, RestartCancel, RestartEpoch,
        RestartRuntime, RestartRecheck, Boot, Poll, Reveal, Revealed,
        localVars
  <2>2. CASE held' = held
    BY <1>1, <2>2 DEF HeldAreOld, LocalTypes
  <2>3. ASSUME NEW g \in {None, lease, epoch}, held' = [held EXCEPT ![t] = g]
        PROVE  HeldAreOld'
    <3>1. g <= epoch' /\ \A s \in Tasks : held[s] <= epoch'
      BY <1>1 DEF HeldAreOld, LocalTypes, None
    <3> QED
      BY <1>1, <2>3, <3>1 DEF HeldAreOld, LocalTypes
  <2> QED
    BY <2>1, <2>2, <2>3
<1>3. ASSUME NEW w \in Workers, Requests(w) PROVE held' = held
  BY <1>3 DEF Requests, RequestOpen, RequestRefresh, RequestRestart,
     RequestClose, Request
<1>4. CASE held' = held
  BY <1>1, <1>4 DEF HeldAreOld, LocalTypes
<1> QED
  BY <1>2, <1>3, <1>4, LocalFrame

\* Documents come in the order of their generations: only the current lease
\* is navigated to.
LEMMA DocumentsStep ==
    ASSUME TypeOK, LeaseIsNewest, DocumentsAreInOrder, Next
    PROVE  DocumentsAreInOrder' /\ doc.gen <= doc'.gen
<1>1. /\ epoch <= epoch' /\ epoch \in Nat /\ epoch' \in Nat
      /\ doc.gen \in Nat /\ requested.gen \in Nat
  BY LeaseStep, TypeParts, BoundsAssumption DEF RuntimeTypes, WebTypes, Navs
<1>2. CASE \E t \in Tasks : Navigate(t)
  <2>1. PICK t \in Tasks : Navigate(t)
    BY <1>2
  <2>2. /\ doc' = doc
        /\ requested' = requested \/ requested'.gen = epoch
    BY <2>1, RequestedStep DEF LeaseIsNewest
  <2> QED
    BY <1>1, <2>2 DEF DocumentsAreInOrder
<1>3. CASE Commit
  BY <1>1, <1>3, Records DEF Commit, DocumentsAreInOrder
<1>4. CASE doc' = doc /\ requested' = requested
  BY <1>1, <1>4 DEF DocumentsAreInOrder
<1> QED
  BY <1>2, <1>3, <1>4, WebFrame

\* The fallback has seen the document of the lease it holds, or of a newer
\* one since.
LEMMA RevealStep ==
    ASSUME TypeOK, LeaseIsNewest, DocumentsAreInOrder, RevealsNotOlder, Next
    PROVE  RevealsNotOlder'
<1>1. /\ doc.gen <= doc'.gen /\ doc.gen \in Nat /\ doc'.gen \in Nat
      /\ LocalTypes
  <2>1. TypeOK'
    BY TypeStep
  <2> QED
    BY <2>1, DocumentsStep, TypeParts DEF TypeOK, WebTypes, Navs
<1> SUFFICES ASSUME NEW t \in Tasks, pc'[t] = "reveal"
             PROVE  held'[t] <= doc'.gen
  BY DEF RevealsNotOlder
<1>2. \/ pc[t] = "reveal" /\ held'[t] = held[t]
      \/ Poll(t) /\ held'[t] = lease /\ doc.gen = lease
  <2>1. ASSUME NEW s \in Tasks, TaskStep(s), s # t
        PROVE  pc'[t] = pc[t] /\ held'[t] = held[t]
    BY <1>1, <2>1
    DEF TaskStep, Claim, Drop, Return, Close, OpenCheck, OpenDecide, Begin,
        Navigate, Recover, RefreshRead, RestartCancel, RestartEpoch,
        RestartRuntime, RestartRecheck, Boot, Poll, Reveal, Revealed,
        localVars, LocalTypes, GoTo
  <2>2. ASSUME NEW w \in Workers, Requests(w)
        PROVE  pc[t] = "reveal" /\ held'[t] = held[t]
    BY <1>1, <2>2
    DEF Requests, RequestOpen, RequestRefresh, RequestRestart, RequestClose,
        Request, GoTo, LocalTypes
  <2>3. CASE TaskStep(t)
    <3>1. CASE Poll(t)
      BY <1>1, <3>1 DEF Poll, GoTo, LocalTypes
    <3>2. CASE ~Poll(t)
      BY <1>1, <2>3, <3>2
      DEF TaskStep, Claim, Drop, Return, Close, OpenCheck, OpenDecide, Begin,
          Navigate, Recover, RefreshRead, RestartCancel, RestartEpoch,
          RestartRuntime, RestartRecheck, Boot, Reveal, Revealed, AfterOpen,
          AfterError, localVars, LocalTypes, GoTo
    <3> QED
      BY <3>1, <3>2
  <2> QED
    BY <2>1, <2>2, <2>3, LocalFrame
<1>3. held[t] \in Nat /\ held'[t] \in Nat /\ lease \in Nat
  BY <1>1, <1>2, TypeParts DEF LocalTypes, RuntimeTypes
<1> QED
  BY <1>1, <1>2, <1>3 DEF RevealsNotOlder

\* What the callback has learnt stays true, as far as it needs it.
LEMMA PageKnowsStep ==
    ASSUME TypeOK, LeaseIsNewest, DocumentsAreInOrder, PageKnows, Next
    PROVE  PageKnows'
<1>1. /\ doc.gen <= doc'.gen /\ doc.gen \in Nat /\ doc'.gen \in Nat
      /\ page \in PageType /\ page.event.gen \in Nat
      /\ nav \in Nat /\ nav' \in Nat /\ navGen \in Nat /\ page.nav \in Nat
  <2>1. TypeOK'
    BY TypeStep
  <2> QED
    BY <2>1, DocumentsStep, TypeParts
    DEF TypeOK, WebTypes, ActorTypes, Navs, PageType
<1>2. nav <= nav'
  BY <1>1, ActorMoves
  DEF ActorMove, BeginNavigation, FailNavigation, FinishNavigation,
      CancelNavigation, ShowStartupRecovery, actorVars
<1> USE DEF PageKnows, PageType
<1>3. CASE PageFinished
  <2>1. PICK event \in finished :
           page' = IF event.gen = doc.gen
                   THEN [NoPage EXCEPT !.at = "lease", !.event = event]
                   ELSE page
    BY <1>3 DEF PageFinished
  <2> QED
    BY <1>1, <1>2, <1>3, <2>1, Records DEF PageFinished, NoPage
<1>4. CASE PageLease
  BY <1>1, <1>2, <1>4, Records DEF PageLease, PageStep, NoPage
<1>5. CASE PageNav
  BY <1>1, <1>2, <1>5, Records DEF PageNav, PageStep, NoPage
<1>6. CASE PageCheck
  BY <1>1, <1>2, <1>6, Records DEF PageCheck, PageStep, NoPage
<1>7. CASE PagePublish \/ PageShow \/ PageRecover
  BY <1>1, <1>2, <1>7, Records
  DEF PagePublish, PageShow, PageRecover, PageStep, NoPage
<1>8. CASE page' = page
  BY <1>1, <1>2, <1>8
<1> QED
  BY <1>3, <1>4, <1>5, <1>6, <1>7, <1>8, PageFrame DEF PageSteps

\* The surface becomes visible by the callback or by the fallback, and stays
\* bound to the generation it was published for.
LEMMA VisibleStep ==
    ASSUME TypeOK, LeaseIsNewest, DocumentsAreInOrder, RevealsNotOlder,
           PageKnows, VisibleIsNotOlder, Next
    PROVE  VisibleIsNotOlder'
<1> SUFFICES ASSUME phase' = "Visible" PROVE navGen' <= doc'.gen
  BY DEF VisibleIsNotOlder
<1>1. /\ doc.gen <= doc'.gen /\ doc.gen \in Nat /\ doc'.gen \in Nat
      /\ navGen \in Nat
  <2>1. TypeOK'
    BY TypeStep
  <2> QED
    BY <2>1, DocumentsStep, TypeParts DEF TypeOK, WebTypes, ActorTypes, Navs
<1>2. navGen' = navGen /\ navGen <= doc.gen
  <2>1. CASE phase = "Visible" /\ navGen' = navGen
    BY <1>1, <2>1 DEF VisibleIsNotOlder
  <2>2. CASE \E t \in Tasks : pc[t] = "reveal" /\ FinishNavigation(nav, held[t])
    BY <2>2
    DEF FinishNavigation, IsCurrent, actorVars, RevealsNotOlder,
        VisibleIsNotOlder
  <2>3. CASE page.at = "publish" /\ FinishNavigation(page.nav, page.gen)
    BY <2>3
    DEF FinishNavigation, IsCurrent, actorVars, PageKnows, VisibleIsNotOlder
  <2> QED
    BY <2>1, <2>2, <2>3, ActorMoves
    DEF ActorMove, BeginNavigation, FailNavigation, CancelNavigation,
        ShowStartupRecovery, actorVars, EndOperation
<1> QED
  BY <1>1, <1>2

-----------------------------------------------------------------------------

LEMMA InitInv == Init => SurfaceInv
<1> SUFFICES ASSUME Init PROVE SurfaceInv
  OBVIOUS
<1>1. TypeOK
  BY InitType
<1>2. /\ LeaseIsNewest /\ HeldAreOld /\ DocumentsAreInOrder
      /\ RevealsNotOlder /\ VisibleIsNotOlder
  BY Records
  DEF Init, LSInit, LeaseIsNewest, HeldAreOld, DocumentsAreInOrder,
      RevealsNotOlder, VisibleIsNotOlder, None
<1>3. PageKnows
  BY Records DEF Init, PageKnows
<1> QED
  BY <1>1, <1>2, <1>3 DEF SurfaceInv

LEMMA InvStep == SurfaceInv /\ [Next]_vars => SurfaceInv'
<1> SUFFICES ASSUME SurfaceInv, [Next]_vars PROVE SurfaceInv'
  OBVIOUS
<1>1. TypeOK'
  BY TypeStep DEF SurfaceInv
<1>2. CASE UNCHANGED vars
  BY <1>1, <1>2
  DEF SurfaceInv, LeaseIsNewest, HeldAreOld, DocumentsAreInOrder,
      RevealsNotOlder, PageKnows, VisibleIsNotOlder, vars,
      runtimeVars, lsVars, actorVars, webVars, localVars
<1>3. CASE Next
  BY <1>1, <1>3, LeaseStep, HeldStep, DocumentsStep, RevealStep,
     PageKnowsStep, VisibleStep
  DEF SurfaceInv
<1> QED
  BY <1>2, <1>3

\* No interleaving of tasks, callbacks, timers and replaced Runtimes, which
\* may answer beside their successor, makes the page of an older Runtime the
\* visible one.
THEOREM NoOldGenerationIsShown == Spec => []VisibleIsNotOlder
<1>1. SurfaceInv => VisibleIsNotOlder
  BY DEF SurfaceInv
<1> QED
  BY <1>1, InitInv, InvStep, PTL DEF Spec

-----------------------------------------------------------------------------
(* The watchdog.                                                           *)

Armed == [nav |-> nav, gen |-> navGen] \in watchdogs
ArmsSoon(t) ==
    pc[t] \in {"navigate", "build"} /\ mine[t] = nav /\ held[t] = navGen

\* While a navigation goes on, only its own timer or its own task can end the
\* watch over it, and both leave the phase "Loading" or another watch.
LEMMA WatchStep ==
    ASSUME TypeOK, LoadIsWatched, Next
    PROVE  LoadIsWatched'
<1> SUFFICES ASSUME phase' = "Loading", ~quitting'
             PROVE  Armed' \/ \E t \in Tasks : ArmsSoon(t)'
  BY DEF LoadIsWatched, Armed, ArmsSoon
<1>1. ActorTypes /\ LocalTypes
  BY TypeParts
<1>2. CASE \E t \in Tasks : Begin(t)
  <2>1. PICK t \in Tasks : Begin(t)
    BY <1>2
  <2>2. ArmsSoon(t)'
    BY <1>1, <2>1
    DEF Begin, BeginNavigation, GoTo, ArmsSoon, LocalTypes
  <2> QED
    BY <2>2
<1>3. CASE \A t \in Tasks : ~Begin(t)
  <2>1. phase = "Loading" /\ nav' = nav /\ navGen' = navGen
    BY <1>3, ActorMoves
    DEF ActorMove, BeginNavigation, FailNavigation, FinishNavigation,
        CancelNavigation, ShowStartupRecovery, EndOperation, actorVars
  <2>2. ~quitting
    BY DEF Next, Requests, RequestOpen, RequestRefresh, RequestRestart,
         RequestClose, Request, TaskStep, Claim, Drop, Close, OpenCheck,
         OpenDecide, Begin, Navigate, Recover, RefreshRead, RestartCancel,
         RestartEpoch, RestartRuntime, RestartRecheck, Boot, Poll, Reveal,
         Revealed, Commit, PageSteps, PageFinished, PageLease, PageNav,
         PageCheck, PagePublish, PageShow, PageRecover, PageStep, Watchdogs,
         WatchdogFires, WatchdogRecovers, RequestExit, ExitCleanup,
         RuntimeStep, ListenerDies, appVars, surfaceVars
  <2>3. Armed \/ \E t \in Tasks : ArmsSoon(t)
    BY <2>1, <2>2 DEF LoadIsWatched, Armed, ArmsSoon
  <2>4. CASE Watchdogs
    <3>1. UNCHANGED <<pc, mine, held>>
      BY <2>4 DEF Watchdogs, WatchdogFires, WatchdogRecovers, localVars
    <3>2. Armed => Armed'
      <4>1. CASE WatchdogRecovers
        BY <2>1, <4>1 DEF WatchdogRecovers, Armed
      <4>2. CASE WatchdogFires
        <5>1. PICK d \in watchdogs :
                 /\ watchdogs' = watchdogs \ {d}
                 /\ IF Expires(d)
                    THEN FailNavigation(d.nav, d.gen)
                    ELSE TRUE
          BY <4>2 DEF WatchdogFires
        <5>2. d # [nav |-> nav, gen |-> navGen]
          BY <2>1, <2>2, <5>1 DEF Expires, FailNavigation, IsCurrent
        <5> QED
          BY <2>1, <5>1, <5>2 DEF Armed
      <4> QED
        BY <2>4, <4>1, <4>2 DEF Watchdogs
    <3> QED
      BY <2>1, <2>3, <3>1, <3>2 DEF ArmsSoon
  <2>5. CASE ~Watchdogs
    <3>1. watchdogs \subseteq watchdogs'
      BY <2>5, TimerFrame, RequestedStep
    <3>2. ASSUME NEW t \in Tasks, ArmsSoon(t) PROVE Armed' \/ ArmsSoon(t)'
      <4>1. CASE Navigate(t)
        <5>1. CASE ArmWatchdog(t)
          BY <2>1, <3>2, <5>1 DEF ArmWatchdog, Armed, ArmsSoon
        <5>2. CASE FailNavigation(mine[t], held[t])
          BY <2>1, <3>2, <5>2 DEF FailNavigation, IsCurrent, ArmsSoon
        <5> QED
          BY <4>1, <5>1, <5>2 DEF Navigate
      <4>2. CASE ~Navigate(t)
        <5>1. ~TaskStep(t)
          BY <1>3, <3>2, <4>2
          DEF ArmsSoon, TaskStep, Claim, Drop, Close, OpenCheck, OpenDecide,
              Recover, RefreshRead, RestartCancel, RestartEpoch,
              RestartRuntime, RestartRecheck, Boot, Poll, Reveal, Revealed
        <5>2. ASSUME NEW s \in Tasks, TaskStep(s), s # t
              PROVE  UNCHANGED <<pc[t], mine[t], held[t]>>
          BY <1>1, <5>2
          DEF TaskStep, Claim, Drop, Return, Close, OpenCheck, OpenDecide,
              Begin, Navigate, Recover, RefreshRead, RestartCancel,
              RestartEpoch, RestartRuntime, RestartRecheck, Boot, Poll,
              Reveal, Revealed, localVars, LocalTypes, GoTo
        <5>3. \A w \in Workers :
                 Requests(w) => UNCHANGED <<pc[t], mine[t], held[t]>>
          BY <1>1, <3>2
          DEF ArmsSoon, Requests, RequestOpen, RequestRefresh,
              RequestRestart, RequestClose, Request, GoTo, LocalTypes
        <5> QED
          BY <2>1, <3>2, <5>1, <5>2, <5>3, LocalFrame DEF ArmsSoon
      <4> QED
        BY <4>1, <4>2
    <3> QED
      BY <2>1, <2>3, <3>1, <3>2 DEF Armed
  <2> QED
    BY <2>4, <2>5
<1> QED
  BY <1>2, <1>3

\* A load can never be forgotten: whatever tasks begin, cancel and fail
\* navigations, the timer of the current one is armed or about to be.
THEOREM EveryLoadIsWatched == Spec => []LoadIsWatched
<1>1. Init => TypeOK /\ LoadIsWatched
  BY InitType DEF Init, LoadIsWatched
<1>2. TypeOK /\ LoadIsWatched /\ [Next]_vars => (TypeOK /\ LoadIsWatched)'
  <2> SUFFICES ASSUME TypeOK, LoadIsWatched, [Next]_vars
               PROVE  TypeOK' /\ LoadIsWatched'
    OBVIOUS
  <2>1. CASE UNCHANGED vars
    BY <2>1, TypeStep
    DEF LoadIsWatched, vars, actorVars, appVars, timerVars, localVars
  <2>2. CASE Next
    BY <2>2, TypeStep, WatchStep
  <2> QED
    BY <2>1, <2>2
<1> QED
  BY <1>1, <1>2, PTL DEF Spec
=============================================================================
