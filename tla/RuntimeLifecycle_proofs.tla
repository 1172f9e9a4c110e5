----------------------- MODULE RuntimeLifecycle_proofs -----------------------
(***************************************************************************)
(* Proofs about RuntimeLifecycle for any number of worker threads, any     *)
(* set of commands and any bounds on generations and attempts.             *)
(***************************************************************************)
EXTENDS RuntimeLifecycle, TLAPS

\* A thread inside start_impl works for a generation that was really begun,
\* and once start_blocking has opened an attempt the attempt has a number.
StartersTyped ==
    \A w \in Workers :
        /\ pc[w] \in Starting => mine[w] \in Gens
        /\ pc[w] \in Starting \ {"prepare"} => attempt[w] \in 1 .. MaxAttempts

\* The exit path makes three passes and then nothing runs any more.
PassesTyped ==
    /\ passes = 3 => pc[Supervisor] = "exited"
    /\ pc[Supervisor] # "idle" => quitting

TypeInv == TypeOK /\ StartersTyped /\ PassesTyped

\* A thread that gives up and returns leaves everything else as it was.
LEMMA ReturnTypes ==
    ASSUME TypeInv, NEW w \in Workers, Return(w),
           UNCHANGED <<actorVars, cancelled, registry, quitting, alive>>
    PROVE  TypeInv'
<1> USE SupervisorAssumption DEF Return, GoTo, TypeInv, TypeOK
<1>1. /\ pc' \in [Threads -> Pcs]
      /\ job' \in [Workers -> Commands \cup {"none"}]
      /\ mine' \in [Workers -> Gens \cup {None}]
  BY DEF Threads, Pcs
<1>2. attempt' \in [Workers -> 0 .. MaxAttempts]
  BY BoundsAssumption
<1>3. /\ StartersTyped'
      /\ PassesTyped'
  BY DEF StartersTyped, PassesTyped, Threads, Starting, Owning, Closing
<1>4. /\ phase' = phase /\ gen' = gen /\ desired' = desired
      /\ process' = process /\ lease' = lease
      /\ cancellation' = cancellation /\ cancelled' = cancelled
      /\ registry' = registry /\ quitting' = quitting /\ alive' = alive
      /\ sweep' = sweep /\ taken' = taken /\ passes' = passes
  BY DEF actorVars
<1> QED
  BY <1>1, <1>2, <1>3, <1>4

LEMMA StepTypes ==
    ASSUME TypeInv, [Next]_vars
    PROVE  TypeInv'
<1> USE SupervisorAssumption, CommandsAssumption, BoundsAssumption,
        DeadlineAssumption
<1> USE DEF TypeInv, TypeOK, StartersTyped, PassesTyped, Threads, Gens, None, Pids, NoPid,
            Phases, Usable, Opening, PreStart, Owning, Closing, Starting,
            StopPcs, Pcs, Child, actorVars, localVars
<1>1. ASSUME NEW w \in Workers, Requests(w) PROVE TypeInv'
  <2>1. CASE RequestStart(w)
    BY <2>1 DEF RequestStart, Request, GoTo
  <2>2. CASE RequestRestart(w)
    BY <2>2 DEF RequestRestart, Request, GoTo
  <2>3. CASE RequestStop(w)
    BY <2>3 DEF RequestStop, Request, GoTo
  <2>4. CASE RequestStatus(w)
    BY <2>4 DEF RequestStatus, Request, GoTo
  <2> QED
    BY <1>1, <2>1, <2>2, <2>3, <2>4 DEF Requests
<1>2. ASSUME NEW w \in Workers, WorkerStep(w) PROVE TypeInv'
  <2>1. CASE QuitCheck(w)
    <3>1. CASE quitting
      BY <2>1, <3>1, ReturnTypes DEF QuitCheck
    <3>2. CASE ~quitting
      BY <2>1, <3>2 DEF QuitCheck, GoTo
    <3> QED
      BY <3>1, <3>2
  <2>2. CASE Admit(w)
    <3>1. CASE process # NoPid
      BY <2>2, <3>1, ReturnTypes DEF Admit
    <3>2. CASE process = NoPid
      BY <2>2, <3>2 DEF Admit, GoTo
    <3> QED
      BY <3>1, <3>2
  <2>3. CASE BeginStart(w)
    <3>1. CASE BeginStartRefused \/ desired = MaxGen
      BY <2>3, <3>1, ReturnTypes DEF BeginStart
    <3>2. CASE ~(BeginStartRefused \/ desired = MaxGen)
      BY <2>3, <3>2 DEF BeginStart, BeginGeneration, GoTo
    <3> QED
      BY <3>1, <3>2
  <2>4. CASE Prepare(w)
    BY <2>4 DEF Prepare, BindImage, MarkFailed, Return, GoTo
  <2>5. CASE Attempt(w)
    BY <2>5 DEF Attempt, GoTo
  <2>6. CASE Spawn(w)
    BY <2>6 DEF Spawn, GoTo
  <2>7. CASE Register(w)
    BY <2>7 DEF Register, GoTo
  <2>8. CASE WaitForReady(w)
    BY <2>8 DEF WaitForReady, GoTo
  <2>9. CASE KillAttempt(w)
    <3>1. CASE MoreAttempts(w) /\ GoTo(w, "attempt")
      BY <2>9, <3>1 DEF KillAttempt, StopChild, CompleteRegistration,
                         MoreAttempts, GoTo
    <3>2. CASE ~(MoreAttempts(w) /\ GoTo(w, "attempt"))
      BY <2>9, <3>2 DEF KillAttempt, StopChild, CompleteRegistration,
                         MoreAttempts, GoTo
    <3> QED
      BY <3>1, <3>2
  <2>10. CASE StartFailed(w)
    BY <2>10 DEF StartFailed, MarkFailed, Return, GoTo
  <2>11. CASE CheckReady(w)
    BY <2>11 DEF CheckReady, GoTo
  <2>12. CASE Discard(w)
    BY <2>12 DEF Discard, StopChild, GoTo
  <2>13. CASE DiscardSettle(w)
    BY <2>13 DEF DiscardSettle, SettleStopped, CompleteRegistration, Return,
                 GoTo
  <2>14. CASE RejectFailed(w)
    BY <2>14 DEF RejectFailed, MarkFailed, CompleteRegistration, Return, GoTo
  <2>15. CASE PublishReady(w)
    BY <2>15 DEF PublishReady, Publish, StopChild, CompleteRegistration,
                 Return, GoTo
  <2>16. CASE StopStep(w)
    BY <2>16 DEF StopStep, StopBegin, BeginStop, BeginStopPhase, AfterBegin,
                 Sweep, SweepKill, AfterSweep, StopProcess, GoTo
  <2>17. CASE Settle(w)
    <3>1. CASE job[w] = "restart"
      BY <2>17, <3>1 DEF Settle, SettleStopped, Return, GoTo
    <3>2. CASE job[w] # "restart"
      BY SMTT(60), <2>17, <3>2 DEF Settle, SettleStopped, Return, GoTo
    <3> QED
      BY <3>1, <3>2
  <2>18. CASE RestartCheck(w)
    <3>1. CASE quitting
      BY <2>18, <3>1, ReturnTypes DEF RestartCheck
    <3>2. CASE ~quitting
      BY <2>18, <3>2 DEF RestartCheck, GoTo
    <3> QED
      BY <3>1, <3>2
  <2>19. CASE Reap(w)
    BY <2>19 DEF Reap, SettleStopped, Return, GoTo
  <2> HIDE DEF TypeInv
  <2> QED
    BY ZenonT(60), <1>2, <2>1, <2>2, <2>3, <2>4, <2>5, <2>6, <2>7, <2>8, <2>9, <2>10,
       <2>11, <2>12, <2>13, <2>14, <2>15, <2>16, <2>17, <2>18, <2>19
       DEF WorkerStep, StartStep
<1>3. CASE RequestExit
  BY <1>3 DEF RequestExit, GoTo
<1>4. CASE SupervisorStep
  <2>1. CASE StopStep(Supervisor)
    BY <2>1 DEF StopStep, StopBegin, BeginStop, BeginStopPhase, AfterBegin,
                Sweep, SweepKill, AfterSweep, StopProcess, GoTo
  <2>2. CASE SettlePass
    BY <2>2 DEF SettlePass, SettleStopped, GoTo
  <2>3. CASE Drain
    BY <2>3 DEF Drain, GoTo
  <2> QED
    BY <1>4, <2>1, <2>2, <2>3 DEF SupervisorStep
<1>5. CASE ChildDies
  BY <1>5 DEF ChildDies
<1>6. CASE UNCHANGED vars
  BY <1>6 DEF vars
<1> QED
  BY <1>1, <1>2, <1>3, <1>4, <1>5, <1>6 DEF Next, Exited

LEMMA InitTypes == Init => TypeInv
<1> SUFFICES ASSUME Init PROVE TypeInv
  OBVIOUS
<1> USE SupervisorAssumption, BoundsAssumption, CommandsAssumption
        DEF Init, Threads, Gens, None, PreStart, Owning, Closing, Starting,
            StopPcs, Pcs
<1>1. /\ phase \in Phases
      /\ gen \in Gens \cup {None}
      /\ desired \in Gens \cup {None}
      /\ lease \in Gens \cup {None}
      /\ cancellation \in Gens \cup {None}
      /\ cancelled \subseteq Gens
      /\ passes \in 0 .. 3
  BY DEF Phases
<1>2. quitting \in BOOLEAN
  BY Zenon
<1>3. /\ process \in Pids \cup {NoPid}
      /\ registry \subseteq Pids
      /\ alive \subseteq Pids
      /\ sweep \in [Threads -> SUBSET Pids]
      /\ taken \in [Threads -> Pids \cup {NoPid}]
  OBVIOUS
<1>4. /\ job \in [Workers -> Commands \cup {"none"}]
      /\ mine \in [Workers -> Gens \cup {None}]
      /\ attempt \in [Workers -> 0 .. MaxAttempts]
  OBVIOUS
<1>5. pc \in [Threads -> Pcs]
  OBVIOUS
<1>6. StartersTyped /\ PassesTyped
  BY DEF StartersTyped, PassesTyped
<1> QED
  BY <1>1, <1>2, <1>3, <1>4, <1>5, <1>6 DEF TypeInv, TypeOK

\* The variables of the actor, the registry and every thread keep their
\* types, whatever the interleaving.
THEOREM TypeCorrect == Spec => []TypeOK
<1>1. Init => TypeInv
  BY InitTypes
<1>2. TypeInv /\ [Next]_vars => TypeInv'
  BY StepTypes
<1>3. TypeInv => TypeOK
  BY DEF TypeInv
<1> QED
  BY <1>1, <1>2, <1>3, PTL DEF Spec

-----------------------------------------------------------------------------
(* The lease.                                                              *)

\* Two start threads never work for the same generation, neither works for
\* a published one, and the actor's generation is the newest or none.
StartersDistinct ==
    \A v, w \in Workers :
        v # w /\ pc[v] \in Starting /\ pc[w] \in Starting =>
            mine[v] # mine[w]

StartersBegun ==
    \A w \in Workers : pc[w] \in Starting =>
        /\ mine[w] <= desired
        /\ process # NoPid => mine[w] # lease

GenerationCurrent == gen \in {None, desired}

\* LeaseCoherent alone is not inductive: mark_failed of a thread that works
\* for the published generation would break it.
LeaseInv ==
    /\ TypeInv
    /\ LeaseCoherent
    /\ StartersDistinct
    /\ StartersBegun
    /\ GenerationCurrent

\* No thread enters start_impl's working part in this step.
Quiet(w) == pc'[w] \in Starting => pc[w] \in Starting /\ mine'[w] = mine[w]
AllQuiet == \A w \in Workers : Quiet(w)

\* The ways in which a step can touch the actor.
Fails(w) == pc[w] \in Starting /\ MarkFailed(mine[w])

Publishes(w) ==
    /\ pc[w] \in Starting \ {"prepare"} /\ pc'[w] \notin Starting
    /\ CanPublish(mine[w])
    /\ Publish(Child(w))

Begins(w) ==
    /\ ~BeginStartRefused
    /\ desired # MaxGen
    /\ BeginGeneration
    /\ mine'[w] = desired + 1
    /\ pc[w] \notin Starting

QuietActorStep ==
    \/ UNCHANGED actorVars
    \/ SettleStopped
    \/ BeginStop
    \/ phase = "Preparing" /\ BindImage
    \/ \E w \in Workers : Fails(w) \/ Publishes(w)

ActorStep ==
    \/ AllQuiet /\ QuietActorStep
    \/ \E w \in Workers : Begins(w) /\ \A v \in Workers \ {w} : Quiet(v)

LEMMA Classify ==
    ASSUME TypeInv, [Next]_vars
    PROVE  ActorStep
<1> USE SupervisorAssumption
<1> USE DEF TypeInv, TypeOK, Threads, PreStart, Owning, Closing, Starting,
            StopPcs, Pcs, Quiet, AllQuiet, QuietActorStep, ActorStep,
            localVars
<1>1. ASSUME NEW w \in Workers, Requests(w) PROVE ActorStep
  BY <1>1 DEF Requests, RequestStart, RequestRestart, RequestStop,
              RequestStatus, Request, GoTo
<1>2. ASSUME NEW w \in Workers, WorkerStep(w) PROVE ActorStep
  <2>1. CASE QuitCheck(w)
    BY <2>1 DEF QuitCheck, Return, GoTo
  <2>2. CASE Admit(w)
    BY <2>2 DEF Admit, Return, GoTo
  <2>3. CASE BeginStart(w)
    <3>1. CASE BeginStartRefused \/ desired = MaxGen
      BY <2>3, <3>1 DEF BeginStart, Return, GoTo
    <3>2. CASE ~(BeginStartRefused \/ desired = MaxGen)
      <4>1. Begins(w)
        BY <2>3, <3>2 DEF BeginStart, Begins, GoTo
      <4>2. \A v \in Workers \ {w} : Quiet(v)
        BY <2>3, <3>2 DEF BeginStart, GoTo
      <4> QED
        BY <4>1, <4>2
    <3> QED
      BY <3>1, <3>2
  <2>4. CASE Prepare(w)
    BY <2>4 DEF Prepare, CanBind, Fails, Return, GoTo
  <2>5. CASE Attempt(w)
    BY <2>5 DEF Attempt, GoTo
  <2>6. CASE Spawn(w)
    BY <2>6 DEF Spawn, GoTo
  <2>7. CASE Register(w)
    BY <2>7 DEF Register, GoTo
  <2>8. CASE WaitForReady(w)
    BY <2>8 DEF WaitForReady, GoTo
  <2>9. CASE KillAttempt(w)
    BY <2>9 DEF KillAttempt, GoTo
  <2>10. CASE StartFailed(w)
    BY <2>10 DEF StartFailed, Fails, Return, GoTo
  <2>11. CASE CheckReady(w)
    BY <2>11 DEF CheckReady, GoTo
  <2>12. CASE Discard(w)
    BY <2>12 DEF Discard, GoTo
  <2>13. CASE DiscardSettle(w)
    BY <2>13 DEF DiscardSettle, Return, GoTo
  <2>14. CASE RejectFailed(w)
    BY <2>14 DEF RejectFailed, Fails, Return, GoTo
  <2>15. CASE PublishReady(w)
    BY <2>15 DEF PublishReady, Publishes, Return, GoTo
  <2>16. CASE StopStep(w)
    BY <2>16 DEF StopStep, StopBegin, AfterBegin, Sweep, SweepKill,
                 AfterSweep, StopProcess, GoTo
  <2>17. CASE Settle(w)
    BY <2>17 DEF Settle, Return, GoTo
  <2>18. CASE RestartCheck(w)
    BY <2>18 DEF RestartCheck, Return, GoTo
  <2>19. CASE Reap(w)
    BY <2>19 DEF Reap, Return, GoTo
  <2> QED
    BY <1>2, <2>1, <2>2, <2>3, <2>4, <2>5, <2>6, <2>7, <2>8, <2>9, <2>10,
       <2>11, <2>12, <2>13, <2>14, <2>15, <2>16, <2>17, <2>18, <2>19
       DEF WorkerStep, StartStep
<1>3. CASE RequestExit
  BY <1>3 DEF RequestExit, GoTo
<1>4. CASE SupervisorStep
  BY <1>4 DEF SupervisorStep, StopStep, StopBegin, AfterBegin, Sweep,
              SweepKill, AfterSweep, StopProcess, SettlePass, Drain, GoTo
<1>5. CASE ChildDies
  BY <1>5 DEF ChildDies
<1>6. CASE UNCHANGED vars
  BY <1>6 DEF vars
<1> QED
  BY <1>1, <1>2, <1>3, <1>4, <1>5, <1>6 DEF Next, Exited

LEMMA LeaseInvStep ==
    ASSUME LeaseInv, [Next]_vars
    PROVE  LeaseInv'
<1> USE BoundsAssumption
<1> USE DEF LeaseInv, LeaseCoherent, StartersDistinct, StartersBegun,
            GenerationCurrent, None, NoPid, Gens, Usable, Opening
<1>1. TypeInv'
  BY StepTypes
<1>2. ActorStep
  BY Classify
<1>t. /\ gen \in Gens \cup {None} /\ desired \in Gens \cup {None}
      /\ lease \in Gens \cup {None} /\ process \in Pids \cup {NoPid}
      /\ \A w \in Workers : pc[w] \in Starting => mine[w] \in Gens
  BY DEF TypeInv, TypeOK, StartersTyped
<1>3. CASE AllQuiet /\ UNCHANGED actorVars
  BY <1>1, <1>3 DEF AllQuiet, Quiet, actorVars
<1>4. CASE AllQuiet /\ SettleStopped
  BY <1>1, <1>t, <1>4 DEF AllQuiet, Quiet, SettleStopped
<1>5. CASE AllQuiet /\ BeginStop
  BY <1>1, <1>t, <1>5 DEF AllQuiet, Quiet, BeginStop, BeginStopPhase
<1>6. CASE AllQuiet /\ phase = "Preparing" /\ BindImage
  BY <1>1, <1>t, <1>6 DEF AllQuiet, Quiet, BindImage
<1>7. ASSUME AllQuiet, NEW w \in Workers, Fails(w) PROVE LeaseInv'
  BY <1>1, <1>t, <1>7 DEF AllQuiet, Quiet, Fails, MarkFailed, actorVars
<1>8. ASSUME AllQuiet, NEW w \in Workers, Publishes(w) PROVE LeaseInv'
  <2>1. /\ mine[w] \in Gens /\ gen = mine[w] /\ mine[w] = desired
        /\ pc[w] \in Starting /\ pc'[w] \notin Starting
        /\ process' = Child(w) /\ lease' = mine[w]
        /\ phase' \in Usable /\ gen' = gen /\ desired' = desired
    BY <1>t, <1>8 DEF Publishes, CanPublish, Publish, Child
  <2>2. process'.gen = mine[w] /\ process' # NoPid
    BY <2>1 DEF Child
  <2> QED
    BY <1>1, <1>8, <2>1, <2>2 DEF AllQuiet, Quiet
<1>9. ASSUME NEW w \in Workers, Begins(w),
             \A v \in Workers \ {w} : Quiet(v)
      PROVE  LeaseInv'
  BY <1>1, <1>t, <1>9 DEF Quiet, Begins, BeginGeneration, BeginStartRefused,
                          IsTransitioning
<1> QED
  BY <1>2, <1>3, <1>4, <1>5, <1>6, <1>7, <1>8, <1>9
     DEF ActorStep, QuietActorStep

LEMMA LeaseInvInit == Init => LeaseInv
<1> SUFFICES ASSUME Init PROVE LeaseInv
  OBVIOUS
<1>1. TypeInv
  BY InitTypes
<1>2. LeaseCoherent /\ GenerationCurrent
  BY DEF Init, LeaseCoherent, GenerationCurrent, None, NoPid, Usable
<1>3. StartersDistinct /\ StartersBegun
  BY DEF Init, StartersDistinct, StartersBegun, Starting, Owning, Closing,
         Threads
<1> QED
  BY <1>1, <1>2, <1>3 DEF LeaseInv

\* Whatever starts, stops, crashes and status polls interleave, a lease is
\* there exactly while a Ready Runtime of the newest generation is owned.
THEOREM LeaseIsCoherent == Spec => []LeaseCoherent
<1>1. LeaseInv => LeaseCoherent
  BY DEF LeaseInv
<1> QED
  BY LeaseInvInit, LeaseInvStep, <1>1, PTL DEF Spec

\* The lifecycle implements the abstract lease service: a cancelled, failed
\* or stopped generation never gets a lease, and none gets two.
THEOREM ImplementsLeaseService == Spec => LeaseServiceSafety
<1>1. Init => Leases!LSInit
  BY DEF Init, Leases!LSInit, Opening, None
<1>2. LeaseInv /\ [Next]_vars => [Leases!LSNext]_(Leases!lsVars)
  <2> SUFFICES ASSUME LeaseInv, [Next]_vars
               PROVE  Leases!LSNext \/ UNCHANGED Leases!lsVars
    OBVIOUS
  <2> USE BoundsAssumption DEF Leases!lsVars, Opening, Usable, None, NoPid
  <2>1. ActorStep /\ TypeInv
    BY Classify DEF LeaseInv
  <2>t. /\ gen \in Gens \cup {None} /\ desired \in Gens \cup {None}
        /\ \A w \in Workers : pc[w] \in Starting => mine[w] \in Gens
    BY <2>1 DEF TypeInv, TypeOK, StartersTyped
  <2>2. CASE UNCHANGED actorVars
    BY <2>2 DEF actorVars
  <2>3. CASE SettleStopped \/ BeginStop
    BY <2>3 DEF LeaseInv, LeaseCoherent, SettleStopped, BeginStop,
                BeginStopPhase, Leases!LSNext, Leases!GiveUp, Leases!Revoke
  <2>4. CASE phase = "Preparing" /\ BindImage
    BY <2>4 DEF BindImage
  <2>5. ASSUME NEW w \in Workers, Fails(w)
        PROVE  Leases!LSNext \/ UNCHANGED Leases!lsVars
    <3>1. gen = mine[w] => lease = None
      BY <2>5, <2>t DEF Fails, LeaseInv, LeaseCoherent, StartersBegun, Gens
    <3> QED
      BY <2>5, <3>1 DEF Fails, MarkFailed, actorVars, Leases!LSNext,
                        Leases!GiveUp
  <2>6. ASSUME NEW w \in Workers, Publishes(w)
        PROVE  Leases!LSNext
    <3>1. mine[w] = desired
      BY <2>6, <2>t DEF Publishes, CanPublish, LeaseInv, GenerationCurrent,
                        Gens
    <3> QED
      BY <2>6, <3>1 DEF Publishes, CanPublish, Publish, Child,
                        Leases!LSNext, Leases!Grant
  <2>7. ASSUME NEW w \in Workers, Begins(w)
        PROVE  Leases!LSNext
    BY <2>7 DEF Begins, BeginGeneration, BeginStartRefused, IsTransitioning,
                LeaseInv, LeaseCoherent, Leases!LSNext, Leases!Open
  <2> QED
    BY <2>1, <2>2, <2>3, <2>4, <2>5, <2>6, <2>7 DEF ActorStep, QuietActorStep
<1> QED
  BY <1>1, <1>2, LeaseInvInit, LeaseInvStep, PTL
     DEF Spec, LeaseServiceSafety, Leases!LSSpec
-----------------------------------------------------------------------------
(* The children.                                                           *)

\* A stop pass forgets the process it took before it begins another one: a
\* worker ends it after the sweep, the exit path at once.
HoldsTaken(t) == pc[t] \in IF t = Supervisor THEN {"stop_process"}
                           ELSE {"sweep", "sweep_kill", "stop_process"}
TakenShape == \A t \in Threads : taken[t] # NoPid => HoldsTaken(t)

OwnedInv == TypeInv /\ TakenShape /\ EveryChildOwned

\* A child stays owned when it stays in the hands that hold it, or gets from
\* the start thread to the actor.
LEMMA OwnersStay ==
    ASSUME EveryChildOwned,
           alive' \subseteq alive,
           process \in alive' => process' = process,
           \A w \in Workers :
               pc[w] \in Owning /\ Child(w) \in alive' =>
                   \/ pc'[w] \in Owning /\ Child(w)' = Child(w)
                   \/ process' = Child(w),
           \A t \in Threads :
               pc[t] \in StopPcs /\ taken[t] \in alive' =>
                   pc'[t] \in StopPcs /\ taken'[t] = taken[t]
    PROVE  EveryChildOwned'
BY DEF EveryChildOwned

LEMMA TakenShapeStep ==
    ASSUME TypeInv, TakenShape, [Next]_vars
    PROVE  TakenShape'
<1> USE SupervisorAssumption
<1> USE DEF TypeInv, TypeOK, PassesTyped, TakenShape, HoldsTaken, Threads, localVars
<1>1. ASSUME NEW w \in Workers, Requests(w) PROVE TakenShape'
  BY <1>1 DEF Requests, RequestStart, RequestRestart, RequestStop,
              RequestStatus, Request, GoTo
<1>2. ASSUME NEW w \in Workers, StartStep(w) \/ RestartCheck(w) \/ Reap(w)
      PROVE  TakenShape'
  <2>1. pc[w] \notin {"sweep", "sweep_kill", "stop_process"} /\ taken' = taken
    BY <1>2 DEF StartStep, QuitCheck, Admit, BeginStart, Prepare, Attempt, Spawn,
                Register, WaitForReady, KillAttempt, StartFailed, CheckReady,
                Discard, DiscardSettle, RejectFailed, PublishReady,
                RestartCheck, Reap, Return
  <2>2. \A t \in Threads \ {w} : pc'[t] = pc[t]
    BY <1>2 DEF StartStep, QuitCheck, Admit, BeginStart, Prepare, Attempt, Spawn,
                Register, WaitForReady, KillAttempt, StartFailed, CheckReady,
                Discard, DiscardSettle, RejectFailed, PublishReady,
                RestartCheck, Reap, Return, GoTo
  <2> QED
    BY <2>1, <2>2
<1>3. ASSUME NEW t \in Threads, StopStep(t) PROVE TakenShape'
  BY <1>3 DEF StopStep, StopBegin, AfterBegin, Sweep, SweepKill, AfterSweep,
              StopProcess, GoTo
<1>4. ASSUME NEW w \in Workers, Settle(w) PROVE TakenShape'
  BY <1>4 DEF Settle, Return, GoTo
<1>5. CASE RequestExit
  BY <1>5 DEF RequestExit, GoTo
<1>6. CASE SettlePass \/ Drain
  BY <1>6 DEF SettlePass, Drain, GoTo
<1>7. CASE ChildDies \/ UNCHANGED vars
  BY <1>7 DEF ChildDies, vars
<1> QED
  BY <1>1, <1>2, <1>3, <1>4, <1>5, <1>6, <1>7
     DEF Next, Exited, WorkerStep, SupervisorStep

LEMMA EveryChildOwnedStep ==
    ASSUME OwnedInv, [Next]_vars
    PROVE  EveryChildOwned'
<1> USE SupervisorAssumption
<1>t. /\ Supervisor \notin Workers /\ Threads = Workers \cup {Supervisor}
      /\ pc \in [Threads -> Pcs] /\ mine \in [Workers -> Gens \cup {None}]
      /\ attempt \in [Workers -> 0 .. MaxAttempts]
      /\ taken \in [Threads -> Pids \cup {NoPid}]
      /\ alive \subseteq Pids /\ EveryChildOwned
      /\ NoPid \notin Pids
  BY DEF OwnedInv, TypeInv, TypeOK, Threads, NoPid, Pids, Gens, None
<1> USE <1>t
<1>1. ASSUME NEW w \in Workers, Requests(w) PROVE EveryChildOwned'
  BY <1>1, OwnersStay
     DEF Requests, RequestStart, RequestRestart, RequestStop, RequestStatus,
         Request, GoTo, Child, Owning, StopPcs, actorVars
<1>2. ASSUME NEW w \in Workers,
             \/ QuitCheck(w) \/ Admit(w) \/ BeginStart(w) \/ Prepare(w)
             \/ Attempt(w) \/ RestartCheck(w) \/ StartFailed(w)
      PROVE  EveryChildOwned'
  <2>1. /\ pc[w] \notin Owning \cup StopPcs
        /\ process' = process /\ alive' = alive /\ taken' = taken
    BY <1>2 DEF QuitCheck, Admit, BeginStart, Prepare, Attempt, RestartCheck,
                StartFailed, Return, BeginGeneration, BindImage, MarkFailed,
                Owning, StopPcs, actorVars, localVars
  <2>2. \A v \in Workers \ {w} :
            pc'[v] = pc[v] /\ mine'[v] = mine[v] /\ attempt'[v] = attempt[v]
    BY <1>2 DEF QuitCheck, Admit, BeginStart, Prepare, Attempt, RestartCheck,
                StartFailed, Return, GoTo, localVars
  <2>3. pc'[Supervisor] = pc[Supervisor]
    BY <1>2 DEF QuitCheck, Admit, BeginStart, Prepare, Attempt, RestartCheck,
                StartFailed, Return, GoTo
  <2> QED
    BY <2>1, <2>2, <2>3, OwnersStay DEF Child
<1>3. ASSUME NEW w \in Workers, Spawn(w) PROVE EveryChildOwned'
  <2>1. CASE alive' = alive
    BY <1>3, <2>1, OwnersStay
       DEF Spawn, GoTo, Child, Owning, StopPcs, actorVars, localVars
  <2>2. CASE alive' = alive \cup {Child(w)} /\ GoTo(w, "spawned")
    <3>1. pc'[w] \in Owning /\ Child(w)' = Child(w)
      BY <1>3, <2>2 DEF Spawn, GoTo, Owning, Child, localVars
    <3>2. ASSUME NEW pid \in alive
          PROVE  \/ process' = pid
                 \/ \E v \in Workers : pc'[v] \in Owning /\ Child(v)' = pid
                 \/ \E t \in Threads : pc'[t] \in StopPcs /\ taken'[t] = pid
      BY <1>3, <2>2 DEF EveryChildOwned, Spawn, GoTo, Owning, StopPcs, Child,
                        actorVars, localVars
    <3> QED
      BY <2>2, <3>1, <3>2 DEF EveryChildOwned
  <2> QED
    BY <1>3, <2>1, <2>2 DEF Spawn
<1>4. ASSUME NEW w \in Workers, Register(w) \/ WaitForReady(w) \/ CheckReady(w)
      PROVE  EveryChildOwned'
  BY <1>4, OwnersStay DEF Register, WaitForReady, CheckReady, GoTo, Child, Owning,
                          StopPcs, actorVars, localVars
<1>5. ASSUME NEW w \in Workers, KillAttempt(w) \/ Discard(w)
      PROVE  EveryChildOwned'
  <2>1. /\ pc[w] \in Owning /\ pc[w] \notin StopPcs
        /\ process' = process /\ alive' = alive \ {Child(w)} /\ taken' = taken
    BY <1>5 DEF KillAttempt, Discard, StopChild, Owning, StopPcs, actorVars,
                localVars
  <2>2. \A v \in Workers \ {w} :
            pc'[v] = pc[v] /\ mine'[v] = mine[v] /\ attempt'[v] = attempt[v]
    BY <1>5 DEF KillAttempt, Discard, GoTo, localVars
  <2>3. pc'[Supervisor] = pc[Supervisor]
    BY <1>5 DEF KillAttempt, Discard, GoTo
  <2> QED
    BY <2>1, <2>2, <2>3, OwnersStay DEF Child
<1>6. ASSUME NEW w \in Workers, DiscardSettle(w) \/ RejectFailed(w) \/ Reap(w)
      PROVE  EveryChildOwned'
  <2>1. /\ pc[w] \notin Owning \cup StopPcs
        /\ alive' \subseteq alive /\ taken' = taken
        /\ process \in alive' => process' = process
    BY <1>6 DEF DiscardSettle, RejectFailed, Reap, SettleStopped, MarkFailed,
                ProcessDied, Return, Owning, StopPcs, actorVars
  <2>2. \A v \in Workers \ {w} :
            pc'[v] = pc[v] /\ mine'[v] = mine[v] /\ attempt'[v] = attempt[v]
    BY <1>6 DEF DiscardSettle, RejectFailed, Reap, Return, GoTo
  <2>3. pc'[Supervisor] = pc[Supervisor]
    BY <1>6 DEF DiscardSettle, RejectFailed, Reap, Return, GoTo
  <2> QED
    BY <2>1, <2>2, <2>3, OwnersStay DEF Child
<1>7. ASSUME NEW w \in Workers, PublishReady(w) PROVE EveryChildOwned'
  <2>1. /\ pc[w] \notin StopPcs
        /\ alive' \subseteq alive /\ taken' = taken
        /\ process \in alive' => process' = process
        /\ Child(w) \in alive' => process' = Child(w)
    BY <1>7 DEF PublishReady, Publish, StopChild, Return, StopPcs, actorVars
  <2>2. \A v \in Workers \ {w} :
            pc'[v] = pc[v] /\ mine'[v] = mine[v] /\ attempt'[v] = attempt[v]
    BY <1>7 DEF PublishReady, Return, GoTo
  <2>3. pc'[Supervisor] = pc[Supervisor]
    BY <1>7 DEF PublishReady, Return, GoTo
  <2> QED
    BY <2>1, <2>2, <2>3, OwnersStay DEF Child
<1>8. ASSUME NEW t \in Threads, StopBegin(t) PROVE EveryChildOwned'
  <2>1. /\ pc[t] = "begin_stop" /\ taken'[t] = process /\ pc'[t] \in StopPcs
        /\ alive' = alive /\ mine' = mine /\ attempt' = attempt
        /\ \A u \in Threads \ {t} : pc'[u] = pc[u] /\ taken'[u] = taken[u]
    BY <1>8 DEF StopBegin, AfterBegin, GoTo, StopPcs
  <2>2. taken[t] = NoPid
    BY <2>1 DEF OwnedInv, TakenShape, HoldsTaken
  <2>3. \A w \in Workers : pc[w] \in Owning => pc'[w] = pc[w]
    BY <2>1 DEF Owning
  <2> QED
    BY <2>1, <2>2, <2>3 DEF EveryChildOwned, Child
<1>9. ASSUME NEW t \in Threads, Sweep(t) \/ SweepKill(t) \/ StopProcess(t)
      PROVE  EveryChildOwned'
  <2>1. /\ pc[t] \in StopPcs /\ pc'[t] \in StopPcs
        /\ alive' \subseteq alive /\ process' = process
        /\ mine' = mine /\ attempt' = attempt
        /\ \A u \in Threads \ {t} : pc'[u] = pc[u] /\ taken'[u] = taken[u]
    BY <1>9 DEF Sweep, SweepKill, StopProcess, AfterSweep, GoTo, StopPcs, actorVars
  <2>2. taken[t] \in alive' => taken'[t] = taken[t]
    BY <1>9 DEF Sweep, SweepKill, StopProcess
  <2>3. \A w \in Workers : pc[w] \in Owning => pc'[w] = pc[w]
    BY <2>1 DEF Owning, StopPcs
  <2> QED
    BY <2>1, <2>2, <2>3, OwnersStay DEF Child
<1>10. ASSUME NEW w \in Workers, Settle(w) PROVE EveryChildOwned'
  <2>1. /\ pc[w] = "settle" /\ alive' = alive \ {process} /\ taken' = taken
        /\ taken[w] = NoPid
    BY <1>10 DEF Settle, Return, localVars, OwnedInv, TakenShape, HoldsTaken
  <2>2. \A v \in Workers \ {w} :
            pc'[v] = pc[v] /\ mine'[v] = mine[v] /\ attempt'[v] = attempt[v]
    BY <1>10 DEF Settle, Return, GoTo, localVars
  <2>3. pc'[Supervisor] = pc[Supervisor]
    BY <1>10 DEF Settle, Return, GoTo
  <2>4. pc[w] \notin Owning
    BY <2>1 DEF Owning
  <2> QED
    BY <2>1, <2>2, <2>3, <2>4, OwnersStay DEF Child
<1>11. CASE SettlePass
  <2>1. /\ alive' = alive \ {process} /\ taken' = taken
        /\ taken[Supervisor] = NoPid
        /\ mine' = mine /\ attempt' = attempt
        /\ \A w \in Workers : pc'[w] = pc[w]
    BY <1>11 DEF SettlePass, GoTo, OwnedInv, TakenShape, HoldsTaken
  <2> QED
    BY <2>1, OwnersStay DEF Child
<1>12. CASE RequestExit \/ Drain
  <2>1. /\ alive' = alive /\ taken' = taken /\ process' = process
        /\ mine' = mine /\ attempt' = attempt /\ pc[Supervisor] \notin StopPcs
        /\ \A w \in Workers : pc'[w] = pc[w]
    BY <1>12 DEF RequestExit, Drain, GoTo, actorVars, localVars, StopPcs, OwnedInv,
                 TypeInv, PassesTyped
  <2> QED
    BY <2>1, OwnersStay DEF Child
<1>13. CASE ChildDies \/ UNCHANGED vars
  BY <1>13, OwnersStay DEF ChildDies, vars, actorVars, localVars, Child
<1> QED
  BY <1>1, <1>2, <1>3, <1>4, <1>5, <1>6, <1>7, <1>8, <1>9, <1>10, <1>11, <1>12,
     <1>13 DEF Next, Exited, WorkerStep, StartStep, StopStep, SupervisorStep, Threads

LEMMA OwnedInvariance == Spec => []OwnedInv
<1>1. Init => OwnedInv
  BY InitTypes DEF Init, OwnedInv, TakenShape, EveryChildOwned
<1>2. OwnedInv /\ [Next]_vars => OwnedInv'
  BY StepTypes, TakenShapeStep, EveryChildOwnedStep DEF OwnedInv
<1> QED
  BY <1>1, <1>2, PTL DEF Spec

\* A running dsh process always has somebody who will end it, however starts,
\* stops, restarts, the exit and crashes interleave.
THEOREM NoChildIsLost == Spec => []EveryChildOwned
<1>1. OwnedInv => EveryChildOwned
  BY DEF OwnedInv
<1> QED
  BY OwnedInvariance, <1>1, PTL
-----------------------------------------------------------------------------
(* The exit.                                                               *)

\* A start thread that holds a child somebody else could find by its entry
\* in the registry.
Holding == {"waiting", "ready", "discard", "reject", "publish"}
Registered == \A w \in Workers : pc[w] \in Holding => Child(w) \in registry

\* The supervisor has seen an empty registry after the quitting flag was set.
AfterDrain == passes >= 1 /\ pc[Supervisor] # "drain"
NoneHeld ==
    AfterDrain /\ ~DeadlineMayFire => \A w \in Workers : pc[w] \notin Holding

ExitShape ==
    /\ passes # 0 => pc[Supervisor] # "idle"
    /\ pc[Supervisor] = "exited" => process = NoPid /\ passes >= 1

ExitInv == LeaseInv /\ OwnedInv /\ Registered /\ NoneHeld /\ ExitShape

\* A start thread keeps a registered child, or has just registered it, which
\* the second admission check allows only while the host is not quitting.
HeldBefore(w) ==
    /\ pc[w] \in Holding \cup {"spawned"}
    /\ Child(w)' = Child(w)
    /\ pc[w] \notin Holding => ~quitting /\ Child(w) \in registry'
HoldersKeep == \A w \in Workers : pc'[w] \in Holding => HeldBefore(w)

LEMMA HoldingStep ==
    ASSUME TypeInv, [Next]_vars
    PROVE  HoldersKeep
<1> USE SupervisorAssumption
<1>t. /\ pc \in [Threads -> Pcs] /\ Threads = Workers \cup {Supervisor}
      /\ mine \in [Workers -> Gens \cup {None}]
      /\ attempt \in [Workers -> 0 .. MaxAttempts]
  BY DEF TypeInv, TypeOK, Threads
<1> USE <1>t DEF HoldersKeep, HeldBefore, Holding, Child, localVars, GoTo
<1>1. ASSUME NEW v \in Workers, Requests(v) PROVE HoldersKeep
  BY <1>1 DEF Requests, RequestStart, RequestRestart, RequestStop,
              RequestStatus, Request
<1>2. ASSUME NEW v \in Workers,
             \/ QuitCheck(v) \/ Admit(v) \/ BeginStart(v) \/ Prepare(v)
             \/ Attempt(v) \/ Spawn(v) \/ KillAttempt(v) \/ StartFailed(v)
             \/ Discard(v) \/ DiscardSettle(v) \/ RejectFailed(v)
             \/ PublishReady(v)
      PROVE  HoldersKeep
  <2>1. pc'[v] \notin Holding
    BY <1>2 DEF QuitCheck, Admit, BeginStart, Prepare, Attempt, Spawn, KillAttempt,
                StartFailed, Discard, DiscardSettle, RejectFailed, PublishReady,
                Return
  <2>2. \A u \in Workers \ {v} :
            pc'[u] = pc[u] /\ mine'[u] = mine[u] /\ attempt'[u] = attempt[u]
    BY <1>2 DEF QuitCheck, Admit, BeginStart, Prepare, Attempt, Spawn, KillAttempt,
                StartFailed, Discard, DiscardSettle, RejectFailed, PublishReady,
                Return
  <2> QED
    BY <2>1, <2>2
<1>3. ASSUME NEW v \in Workers, Register(v) \/ WaitForReady(v) \/ CheckReady(v)
      PROVE  HoldersKeep
  BY <1>3 DEF Register, WaitForReady, CheckReady
<1>4. ASSUME NEW v \in Workers, Settle(v) \/ RestartCheck(v) \/ Reap(v)
      PROVE  HoldersKeep
  <2>1. pc'[v] \notin Holding
    BY <1>4 DEF Settle, RestartCheck, Reap, Return
  <2>2. \A u \in Workers \ {v} :
            pc'[u] = pc[u] /\ mine'[u] = mine[u] /\ attempt'[u] = attempt[u]
    BY <1>4 DEF Settle, RestartCheck, Reap, Return
  <2> QED
    BY <2>1, <2>2
<1>5. ASSUME NEW t \in Threads, StopStep(t) PROVE HoldersKeep
  BY <1>5 DEF StopStep, StopBegin, AfterBegin, Sweep, SweepKill, AfterSweep,
              StopProcess
<1>6. CASE RequestExit \/ SettlePass \/ Drain
  BY <1>6 DEF RequestExit, SettlePass, Drain
<1>7. CASE ChildDies \/ UNCHANGED vars
  BY <1>7 DEF ChildDies, vars
<1> HIDE DEF HoldersKeep, HeldBefore, Holding, Child, localVars, GoTo
<1>8. ASSUME NEW v \in Workers, WorkerStep(v) PROVE HoldersKeep
  <2>1. v \in Threads
    BY <1>t
  <2> QED
    BY ZenonT(60), <1>2, <1>3, <1>4, <1>5, <1>8, <2>1 DEF WorkerStep, StartStep
<1>9. CASE Next
  <2>1. Supervisor \in Threads
    BY <1>t
  <2> QED
    BY ZenonT(60), <1>1, <1>5, <1>6, <1>7, <1>8, <1>9, <2>1
       DEF Next, Exited, SupervisorStep
<1> QED
  BY <1>7, <1>9

\* Only the start thread that made an entry removes it, on its way out.
LEMMA RegistryStep ==
    ASSUME TypeInv, [Next]_vars, NEW pid \in registry, pid \notin registry'
    PROVE  \E v \in Workers : /\ pc[v] \in Starting /\ pid = Child(v)
                              /\ pc'[v] \notin Holding
<1> USE SupervisorAssumption
<1>t. pc \in [Threads -> Pcs] /\ Threads = Workers \cup {Supervisor}
  BY DEF TypeInv, TypeOK, Threads
<1>1. ~ \E v \in Workers : Requests(v) \/ Settle(v) \/ RestartCheck(v) \/ Reap(v)
  BY DEF Requests, RequestStart, RequestRestart, RequestStop, RequestStatus,
         Request, Settle, RestartCheck, Reap
<1>2. ~ \E v \in Workers :
          \/ QuitCheck(v) \/ Admit(v) \/ BeginStart(v) \/ Prepare(v)
          \/ Attempt(v) \/ Spawn(v) \/ Register(v) \/ WaitForReady(v)
          \/ StartFailed(v) \/ CheckReady(v) \/ Discard(v)
  BY DEF QuitCheck, Admit, BeginStart, Prepare, Attempt, Spawn, Register,
         WaitForReady, StartFailed, CheckReady, Discard
<1>3. ~ \E t \in Threads : StopStep(t)
  BY DEF StopStep, StopBegin, Sweep, SweepKill, StopProcess
<1>4. ~(RequestExit \/ SettlePass \/ Drain \/ ChildDies \/ UNCHANGED vars)
  BY DEF RequestExit, SettlePass, Drain, ChildDies, vars
<1>5. PICK v \in Workers :
         KillAttempt(v) \/ DiscardSettle(v) \/ RejectFailed(v) \/ PublishReady(v)
  BY <1>1, <1>2, <1>3, <1>4, <1>t
     DEF Next, Exited, WorkerStep, StartStep, SupervisorStep
<1>6. pc[v] \in Starting /\ pid = Child(v)
  BY <1>5 DEF KillAttempt, DiscardSettle, RejectFailed, PublishReady,
              CompleteRegistration, Starting, Owning, Closing
<1>7. pc'[v] \notin Holding
  BY <1>5, <1>t DEF KillAttempt, DiscardSettle, RejectFailed, PublishReady, Return,
                    GoTo, Holding
<1> QED
  BY <1>6, <1>7

LEMMA RegisteredStep ==
    ASSUME TypeInv, StartersDistinct, Registered, [Next]_vars
    PROVE  Registered'
<1> SUFFICES ASSUME NEW w \in Workers, pc'[w] \in Holding
             PROVE  Child(w)' \in registry'
  BY DEF Registered
<1>1. /\ Child(w)' = Child(w)
      /\ pc[w] \in Holding \/ Child(w) \in registry'
  BY HoldingStep DEF HoldersKeep, HeldBefore
<1>2. ASSUME pc[w] \in Holding, Child(w) \notin registry' PROVE FALSE
  <2>1. Child(w) \in registry
    BY <1>2 DEF Registered
  <2>2. PICK v \in Workers : /\ pc[v] \in Starting /\ Child(w) = Child(v)
                             /\ pc'[v] \notin Holding
    BY <1>2, <2>1, RegistryStep
  <2>3. v # w /\ pc[w] \in Starting /\ mine[v] = mine[w]
    BY <1>2, <2>2 DEF Child, Holding, Starting, Owning
  <2> QED
    BY <2>2, <2>3 DEF StartersDistinct
<1> QED
  BY <1>1, <1>2

\* The supervisor leaves the drain only past an empty registry.
ExitMove ==
    /\ ExitShape'
    /\ AfterDrain' => \/ AfterDrain
                      \/ DeadlineMayFire
                      \/ registry = {} /\ \A w \in Workers : pc'[w] = pc[w]

LEMMA SupervisorMoves ==
    ASSUME TypeInv, ExitShape, [Next]_vars
    PROVE  ExitMove
<1> USE SupervisorAssumption
<1>t. /\ pc \in [Threads -> Pcs] /\ Threads = Workers \cup {Supervisor}
      /\ passes \in 0 .. 3 /\ (pc[Supervisor] # "idle" => quitting)
  BY DEF TypeInv, TypeOK, PassesTyped, Threads
<1> USE <1>t DEF ExitMove, ExitShape, AfterDrain, localVars, GoTo
<1>1. ASSUME NEW v \in Workers, Requests(v) PROVE ExitMove
  BY <1>1 DEF Requests, RequestStart, RequestRestart, RequestStop,
              RequestStatus, Request, actorVars
<1>2. ASSUME NEW v \in Workers, WorkerStep(v) PROVE ExitMove
  <2>1. pc[Supervisor] # "exited"
    BY <1>2 DEF WorkerStep
  <2>2. pc'[Supervisor] = pc[Supervisor] /\ passes' = passes
    BY <1>2 DEF WorkerStep, StartStep, QuitCheck, Admit, BeginStart, Prepare,
                Attempt, Spawn, Register, WaitForReady, KillAttempt, StartFailed,
                CheckReady, Discard, DiscardSettle, RejectFailed, PublishReady,
                StopStep, StopBegin, Sweep, SweepKill, StopProcess, Settle,
                RestartCheck, Reap, Return
  <2> QED
    BY <2>1, <2>2
<1>3. CASE StopStep(Supervisor)
  BY <1>3 DEF StopStep, StopBegin, AfterBegin, Sweep, SweepKill, AfterSweep,
              StopProcess
<1>4. CASE RequestExit
  BY <1>4 DEF RequestExit
<1>5. CASE SettlePass
  BY <1>5 DEF SettlePass, SettleStopped
<1>6. CASE Drain
  BY <1>6 DEF Drain, Drained
<1>7. CASE ChildDies \/ UNCHANGED vars
  BY <1>7 DEF ChildDies, vars, actorVars
<1> HIDE DEF ExitMove, ExitShape, AfterDrain, localVars, GoTo
<1>8. CASE Next
  BY ZenonT(60), <1>1, <1>2, <1>3, <1>4, <1>5, <1>6, <1>7, <1>8
     DEF Next, Exited, SupervisorStep
<1> QED
  BY <1>7, <1>8

LEMMA NoneHeldStep ==
    ASSUME ExitInv, [Next]_vars
    PROVE  NoneHeld'
<1> SUFFICES ASSUME AfterDrain', ~DeadlineMayFire, NEW w \in Workers,
                    pc'[w] \in Holding
             PROVE  FALSE
  BY DEF NoneHeld
<1> USE SupervisorAssumption DEF ExitInv
<1>1. /\ pc[w] \in Holding \cup {"spawned"}
      /\ pc[w] \notin Holding => ~quitting
  BY HoldingStep DEF LeaseInv, HoldersKeep, HeldBefore
<1>2. CASE AfterDrain
  <2>1. quitting /\ pc[w] \notin Holding
    BY <1>2 DEF NoneHeld, AfterDrain, ExitShape, LeaseInv, TypeInv, TypeOK,
                PassesTyped
  <2> QED
    BY <1>1, <2>1
<1>3. CASE registry = {} /\ \A v \in Workers : pc'[v] = pc[v]
  BY <1>3 DEF Registered
<1> QED
  BY <1>2, <1>3, SupervisorMoves DEF LeaseInv, ExitMove

\* What runs on when the host has exited in an orderly way is either a child
\* between Command::spawn and its registration, or one that a concurrent
\* stop_impl has taken and not ended yet.
THEOREM SurvivorsAreExplained == Spec => []ExitSurvivorsExplained
<1>1. Init => ExitInv
  BY LeaseInvInit, InitTypes
     DEF Init, ExitInv, OwnedInv, TakenShape, EveryChildOwned, Registered, NoneHeld,
         AfterDrain, ExitShape, Holding, Threads
<1>2. ExitInv /\ [Next]_vars => ExitInv'
  <2> SUFFICES ASSUME ExitInv, [Next]_vars PROVE ExitInv'
    OBVIOUS
  <2>1. LeaseInv' /\ OwnedInv'
    BY LeaseInvStep, StepTypes, TakenShapeStep, EveryChildOwnedStep
       DEF ExitInv, OwnedInv
  <2>2. Registered' /\ ExitShape'
    BY RegisteredStep, SupervisorMoves DEF ExitInv, LeaseInv, ExitMove
  <2> QED
    BY <2>1, <2>2, NoneHeldStep DEF ExitInv
<1>3. ExitInv => ExitSurvivorsExplained
  <2> SUFFICES ASSUME ExitInv, pc[Supervisor] = "exited", ~DeadlineMayFire,
                      NEW pid \in alive
               PROVE  \E w \in Workers :
                         \/ pc[w] \in {"spawned", "kill"} /\ Child(w) = pid
                         \/ pc[w] \in StopPcs /\ taken[w] = pid
    BY DEF ExitSurvivorsExplained
  <2>1. process # pid
    BY DEF ExitInv, ExitShape, LeaseInv, TypeInv, TypeOK, Pids, NoPid, Gens, None
  <2>2. \A w \in Workers : pc[w] \in Owning => pc[w] \in {"spawned", "kill"}
    BY DEF ExitInv, NoneHeld, AfterDrain, ExitShape, Owning, Holding
  <2>3. pc[Supervisor] \notin StopPcs
    BY DEF StopPcs
  <2> QED
    BY <2>1, <2>2, <2>3 DEF ExitInv, OwnedInv, EveryChildOwned, Threads
<1> QED
  BY <1>1, <1>2, <1>3, PTL DEF Spec

-----------------------------------------------------------------------------
(* Who may revoke a lease.                                                 *)

LEMMA RevokerStops ==
    ASSUME LeaseInv, [Next]_vars, lease # None, lease' = None
    PROVE  \/ process \notin alive
           \/ \E t \in Threads : /\ pc[t] \in {"begin_stop", "settle"}
                                 /\ pc'[t] # pc[t]
<1> USE SupervisorAssumption
<1>t. /\ pc \in [Threads -> Pcs] /\ Threads = Workers \cup {Supervisor}
      /\ process # NoPid /\ lease = gen /\ phase \in Usable
      /\ \A w \in Workers : pc[w] \in Starting => gen # mine[w]
  BY DEF LeaseInv, LeaseCoherent, StartersBegun, TypeInv, TypeOK, Threads
<1> USE <1>t
<1>1. ~ \E w \in Workers : Requests(w) \/ QuitCheck(w) \/ Admit(w) \/ RestartCheck(w)
  BY DEF Requests, RequestStart, RequestRestart, RequestStop, RequestStatus,
         Request, QuitCheck, Admit, RestartCheck, actorVars
<1>2. ~ \E w \in Workers : BeginStart(w)
  BY DEF BeginStart, BeginStartRefused, actorVars
<1>3. ~ \E w \in Workers : \/ Prepare(w) \/ StartFailed(w) \/ RejectFailed(w)
                            \/ DiscardSettle(w)
  BY DEF Prepare, StartFailed, RejectFailed, DiscardSettle, MarkFailed, BindImage,
         Starting, Closing, actorVars
<1>4. ~ \E w \in Workers :
          \/ Attempt(w) \/ Spawn(w) \/ Register(w) \/ WaitForReady(w)
          \/ KillAttempt(w) \/ CheckReady(w) \/ Discard(w)
  BY DEF Attempt, Spawn, Register, WaitForReady, KillAttempt, CheckReady, Discard,
         actorVars
<1>5. ~ \E w \in Workers : PublishReady(w)
  BY DEF PublishReady, CanPublish, Usable, Opening, actorVars
<1>6. ~ \E t \in Threads : Sweep(t) \/ SweepKill(t) \/ StopProcess(t)
  BY DEF Sweep, SweepKill, StopProcess, actorVars
<1>7. ~(RequestExit \/ Drain \/ ChildDies \/ UNCHANGED vars)
  BY DEF RequestExit, Drain, ChildDies, vars, actorVars
<1>8. ASSUME NEW w \in Workers, Reap(w) PROVE process \notin alive
  BY <1>8 DEF Reap, ProcessDied, actorVars
<1>9. ASSUME NEW t \in Threads, StopBegin(t) \/ (t \in Workers /\ Settle(t))
      PROVE  pc[t] \in {"begin_stop", "settle"} /\ pc'[t] # pc[t]
  BY <1>9 DEF StopBegin, AfterBegin, Settle, Return, GoTo
<1>10. ASSUME SettlePass
       PROVE  pc[Supervisor] = "settle" /\ pc'[Supervisor] # pc[Supervisor]
  BY <1>10 DEF SettlePass, GoTo
<1> QED
  BY <1>1, <1>2, <1>3, <1>4, <1>5, <1>6, <1>7, <1>8, <1>9, <1>10
     DEF Next, Exited, WorkerStep, StartStep, StopStep, SupervisorStep

\* No failing, stale or cancelled start and no status poll takes the lease of
\* a live Runtime: only a stop pass does, in begin_stop or settle_stopped.
THEOREM OnlyAStopRevokes == Spec => LeaseOnlyRevokedByStop
<1>1. LeaseInv /\ [Next]_vars =>
        [lease # None /\ lease' = None =>
            \/ process \notin alive
            \/ \E t \in Threads : /\ pc[t] \in {"begin_stop", "settle"}
                                  /\ pc'[t] # pc[t]]_vars
  BY RevokerStops
<1> QED
  BY LeaseInvInit, LeaseInvStep, <1>1, PTL DEF Spec, LeaseOnlyRevokedByStop
=============================================================================
