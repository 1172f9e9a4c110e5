--------------------------- MODULE NodeHost_proofs ---------------------------
(***************************************************************************)
(* Safety of the two modules of the Node hosts.  The lease file, for any   *)
(* number of host processes and of acquire rounds                          *)
(* (packages/bootstrap/src/runtime-lease.ts), and the client runtime of    *)
(* one of them, for any number of starts and stops                         *)
(* (packages/client-runtime/src/runtime.ts).  Names that both would use    *)
(* begin with LF in RuntimeLeaseFile.                                      *)
(***************************************************************************)
EXTENDS RuntimeLeaseFile, ClientRuntime, TLAPS

-----------------------------------------------------------------------------
(* The lease file.                                                         *)

\* The actions of one host, and which one it is.
HostNext(h) ==
    \/ Acquire(h) \/ AcquireStep(h)
    \/ BeatStep(h) \/ \E c \in Calls : BeatStart(h, c)
    \/ Release(h) \/ ReleaseStep(h)
    \/ Crash(h)

\* A step leaves the program counters of the other hosts alone, and what they
\* have read.
LEMMA OthersStandStill ==
    ASSUME LFTypeOK, NEW g \in Hosts, HostNext(g),
           NEW r \in Hosts, r # g
    PROVE  pc'[r] = pc[r] /\ seen'[r] = seen[r]
BY DEF LFTypeOK, HostNext, AcquireStep, BeatStep, ReleaseStep, Acquire, Open,
       Write, WriteActive, InspectLock, InspectActive, Reclaim, BeatStart,
       BeatCheck, BeatWrite, Release, ReleaseCheck, ReleaseActive,
       ReleaseLock, Crash, GoTo

LEMMA LockTokenType ==
    ASSUME LFTypeOK
    PROVE  LockToken \in Hosts \cup {Nobody}
BY DEF LFTypeOK, LockToken

\* What is written in a lock file is written by the host that made it.
LEMMA LockOfToken ==
    ASSUME LFTypeOK, NEW h \in Hosts, LockToken = h
    PROVE  lock.by = h /\ lock.written /\ Exists
BY NobodyAssumption DEF LFTypeOK, LockToken, Exists, Absent

LEMMA LockTypes ==
    /\ Absent \in [by : Hosts \cup {Nobody}, written : BOOLEAN]
    /\ \A h \in Hosts : [by |-> h, written |-> FALSE]
                           \in [by : Hosts \cup {Nobody}, written : BOOLEAN]
BY DEF Absent

-----------------------------------------------------------------------------
(* The invariant.  A host that may still go round the loop has a round     *)
(* left, and only a host whose acquire has returned beats.                 *)

RoundsLeft ==
    \A h \in Hosts :
        pc[h] \in {"idle"} \cup AcquirePcs => attempt[h] < MaxAttempts

HoldersBeat ==
    \A h \in Hosts, c \in Calls :
        beat[h][c] # "idle" => pc[h] \in {"held", "released"} \cup ReleasePcs

LFInv == LFTypeOK /\ RoundsLeft /\ HoldersBeat /\ ActiveWasHeld

-----------------------------------------------------------------------------
(* Types.                                                                  *)

LEMMA TypeOfStep ==
    ASSUME LFTypeOK, RoundsLeft, NEW h \in Hosts, HostNext(h)
    PROVE  LFTypeOK'
<1> USE DEF At, GoTo, Pcs, AcquirePcs, ReleasePcs
<1>1. CASE Acquire(h)
  BY <1>1 DEF LFTypeOK, Acquire, fileVars
<1>2. CASE Open(h)
  <2>1. lock' \in [by : Hosts \cup {Nobody}, written : BOOLEAN]
    <3>1. lock' = lock \/ lock' = [by |-> h, written |-> FALSE]
      BY <1>2 DEF Open
    <3>2. lock \in [by : Hosts \cup {Nobody}, written : BOOLEAN]
      BY DEF LFTypeOK
    <3> QED
      BY <3>1, <3>2, LockTypes
  <2>2. pc' \in [Hosts -> Pcs]
    BY <1>2 DEF LFTypeOK, Open
  <2>3. UNCHANGED <<active, alive, beat, attempt, seen>>
    BY <1>2 DEF Open
  <2> QED
    BY <2>1, <2>2, <2>3 DEF LFTypeOK
<1>3. CASE Write(h)
  BY <1>3 DEF LFTypeOK, Write
<1>4. CASE WriteActive(h)
  BY <1>4 DEF LFTypeOK, WriteActive
<1>5. CASE InspectLock(h)
  BY <1>5, LockTokenType DEF LFTypeOK, InspectLock, fileVars
<1>6. CASE InspectActive(h)
  BY <1>6 DEF LFTypeOK, InspectActive, fileVars
<1>7. CASE Reclaim(h)
  <2>1. attempt' \in [Hosts -> 0 .. MaxAttempts]
    BY <1>7, AttemptsAssumption DEF LFTypeOK, Reclaim, RoundsLeft
  <2>2. lock' \in [by : Hosts \cup {Nobody}, written : BOOLEAN]
    BY <1>7, LockTypes DEF LFTypeOK, Reclaim
  <2> QED
    BY <1>7, <2>1, <2>2 DEF LFTypeOK, Reclaim
<1>8. CASE \E c \in Calls : BeatStart(h, c)
  BY <1>8 DEF LFTypeOK, BeatStart, fileVars
<1>9. CASE \E c \in Calls : BeatCheck(h, c)
  BY <1>9 DEF LFTypeOK, BeatCheck, fileVars
<1>10. CASE \E c \in Calls : BeatWrite(h, c)
  BY <1>10 DEF LFTypeOK, BeatWrite
<1>11. CASE Release(h)
  BY <1>11 DEF LFTypeOK, Release, fileVars
<1>12. CASE ReleaseCheck(h)
  BY <1>12 DEF LFTypeOK, ReleaseCheck, fileVars
<1>13. CASE ReleaseActive(h)
  BY <1>13 DEF LFTypeOK, ReleaseActive
<1>14. CASE ReleaseLock(h)
  <2>1. lock' \in [by : Hosts \cup {Nobody}, written : BOOLEAN]
    BY <1>14, LockTypes DEF LFTypeOK, ReleaseLock
  <2> QED
    BY <1>14, <2>1 DEF LFTypeOK, ReleaseLock
<1>15. CASE Crash(h)
  BY <1>15 DEF LFTypeOK, Crash, fileVars
<1> QED
  BY <1>1, <1>2, <1>3, <1>4, <1>5, <1>6, <1>7, <1>8, <1>9, <1>10, <1>11,
     <1>12, <1>13, <1>14, <1>15
  DEF HostNext, AcquireStep, BeatStep, ReleaseStep

LEMMA RoundsOfStep ==
    ASSUME LFTypeOK, RoundsLeft, NEW h \in Hosts, HostNext(h)
    PROVE  RoundsLeft'
<1> USE DEF At, GoTo, AcquirePcs, ReleasePcs
<1>1. SUFFICES ASSUME NEW r \in Hosts, pc'[r] \in {"idle"} \cup AcquirePcs
               PROVE  attempt'[r] < MaxAttempts
  BY DEF RoundsLeft
<1>2. CASE Reclaim(h)
  BY <1>1, <1>2, AttemptsAssumption DEF LFTypeOK, RoundsLeft, Reclaim
<1>3. CASE ~Reclaim(h)
  <2>1. attempt' = attempt
    BY <1>3 DEF HostNext, AcquireStep, BeatStep, ReleaseStep, Acquire, Open,
       Write, WriteActive, InspectLock, InspectActive, BeatStart, BeatCheck,
       BeatWrite, Release, ReleaseCheck, ReleaseActive, ReleaseLock, Crash
  <2>2. pc[r] \in {"idle"} \cup AcquirePcs
    BY <1>1, <1>3 DEF LFTypeOK, HostNext, AcquireStep, BeatStep, ReleaseStep,
       Acquire, Open, Write, WriteActive, InspectLock, InspectActive,
       BeatStart, BeatCheck, BeatWrite, Release, ReleaseCheck,
       ReleaseActive, ReleaseLock, Crash
  <2> QED
    BY <2>1, <2>2 DEF RoundsLeft
<1> QED
  BY <1>2, <1>3

\* A host that holds the lease, releases it or has done so stays in that
\* stretch of its life.
Past(h) == pc[h] \in {"held", "released"} \cup ReleasePcs

LEMMA PastStays ==
    ASSUME LFTypeOK, NEW h \in Hosts, HostNext(h), NEW r \in Hosts, Past(r)
    PROVE  Past(r)'
BY DEF Past, At, GoTo, ReleasePcs, LFTypeOK, HostNext, AcquireStep, BeatStep,
       ReleaseStep, Acquire, Open, Write, WriteActive, InspectLock,
       InspectActive, Reclaim, BeatStart, BeatCheck, BeatWrite, Release,
       ReleaseCheck, ReleaseActive, ReleaseLock, Crash

LEMMA BeatsOfStep ==
    ASSUME LFTypeOK, HoldersBeat, NEW h \in Hosts, HostNext(h)
    PROVE  HoldersBeat'
<1>1. SUFFICES ASSUME NEW r \in Hosts, NEW c \in Calls, beat'[r][c] # "idle"
               PROVE  Past(r)'
  BY DEF HoldersBeat, Past
<1>2. CASE beat[r][c] # "idle"
  BY <1>2, PastStays DEF HoldersBeat, Past
<1>3. CASE beat[r][c] = "idle"
  <2>1. BeatStart(r, c)
    BY <1>1, <1>3 DEF LFTypeOK, HostNext, AcquireStep, BeatStep, ReleaseStep,
       Acquire, Open, Write, WriteActive, InspectLock, InspectActive, Reclaim,
       BeatStart, BeatCheck, BeatWrite, Release, ReleaseCheck,
       ReleaseActive, ReleaseLock, Crash, At, GoTo
  <2> QED
    BY <2>1 DEF BeatStart, Past, At
<1> QED
  BY <1>2, <1>3

LEMMA ActiveOfStep ==
    ASSUME LFTypeOK, HoldersBeat, ActiveWasHeld, NEW h \in Hosts, HostNext(h)
    PROVE  ActiveWasHeld'
<1>1. SUFFICES ASSUME active' # Nobody PROVE Past(active)'
  BY DEF ActiveWasHeld, Past
<1>2. CASE active' = active
  BY <1>1, <1>2, PastStays DEF ActiveWasHeld, Past, LFTypeOK
<1>3. CASE WriteActive(h) /\ active' # active
  BY <1>3 DEF WriteActive, LFTypeOK, Past, At, GoTo
<1>4. CASE BeatStep(h) /\ active' # active
  <2>1. PICK c \in Calls : BeatWrite(h, c)
    BY <1>4 DEF BeatStep, BeatCheck, fileVars
  <2>2. active' = h /\ Past(h) /\ pc' = pc
    BY <1>1, <1>4, <2>1 DEF BeatWrite, Past, HoldersBeat
  <2> QED
    BY <2>2 DEF Past
<1>5. CASE ReleaseActive(h) /\ active' # active
  BY <1>1, <1>5 DEF ReleaseActive
<1> QED
  BY <1>2, <1>3, <1>4, <1>5
  DEF HostNext, AcquireStep, BeatStep, ReleaseStep, Acquire, Open, Write,
      InspectLock, InspectActive, Reclaim, BeatStart, BeatCheck, Release,
      ReleaseCheck, ReleaseLock, Crash, fileVars

LEMMA InitLFInv == LFInit => LFInv
<1> SUFFICES ASSUME LFInit PROVE LFInv
  OBVIOUS
<1>1. lock \in [by : Hosts \cup {Nobody}, written : BOOLEAN]
  BY LockTypes DEF LFInit
<1>2. LFTypeOK
  BY <1>1, AttemptsAssumption DEF LFInit, LFTypeOK, Pcs
<1> QED
  BY <1>2, AttemptsAssumption
  DEF LFInit, LFInv, RoundsLeft, HoldersBeat, ActiveWasHeld

LEMMA StepLFInv == LFInv /\ [LFNext]_lfVars => LFInv'
<1> SUFFICES ASSUME LFInv, [LFNext]_lfVars PROVE LFInv'
  OBVIOUS
<1>1. CASE UNCHANGED lfVars
  <2>1. LFTypeOK'
    BY <1>1 DEF LFInv, LFTypeOK, lfVars, fileVars
  <2> QED
    BY <1>1, <2>1 DEF LFInv, RoundsLeft, HoldersBeat, ActiveWasHeld, lfVars, fileVars
<1>2. ASSUME NEW h \in Hosts, HostNext(h) PROVE LFInv'
  BY <1>2, TypeOfStep, RoundsOfStep, BeatsOfStep, ActiveOfStep DEF LFInv
<1> QED
  BY <1>1, <1>2 DEF LFNext, HostNext

LEMMA AlwaysLFInv == LFSpec => []LFInv
BY InitLFInv, StepLFInv, PTL DEF LFSpec

\* The types hold in every state, among them that no host takes more than
\* MaxAttempts rounds.
THEOREM LeaseFileTypeCorrect == LFSpec => []LFTypeOK
<1>1. LFInv => LFTypeOK
  BY DEF LFInv
<1> QED
  BY <1>1, AlwaysLFInv, PTL

\* active.json never names a host that was refused or that failed.
THEOREM ActiveNamesHolders == LFSpec => []ActiveWasHeld
<1>1. LFInv => ActiveWasHeld
  BY DEF LFInv
<1> QED
  BY <1>1, AlwaysLFInv, PTL

-----------------------------------------------------------------------------
(* A settled owner keeps the lease.                                        *)

\* Only the host that made the lock, or one that was poised to take it
\* away, changes what the lock says.
LEMMA TokenStays ==
    ASSUME LFTypeOK, NEW h \in Hosts, SettledOwner(h),
           NEW g \in Hosts, HostNext(g)
    PROVE  LockToken' = h
<1> USE DEF SettledOwner, Owns, At
<1>1. lock.by = h /\ lock.written /\ Exists
  BY LockOfToken
<1>2. SUFFICES lock' = lock
  BY <1>1 DEF LockToken
<1>3. CASE Open(g)
  BY <1>1, <1>3 DEF Open
<1>4. CASE Write(g)
  <2>1. lock.by # g
    BY <1>1, <1>4 DEF Write
  <2> QED
    BY <1>4, <2>1 DEF Write
<1>5. CASE Reclaim(g) \/ ReleaseLock(g)
  BY <1>5 DEF Poised, Reclaim, ReleaseLock
<1> QED
  BY <1>3, <1>4, <1>5
  DEF HostNext, AcquireStep, BeatStep, ReleaseStep, Acquire, WriteActive,
      InspectLock, InspectActive, BeatStart, BeatCheck, BeatWrite, Release,
      ReleaseCheck, ReleaseActive, Crash, fileVars

\* The check order of acquire and of release keeps the others from becoming
\* poised: they read the token of a live owner first.
LEMMA NobodyGetsPoised ==
    ASSUME LFTypeOK, NEW h \in Hosts, SettledOwner(h),
           NEW r \in Hosts, HostNext(r)
    PROVE  ~Poised(r, h)'
<1> SUFFICES ASSUME Poised(r, h)' PROVE FALSE
  OBVIOUS
<1> USE DEF SettledOwner, Owns, At, GoTo, Poised
<1>1. r # h /\ ~Poised(r, h)
  OBVIOUS
<1>2. CASE InspectLock(r)
  BY <1>1, <1>2 DEF InspectLock, LFTypeOK
<1>3. CASE InspectActive(r)
  <2>1. HolderAlive(r)
    BY <1>1, <1>3, NobodyAssumption DEF InspectActive, HolderAlive, Holder
  <2> QED
    BY <1>1, <1>3, <2>1 DEF InspectActive, LFTypeOK
<1>4. CASE ReleaseCheck(r)
  BY <1>1, <1>4 DEF ReleaseCheck, LFTypeOK
<1> QED
  BY <1>1, <1>2, <1>3, <1>4
  DEF HostNext, AcquireStep, BeatStep, ReleaseStep, Acquire, Open, Write,
      WriteActive, Reclaim, BeatStart, BeatCheck, BeatWrite, Release,
      ReleaseActive, ReleaseLock, Crash, LFTypeOK, fileVars

LEMMA SettledStep ==
    ASSUME LFTypeOK, [LFNext]_lfVars, NEW h \in Hosts, SettledOwner(h)
    PROVE  SettledOwner(h)' \/ h \notin alive' \/ Released(h)'
<1>1. CASE UNCHANGED lfVars
  BY <1>1 DEF SettledOwner, Owns, Poised, LockToken, lfVars, fileVars
<1>2. ASSUME NEW g \in Hosts, HostNext(g), h \in alive', ~Released(h)'
      PROVE  SettledOwner(h)'
  <2>1. Past(h)'
    BY <1>2, PastStays DEF SettledOwner, Owns, Past
  <2>2. pc'[h] = "held"
    BY <1>2, <2>1 DEF Past, Released
  <2>3. Owns(h)'
    BY <1>2, <2>2, TokenStays DEF Owns
  <2>4. ASSUME NEW r \in Hosts PROVE ~Poised(r, h)'
    <3>1. CASE r = g
      BY <1>2, <3>1, NobodyGetsPoised
    <3>2. CASE r # g
      <4>1. pc'[r] = pc[r] /\ seen'[r] = seen[r]
        BY <1>2, <3>2, OthersStandStill
      <4>2. alive' \subseteq alive
        BY <1>2 DEF HostNext, AcquireStep, BeatStep, ReleaseStep, Acquire,
           Open, Write, WriteActive, InspectLock, InspectActive, Reclaim,
           BeatStart, BeatCheck, BeatWrite, Release, ReleaseCheck,
           ReleaseActive, ReleaseLock, Crash
      <4> QED
        BY <4>1, <4>2 DEF SettledOwner, Poised
    <3> QED
      BY <3>1, <3>2
  <2> QED
    BY <2>3, <2>4 DEF SettledOwner
<1> QED
  BY <1>1, <1>2 DEF LFNext, HostNext

\* Whatever any number of other hosts do, a settled owner loses the lease
\* only by its own release or death.
THEOREM SettledOwnerIsSafe == LFSpec => SettledOwnerStays
<1>1. LFInv /\ [LFNext]_lfVars =>
        \A h \in Hosts :
            SettledOwner(h) => SettledOwner(h)' \/ h \notin alive' \/ Released(h)'
  BY SettledStep DEF LFInv
<1> QED
  BY <1>1, AlwaysLFInv, PTL DEF LFSpec, SettledOwnerStays

-----------------------------------------------------------------------------
(* The client runtime.                                                     *)

WithProcess == {"waiting", "terminating", "dump"}

\* Only a start with a process of its own has one in hand, and the field names
\* it unless a stop has taken it.
StartShape ==
    /\ start.at # "none" => starts > 0
    /\ start.at \in WithProcess => start.child # None
    /\ start.at \notin WithProcess \cup {"clean_up"} => start.child = None
    /\ start.at \in WithProcess /\ ~stopRequested => child = start.child
    /\ child # None =>
           \/ start.at \in {"none", "persist"}
           \/ start.at \in WithProcess /\ child = start.child

\* A stop in flight keeps the object from getting a child.
StopShape ==
    /\ stop.at \in {"none", "await_start", "rmdir"} => stop.child = None
    /\ stop.at # "none" => stopRequested
    /\ stopRequested => child = None
    /\ StartAt("await_stop") => stopRequested
    /\ StopAt("ladder") => stopOutcome = "unset"

\* A stop awaits the one start that may be under way.
StopOrder ==
    /\ stop.at \in {"late", "rmdir"} => Settled
    /\ stop.at \in {"ladder", "await_start"} => Settled \/ stop.awaits = starts

IInv ==
    /\ TypeOK
    /\ StartShape
    /\ StopShape
    /\ StopOrder
    /\ NoProcessIsLost
    /\ StopIsFinal

LEMMA NoneIsNoProcess == None \notin Processes
  BY BoundsAssumption DEF None, Processes

StartType == [at : StartPoints, child : Processes \cup {None}, observed : 0 .. MaxStops]
StopType == [at : StopPoints, child : Processes \cup {None}, awaits : 0 .. MaxStarts]

\* The names of the points.
LEMMA Points ==
  /\ {"none", "await_stop", "prepare", "mkdtemp", "patch", "read_record", "dump"} \subseteq StartPoints
  /\ {"quarantine_patch", "waiting", "terminating", "clear_record"} \subseteq StartPoints
  /\ {"recovery_patch", "persist", "clean_up", "rmdir"} \subseteq StartPoints
  /\ {"none", "ladder", "await_start", "late", "rmdir"} \subseteq StopPoints
  BY DEF StartPoints, StopPoints

\* A call that is not there is of its type.
LEMMA NoCalls == NoStart \in StartType /\ NoStop \in StopType
  <1>1. 0 \in 0 .. MaxStarts /\ 0 \in 0 .. MaxStops
    BY BoundsAssumption
  <1>2. "none" \in StartPoints /\ "none" \in StopPoints
    BY DEF StartPoints, StopPoints
  <1>. QED BY <1>1, <1>2 DEF NoStart, NoStop, StartType, StopType

\* A boot that has become ready leaves the child alone.
LEMMA ReadyEffect ==
  ASSUME BecomesReady
  PROVE  /\ start.at = "waiting" /\ ~stopRequested
         /\ start' = NoStart \/ start' = [start EXCEPT !.at = "persist", !.child = None]
         /\ UNCHANGED <<policy, child, workDir, stopRequested, stopGeneration, stopOutcome,
                       stop, starts, record, live, background, survivors>>
  BY DEF BecomesReady, StartAt, StartKeeps, Quietly

\* What a failed boot does but for the dump.
LEMMA TerminatedEffect ==
  ASSUME Terminated
  PROVE  /\ start.at = "terminating"
         /\ survivors' = survivors \cup (live \cap {start.child})
         /\ \/ Launch("dump") /\ ~stopRequested
            \/ /\ start' = [start EXCEPT !.at = "clean_up", !.child = None]
               /\ child' = None /\ live' = live
            \/ /\ start' = [start EXCEPT !.at = "clear_record", !.child = None]
               /\ child' = None /\ live' = live
         /\ UNCHANGED <<policy, workDir, stopRequested, stopGeneration, stopOutcome,
                       stop, starts, record, background>>
  BY DEF Terminated, StartAt, StartKeeps, LadderEnds, FailAfterBoot

\* A start that throws hands its child over.
LEMMA ThrowIsGood ==
  ASSUME TypeOK, Throw
  PROVE  /\ start' \in StartType /\ start'.at = "clean_up"
         /\ start'.child = child /\ child' = None
  BY DEF TypeOK, Throw, StartType, StartPoints

\* A launched process belongs to the start and to the object.
LEMMA LaunchIsGood ==
  ASSUME TypeOK, starts > 0, NEW role \in Roles, Launch(role)
  PROVE  /\ start' \in StartType
         /\ start'.at = IF role = "dump" THEN "dump" ELSE "waiting"
         /\ start'.child = child' /\ child' \in Processes
         /\ live \subseteq live' /\ live' \subseteq live \cup {child'}
  <1>. DEFINE p == [start |-> starts, role |-> role]
  <1>1. p \in Processes
    BY BoundsAssumption DEF TypeOK, Processes
  <1>2. child' = p /\ live' \in {live, live \cup {p}}
        /\ start' = [start EXCEPT !.child = p, !.at = IF role = "dump" THEN "dump" ELSE "waiting"]
    BY DEF Launch
  <1>. HIDE DEF p
  <1>3. start' \in StartType
    BY <1>1, <1>2 DEF TypeOK, StartType, StartPoints
  <1>4. start'.child = p /\ start'.at = IF role = "dump" THEN "dump" ELSE "waiting"
    BY <1>2 DEF TypeOK
  <1>. QED BY <1>1, <1>2, <1>3, <1>4

\* A spawn launches, or throws; in a stop it throws.
LEMMA SpawnIsGood ==
  ASSUME TypeOK, starts > 0, NEW role \in Roles \ {"dump"}, SpawnRuntime(role)
  PROVE  /\ start' \in StartType
         /\ child' \in Processes \cup {None}
         /\ background' = background /\ survivors' = survivors
         /\ \/ /\ start'.at = "clean_up" /\ start'.child = child /\ child' = None
               /\ live' = live
            \/ /\ ~stopRequested /\ start'.at = "waiting"
               /\ start'.child = child' /\ child' \in Processes
               /\ live \subseteq live' /\ live' \subseteq live \cup {child'}
  <1>1. CASE Throw /\ UNCHANGED live
    BY <1>1, ThrowIsGood DEF SpawnRuntime
  <1>2. CASE ~stopRequested /\ Launch(role)
    BY <1>2, LaunchIsGood DEF SpawnRuntime
  <1>. QED BY <1>1, <1>2 DEF SpawnRuntime

-----------------------------------------------------------------------------
\* The initial states are good.
LEMMA InitOK == Init => IInv
  <1>. SUFFICES ASSUME Init PROVE IInv
    OBVIOUS
  <1>1. TypeOK
    <2>1. start \in StartType /\ stop \in StopType
      BY NoCalls DEF Init
    <2>2. /\ policy \in {"plain", "recovery", "quarantine"}
          /\ record \in {"none", "applies", "stale"}
          /\ child = None /\ workDir = FALSE /\ stopRequested = FALSE
          /\ stopGeneration = 0 /\ stopOutcome = "unset" /\ starts = 0
          /\ live = {} /\ background = {} /\ survivors = {}
      BY DEF Init
    <2>3. 0 \in 0 .. MaxStarts /\ 0 \in 0 .. MaxStops
      BY BoundsAssumption
    <2>. QED BY <2>1, <2>2, <2>3 DEF TypeOK, StartType, StopType
  <1>2. StartShape /\ StopShape /\ StopOrder
    BY DEF Init, NoStart, NoStop, StartShape, StopShape, StopOrder, WithProcess,
           Settled, StartAt, StopAt
  <1>3. NoProcessIsLost /\ StopIsFinal
    BY DEF Init, NoStart, NoStop, NoProcessIsLost, StopIsFinal, Settled, StartAt, StopAt
  <1>. QED BY <1>1, <1>2, <1>3 DEF IInv

-----------------------------------------------------------------------------
(* Steps.                                                                  *)

\* Every step keeps the types.
LEMMA TypeStep == TypeOK /\ StartShape /\ [Next]_vars => TypeOK'
  <1>. SUFFICES ASSUME TypeOK /\ StartShape, [Next]_vars PROVE TypeOK'
    OBVIOUS
  <1>. USE NoneIsNoProcess, BoundsAssumption DEF StartKeeps, StopKeeps, Quietly, StartAt,
       StopAt, StartGoesTo, FailAfterBoot, LadderEnds, ReleaseDump, ThrowAfterDump,
       AwaitsStart, NoStart, NoStop, TypeOK
  <1>1. CASE StartCall
    <2>1. CASE stop.at # "none"
      <3>1. start' \in StartType
        BY <1>1, <2>1, Points DEF StartCall, StartType
      <3>. QED BY <1>1, <2>1, <3>1 DEF StartCall, StartType
    <2>2. CASE stop.at = "none" /\ child # None
      BY <1>1, <2>2 DEF StartCall
    <2>3. CASE stop.at = "none" /\ child = None
      <3>1. start' \in StartType
        BY <1>1, <2>3, Points DEF StartCall, StartType
      <3>. QED BY <1>1, <2>3, <3>1 DEF StartCall, StartType
    <2>. QED BY <2>1, <2>2, <2>3
  <1>2. CASE ResumeAfterStop
    <2>1. start' \in StartType
      BY <1>2, Points DEF ResumeAfterStop, StartType
    <2>. QED BY <1>2, <2>1 DEF ResumeAfterStop, StartType
  <1>3. CASE Prepared
    <2>1. start' \in StartType
      BY <1>3, ThrowIsGood, Points DEF Prepared, StartType
    <2>. QED BY <1>3, <2>1, ThrowIsGood, Points DEF Prepared, StartType
  <1>4. CASE MadeWorkDir
    <2>1. start' \in StartType
      BY <1>4, ThrowIsGood, Points DEF MadeWorkDir, StartType
    <2>. QED BY <1>4, <2>1, ThrowIsGood, Points DEF MadeWorkDir, StartType
  <1>5. CASE WrotePatch
    <2>1. starts > 0
      BY <1>5 DEF WrotePatch, StartShape
    <2>2. /\ starts' = starts /\ stopRequested' = stopRequested /\ stop' = stop
          /\ policy' = policy /\ stopGeneration' = stopGeneration /\ stopOutcome' = stopOutcome
      BY <1>5 DEF WrotePatch, StartKeeps
    <2>3. CASE SpawnRuntime("normal")
      <3>1. "normal" \in Roles \ {"dump"}
        BY DEF Roles
      <3>. QED BY <1>5, <2>1, <2>2, <2>3, <3>1, SpawnIsGood DEF WrotePatch, StartType
    <2>4. CASE ~SpawnRuntime("normal")
      BY <1>5, <2>2, <2>4, ThrowIsGood, Points DEF WrotePatch, StartType
    <2>. QED BY <2>3, <2>4
  <1>6. CASE ReadRecord
    <2>1. starts > 0
      BY <1>6 DEF ReadRecord, StartShape
    <2>2. /\ starts' = starts /\ stopRequested' = stopRequested /\ stop' = stop
          /\ policy' = policy /\ stopGeneration' = stopGeneration /\ stopOutcome' = stopOutcome
      BY <1>6 DEF ReadRecord, StartKeeps
    <2>3. CASE SpawnRuntime("normal")
      <3>1. "normal" \in Roles \ {"dump"}
        BY DEF Roles
      <3>. QED BY <1>6, <2>1, <2>2, <2>3, <3>1, SpawnIsGood DEF ReadRecord, StartType
    <2>4. CASE ~SpawnRuntime("normal")
      BY <1>6, <2>2, <2>4, ThrowIsGood, Points DEF ReadRecord, StartType
    <2>. QED BY <2>3, <2>4
  <1>7. CASE WroteQuarantinePatch
    <2>1. starts > 0
      BY <1>7 DEF WroteQuarantinePatch, StartShape
    <2>2. /\ starts' = starts /\ stopRequested' = stopRequested /\ stop' = stop
          /\ policy' = policy /\ stopGeneration' = stopGeneration /\ stopOutcome' = stopOutcome
      BY <1>7 DEF WroteQuarantinePatch, StartKeeps
    <2>3. CASE SpawnRuntime("quarantine")
      <3>1. "quarantine" \in Roles \ {"dump"}
        BY DEF Roles
      <3>. QED BY <1>7, <2>1, <2>2, <2>3, <3>1, SpawnIsGood DEF WroteQuarantinePatch, StartType
    <2>4. CASE ~SpawnRuntime("quarantine")
      BY <1>7, <2>2, <2>4, ThrowIsGood, Points DEF WroteQuarantinePatch, StartType
    <2>. QED BY <2>3, <2>4
  <1>8. CASE BecomesReady
    <2>1. start' = NoStart \/ start' = [start EXCEPT !.at = "persist", !.child = None]
      BY <1>8, ReadyEffect
    <2>2. start' \in StartType
      BY <2>1, Points, NoCalls DEF StartType
    <2>3. CASE start' = NoStart
      BY <1>8, <2>2, <2>3, ReadyEffect DEF StartType
    <2>4. CASE start' # NoStart
      BY <1>8, <2>1, <2>2, <2>4, ReadyEffect DEF StartType
    <2>. QED BY <2>3, <2>4
  <1>9. CASE WaitFails
    <2>1. start' \in StartType
      BY <1>9, Points DEF WaitFails, StartType
    <2>. QED BY <1>9, <2>1 DEF WaitFails, StartType
  <1>10. CASE Terminated
    <2>1. starts > 0
      BY <1>10, TerminatedEffect DEF StartShape
    <2>2. CASE Launch("dump") /\ ~stopRequested
      <3>1. "dump" \in Roles
        BY DEF Roles
      <3>. QED BY <1>10, <2>1, <2>2, <3>1, LaunchIsGood, TerminatedEffect DEF StartType
    <2>3. CASE ~(Launch("dump") /\ ~stopRequested)
      <3>1. /\ child' = None /\ live' = live
            /\ \/ start' = [start EXCEPT !.at = "clean_up", !.child = None]
               \/ start' = [start EXCEPT !.at = "clear_record", !.child = None]
        BY <1>10, <2>3, TerminatedEffect
      <3>2. start' \in StartType
        BY <3>1, Points DEF StartType
      <3>. QED BY <1>10, <3>1, <3>2, TerminatedEffect DEF StartType
    <2>. QED BY <2>2, <2>3
  <1>11. CASE ClearedRecord
    <2>1. starts > 0
      BY <1>11 DEF ClearedRecord, StartShape
    <2>2. /\ starts' = starts /\ stopRequested' = stopRequested /\ stop' = stop
          /\ policy' = policy /\ stopGeneration' = stopGeneration /\ stopOutcome' = stopOutcome
      BY <1>11 DEF ClearedRecord, StartKeeps
    <2>3. CASE SpawnRuntime("normal")
      <3>1. "normal" \in Roles \ {"dump"}
        BY DEF Roles
      <3>. QED BY <1>11, <2>1, <2>2, <2>3, <3>1, SpawnIsGood DEF ClearedRecord, StartType
    <2>4. SpawnRuntime("normal")
      BY <1>11 DEF ClearedRecord
    <2>. QED BY <2>3, <2>4
  <1>12. CASE DumpEnds
    <2>1. start' \in StartType
      BY <1>12, Points DEF DumpEnds, StartType
    <2>. QED BY <1>12, <2>1 DEF DumpEnds, StartType
  <1>13. CASE DumpTimesOut
    <2>1. start' \in StartType
      BY <1>13, Points DEF DumpTimesOut, StartType
    <2>. QED BY <1>13, <2>1 DEF DumpTimesOut, StartType
  <1>14. CASE WroteRecoveryPatch
    <2>1. starts > 0
      BY <1>14 DEF WroteRecoveryPatch, StartShape
    <2>2. /\ starts' = starts /\ stopRequested' = stopRequested /\ stop' = stop
          /\ policy' = policy /\ stopGeneration' = stopGeneration /\ stopOutcome' = stopOutcome
      BY <1>14 DEF WroteRecoveryPatch, StartKeeps
    <2>3. CASE SpawnRuntime("recovery")
      <3>1. "recovery" \in Roles \ {"dump"}
        BY DEF Roles
      <3>. QED BY <1>14, <2>1, <2>2, <2>3, <3>1, SpawnIsGood DEF WroteRecoveryPatch, StartType
    <2>4. CASE ~SpawnRuntime("recovery")
      BY <1>14, <2>2, <2>4, ThrowIsGood, Points DEF WroteRecoveryPatch, StartType
    <2>. QED BY <2>3, <2>4
  <1>15. CASE Persisted
    <2>1. start' \in StartType
      BY <1>15, Points DEF Persisted, StartType
    <2>. QED BY <1>15, <2>1 DEF Persisted, StartType
  <1>16. CASE CleanUp
    <2>1. start' \in StartType
      BY <1>16, Points DEF CleanUp, StartType
    <2>. QED BY <1>16, <2>1 DEF CleanUp, StartType
  <1>17. CASE StartFailed
    <2>1. start' \in StartType
      BY <1>17, Points DEF StartFailed, StartType
    <2>. QED BY <1>17, <2>1 DEF StartFailed, StartType
  <1>18. CASE StopCall
    <2>1. stop' \in StopType
      BY <1>18, Points DEF StopCall, StopType
    <2>. QED BY <1>18, <2>1 DEF StopCall, StopType
  <1>19. CASE LadderOfStopEnds
    <2>1. stop' \in StopType
      BY <1>19, Points DEF LadderOfStopEnds, StopType
    <2>. QED BY <1>19, <2>1 DEF LadderOfStopEnds, StopType
  <1>20. CASE LadderOfStopThrows
    <2>1. stop' \in StopType
      BY <1>20, Points DEF LadderOfStopThrows, StopType
    <2>. QED BY <1>20, <2>1 DEF LadderOfStopThrows, StopType
  <1>21. CASE StartHasSettled
    <2>1. stop' \in StopType
      BY <1>21, Points DEF StartHasSettled, StopType
    <2>. QED BY <1>21, <2>1 DEF StartHasSettled, StopType
  <1>22. CASE LateChildTerminated
    <2>1. stop' \in StopType
      BY <1>22, Points DEF LateChildTerminated, StopType
    <2>. QED BY <1>22, <2>1 DEF LateChildTerminated, StopType
  <1>23. CASE Stopped
    <2>1. stop' \in StopType
      BY <1>23, Points DEF Stopped, StopType
    <2>. QED BY <1>23, <2>1 DEF Stopped, StopType
  <1>24. ASSUME NEW p \in live, Dies(p) PROVE TypeOK'
    BY <1>24 DEF Dies, Others
  <1>25. ASSUME NEW p \in live, BackgroundLadderEnds(p) PROVE TypeOK'
    BY <1>25 DEF BackgroundLadderEnds, Others
  <1>26. CASE UNCHANGED vars
    BY <1>26 DEF vars
  <1>. QED
    BY <1>1, <1>2, <1>3, <1>4, <1>5, <1>6, <1>7, <1>8, <1>9, <1>10, <1>11, <1>12, <1>13,
         <1>14, <1>15, <1>16, <1>17, <1>18, <1>19, <1>20, <1>21, <1>22, <1>23, <1>24, <1>25,
         <1>26 DEF Next, StartStep, StopStep, ProcessStep

\* Every step keeps the child of the start known.
LEMMA StartShapeStep == TypeOK /\ StartShape /\ StopShape /\ [Next]_vars => StartShape'
  <1>. SUFFICES ASSUME TypeOK /\ StartShape /\ StopShape, [Next]_vars PROVE StartShape'
    OBVIOUS
  <1>. USE NoneIsNoProcess, BoundsAssumption DEF StartKeeps, StopKeeps, Quietly, StartAt,
       StopAt, StartGoesTo, FailAfterBoot, LadderEnds, ReleaseDump, ThrowAfterDump,
       AwaitsStart, NoStart, NoStop, TypeOK, StartShape, StopShape, WithProcess
  <1>1. CASE StartCall
    <2>1. CASE stop.at # "none"
      <3>1. start'.at = "await_stop" /\ start'.child = None
        BY <1>1, <2>1 DEF StartCall
      <3>2. child' = None /\ starts' > 0
        BY <1>1, <2>1 DEF StartCall
      <3>. QED BY <3>1, <3>2
    <2>2. CASE stop.at = "none" /\ child # None
      BY <1>1, <2>2 DEF StartCall
    <2>3. CASE stop.at = "none" /\ child = None
      BY <1>1, <2>3 DEF StartCall
    <2>. QED BY <2>1, <2>2, <2>3
  <1>2. CASE ResumeAfterStop
    BY <1>2 DEF ResumeAfterStop
  <1>3. CASE Prepared
    BY <1>3, ThrowIsGood, Points DEF Prepared, StartType
  <1>4. CASE MadeWorkDir
    BY <1>4, ThrowIsGood, Points DEF MadeWorkDir, StartType
  <1>5. CASE WrotePatch
    <2>1. starts > 0
      BY <1>5 DEF WrotePatch, StartShape
    <2>2. /\ starts' = starts /\ stopRequested' = stopRequested /\ stop' = stop
          /\ policy' = policy /\ stopGeneration' = stopGeneration /\ stopOutcome' = stopOutcome
      BY <1>5 DEF WrotePatch, StartKeeps
    <2>3. CASE SpawnRuntime("normal")
      <3>1. "normal" \in Roles \ {"dump"}
        BY DEF Roles
      <3>. QED BY <1>5, <2>1, <2>2, <2>3, <3>1, SpawnIsGood DEF WrotePatch, StartType
    <2>4. CASE ~SpawnRuntime("normal")
      BY <1>5, <2>2, <2>4, ThrowIsGood, Points DEF WrotePatch, StartType
    <2>. QED BY <2>3, <2>4
  <1>6. CASE ReadRecord
    <2>1. starts > 0
      BY <1>6 DEF ReadRecord, StartShape
    <2>2. /\ starts' = starts /\ stopRequested' = stopRequested /\ stop' = stop
          /\ policy' = policy /\ stopGeneration' = stopGeneration /\ stopOutcome' = stopOutcome
      BY <1>6 DEF ReadRecord, StartKeeps
    <2>3. CASE SpawnRuntime("normal")
      <3>1. "normal" \in Roles \ {"dump"}
        BY DEF Roles
      <3>. QED BY <1>6, <2>1, <2>2, <2>3, <3>1, SpawnIsGood DEF ReadRecord, StartType
    <2>4. CASE ~SpawnRuntime("normal")
      BY <1>6, <2>2, <2>4, ThrowIsGood, Points DEF ReadRecord, StartType
    <2>. QED BY <2>3, <2>4
  <1>7. CASE WroteQuarantinePatch
    <2>1. starts > 0
      BY <1>7 DEF WroteQuarantinePatch, StartShape
    <2>2. /\ starts' = starts /\ stopRequested' = stopRequested /\ stop' = stop
          /\ policy' = policy /\ stopGeneration' = stopGeneration /\ stopOutcome' = stopOutcome
      BY <1>7 DEF WroteQuarantinePatch, StartKeeps
    <2>3. CASE SpawnRuntime("quarantine")
      <3>1. "quarantine" \in Roles \ {"dump"}
        BY DEF Roles
      <3>. QED BY <1>7, <2>1, <2>2, <2>3, <3>1, SpawnIsGood DEF WroteQuarantinePatch, StartType
    <2>4. CASE ~SpawnRuntime("quarantine")
      BY <1>7, <2>2, <2>4, ThrowIsGood, Points DEF WroteQuarantinePatch, StartType
    <2>. QED BY <2>3, <2>4
  <1>8. CASE BecomesReady
    <2>1. start' = NoStart \/ start' = [start EXCEPT !.at = "persist", !.child = None]
      BY <1>8, ReadyEffect
    <2>2. start' \in StartType
      BY <2>1, Points, NoCalls DEF StartType
    <2>3. CASE start' = NoStart
      BY <1>8, <2>2, <2>3, ReadyEffect DEF StartType
    <2>4. CASE start' # NoStart
      BY <1>8, <2>1, <2>2, <2>4, ReadyEffect DEF StartType
    <2>. QED BY <2>3, <2>4
  <1>9. CASE WaitFails
    BY <1>9 DEF WaitFails
  <1>10. CASE Terminated
    <2>1. starts > 0
      BY <1>10, TerminatedEffect DEF StartShape
    <2>2. CASE Launch("dump") /\ ~stopRequested
      <3>1. "dump" \in Roles
        BY DEF Roles
      <3>. QED BY <1>10, <2>1, <2>2, <3>1, LaunchIsGood, TerminatedEffect DEF StartType
    <2>3. CASE ~(Launch("dump") /\ ~stopRequested)
      <3>1. /\ child' = None /\ live' = live
            /\ \/ start' = [start EXCEPT !.at = "clean_up", !.child = None]
               \/ start' = [start EXCEPT !.at = "clear_record", !.child = None]
        BY <1>10, <2>3, TerminatedEffect
      <3>2. start' \in StartType
        BY <3>1, Points DEF StartType
      <3>. QED BY <1>10, <3>1, <3>2, TerminatedEffect DEF StartType
    <2>. QED BY <2>2, <2>3
  <1>11. CASE ClearedRecord
    <2>1. starts > 0
      BY <1>11 DEF ClearedRecord, StartShape
    <2>2. /\ starts' = starts /\ stopRequested' = stopRequested /\ stop' = stop
          /\ policy' = policy /\ stopGeneration' = stopGeneration /\ stopOutcome' = stopOutcome
      BY <1>11 DEF ClearedRecord, StartKeeps
    <2>3. CASE SpawnRuntime("normal")
      <3>1. "normal" \in Roles \ {"dump"}
        BY DEF Roles
      <3>. QED BY <1>11, <2>1, <2>2, <2>3, <3>1, SpawnIsGood DEF ClearedRecord, StartType
    <2>4. SpawnRuntime("normal")
      BY <1>11 DEF ClearedRecord
    <2>. QED BY <2>3, <2>4
  <1>12. CASE DumpEnds
    BY <1>12 DEF DumpEnds
  <1>13. CASE DumpTimesOut
    BY <1>13 DEF DumpTimesOut
  <1>14. CASE WroteRecoveryPatch
    <2>1. starts > 0
      BY <1>14 DEF WroteRecoveryPatch, StartShape
    <2>2. /\ starts' = starts /\ stopRequested' = stopRequested /\ stop' = stop
          /\ policy' = policy /\ stopGeneration' = stopGeneration /\ stopOutcome' = stopOutcome
      BY <1>14 DEF WroteRecoveryPatch, StartKeeps
    <2>3. CASE SpawnRuntime("recovery")
      <3>1. "recovery" \in Roles \ {"dump"}
        BY DEF Roles
      <3>. QED BY <1>14, <2>1, <2>2, <2>3, <3>1, SpawnIsGood DEF WroteRecoveryPatch, StartType
    <2>4. CASE ~SpawnRuntime("recovery")
      BY <1>14, <2>2, <2>4, ThrowIsGood, Points DEF WroteRecoveryPatch, StartType
    <2>. QED BY <2>3, <2>4
  <1>15. CASE Persisted
    BY <1>15 DEF Persisted
  <1>16. CASE CleanUp
    BY <1>16 DEF CleanUp
  <1>17. CASE StartFailed
    BY <1>17 DEF StartFailed
  <1>18. CASE StopCall
    BY <1>18 DEF StopCall
  <1>19. CASE LadderOfStopEnds
    BY <1>19 DEF LadderOfStopEnds
  <1>20. CASE LadderOfStopThrows
    BY <1>20 DEF LadderOfStopThrows
  <1>21. CASE StartHasSettled
    BY <1>21 DEF StartHasSettled
  <1>22. CASE LateChildTerminated
    BY <1>22 DEF LateChildTerminated
  <1>23. CASE Stopped
    BY <1>23 DEF Stopped
  <1>24. ASSUME NEW p \in live, Dies(p) PROVE StartShape'
    BY <1>24 DEF Dies, Others
  <1>25. ASSUME NEW p \in live, BackgroundLadderEnds(p) PROVE StartShape'
    BY <1>25 DEF BackgroundLadderEnds, Others
  <1>26. CASE UNCHANGED vars
    BY <1>26 DEF vars
  <1>. QED
    BY <1>1, <1>2, <1>3, <1>4, <1>5, <1>6, <1>7, <1>8, <1>9, <1>10, <1>11, <1>12, <1>13,
         <1>14, <1>15, <1>16, <1>17, <1>18, <1>19, <1>20, <1>21, <1>22, <1>23, <1>24, <1>25,
         <1>26 DEF Next, StartStep, StopStep, ProcessStep

\* Every step keeps the child of the stop known.
LEMMA StopShapeStep == TypeOK /\ StartShape /\ StopShape /\ [Next]_vars => StopShape'
  <1>. SUFFICES ASSUME TypeOK /\ StartShape /\ StopShape, [Next]_vars PROVE StopShape'
    OBVIOUS
  <1>. USE NoneIsNoProcess, BoundsAssumption DEF StartKeeps, StopKeeps, Quietly, StartAt,
       StopAt, StartGoesTo, FailAfterBoot, LadderEnds, ReleaseDump, ThrowAfterDump,
       AwaitsStart, NoStart, NoStop, TypeOK, StartShape, StopShape, WithProcess
  <1>1. CASE StartCall
    <2>1. CASE stop.at # "none"
      BY <1>1, <2>1 DEF StartCall
    <2>2. CASE stop.at = "none" /\ child # None
      BY <1>1, <2>2 DEF StartCall
    <2>3. CASE stop.at = "none" /\ child = None
      BY <1>1, <2>3 DEF StartCall
    <2>. QED BY <2>1, <2>2, <2>3
  <1>2. CASE ResumeAfterStop
    BY <1>2 DEF ResumeAfterStop
  <1>3. CASE Prepared
    BY <1>3, ThrowIsGood, Points DEF Prepared, StartType
  <1>4. CASE MadeWorkDir
    BY <1>4, ThrowIsGood, Points DEF MadeWorkDir, StartType
  <1>5. CASE WrotePatch
    <2>1. starts > 0
      BY <1>5 DEF WrotePatch, StartShape
    <2>2. /\ starts' = starts /\ stopRequested' = stopRequested /\ stop' = stop
          /\ policy' = policy /\ stopGeneration' = stopGeneration /\ stopOutcome' = stopOutcome
      BY <1>5 DEF WrotePatch, StartKeeps
    <2>3. CASE SpawnRuntime("normal")
      <3>1. "normal" \in Roles \ {"dump"}
        BY DEF Roles
      <3>. QED BY <1>5, <2>1, <2>2, <2>3, <3>1, SpawnIsGood DEF WrotePatch, StartType
    <2>4. CASE ~SpawnRuntime("normal")
      BY <1>5, <2>2, <2>4, ThrowIsGood, Points DEF WrotePatch, StartType
    <2>. QED BY <2>3, <2>4
  <1>6. CASE ReadRecord
    <2>1. starts > 0
      BY <1>6 DEF ReadRecord, StartShape
    <2>2. /\ starts' = starts /\ stopRequested' = stopRequested /\ stop' = stop
          /\ policy' = policy /\ stopGeneration' = stopGeneration /\ stopOutcome' = stopOutcome
      BY <1>6 DEF ReadRecord, StartKeeps
    <2>3. CASE SpawnRuntime("normal")
      <3>1. "normal" \in Roles \ {"dump"}
        BY DEF Roles
      <3>. QED BY <1>6, <2>1, <2>2, <2>3, <3>1, SpawnIsGood DEF ReadRecord, StartType
    <2>4. CASE ~SpawnRuntime("normal")
      BY <1>6, <2>2, <2>4, ThrowIsGood, Points DEF ReadRecord, StartType
    <2>. QED BY <2>3, <2>4
  <1>7. CASE WroteQuarantinePatch
    <2>1. starts > 0
      BY <1>7 DEF WroteQuarantinePatch, StartShape
    <2>2. /\ starts' = starts /\ stopRequested' = stopRequested /\ stop' = stop
          /\ policy' = policy /\ stopGeneration' = stopGeneration /\ stopOutcome' = stopOutcome
      BY <1>7 DEF WroteQuarantinePatch, StartKeeps
    <2>3. CASE SpawnRuntime("quarantine")
      <3>1. "quarantine" \in Roles \ {"dump"}
        BY DEF Roles
      <3>. QED BY <1>7, <2>1, <2>2, <2>3, <3>1, SpawnIsGood DEF WroteQuarantinePatch, StartType
    <2>4. CASE ~SpawnRuntime("quarantine")
      BY <1>7, <2>2, <2>4, ThrowIsGood, Points DEF WroteQuarantinePatch, StartType
    <2>. QED BY <2>3, <2>4
  <1>8. CASE BecomesReady
    <2>1. start' = NoStart \/ start' = [start EXCEPT !.at = "persist", !.child = None]
      BY <1>8, ReadyEffect
    <2>2. start' \in StartType
      BY <2>1, Points, NoCalls DEF StartType
    <2>3. CASE start' = NoStart
      BY <1>8, <2>2, <2>3, ReadyEffect DEF StartType
    <2>4. CASE start' # NoStart
      <3>1. start'.at = "persist"
        BY <2>1, <2>4
      <3>. QED BY <1>8, <3>1, ReadyEffect
    <2>. QED BY <2>3, <2>4
  <1>9. CASE WaitFails
    BY <1>9 DEF WaitFails
  <1>10. CASE Terminated
    <2>1. starts > 0
      BY <1>10, TerminatedEffect DEF StartShape
    <2>2. CASE Launch("dump") /\ ~stopRequested
      <3>1. "dump" \in Roles
        BY DEF Roles
      <3>. QED BY <1>10, <2>1, <2>2, <3>1, LaunchIsGood, TerminatedEffect DEF StartType
    <2>3. CASE ~(Launch("dump") /\ ~stopRequested)
      <3>1. /\ child' = None /\ live' = live
            /\ \/ start' = [start EXCEPT !.at = "clean_up", !.child = None]
               \/ start' = [start EXCEPT !.at = "clear_record", !.child = None]
        BY <1>10, <2>3, TerminatedEffect
      <3>2. start' \in StartType
        BY <3>1, Points DEF StartType
      <3>. QED BY <1>10, <3>1, <3>2, TerminatedEffect DEF StartType
    <2>. QED BY <2>2, <2>3
  <1>11. CASE ClearedRecord
    <2>1. starts > 0
      BY <1>11 DEF ClearedRecord, StartShape
    <2>2. /\ starts' = starts /\ stopRequested' = stopRequested /\ stop' = stop
          /\ policy' = policy /\ stopGeneration' = stopGeneration /\ stopOutcome' = stopOutcome
      BY <1>11 DEF ClearedRecord, StartKeeps
    <2>3. CASE SpawnRuntime("normal")
      <3>1. "normal" \in Roles \ {"dump"}
        BY DEF Roles
      <3>. QED BY <1>11, <2>1, <2>2, <2>3, <3>1, SpawnIsGood DEF ClearedRecord, StartType
    <2>4. SpawnRuntime("normal")
      BY <1>11 DEF ClearedRecord
    <2>. QED BY <2>3, <2>4
  <1>12. CASE DumpEnds
    BY <1>12 DEF DumpEnds
  <1>13. CASE DumpTimesOut
    BY <1>13 DEF DumpTimesOut
  <1>14. CASE WroteRecoveryPatch
    <2>1. starts > 0
      BY <1>14 DEF WroteRecoveryPatch, StartShape
    <2>2. /\ starts' = starts /\ stopRequested' = stopRequested /\ stop' = stop
          /\ policy' = policy /\ stopGeneration' = stopGeneration /\ stopOutcome' = stopOutcome
      BY <1>14 DEF WroteRecoveryPatch, StartKeeps
    <2>3. CASE SpawnRuntime("recovery")
      <3>1. "recovery" \in Roles \ {"dump"}
        BY DEF Roles
      <3>. QED BY <1>14, <2>1, <2>2, <2>3, <3>1, SpawnIsGood DEF WroteRecoveryPatch, StartType
    <2>4. CASE ~SpawnRuntime("recovery")
      BY <1>14, <2>2, <2>4, ThrowIsGood, Points DEF WroteRecoveryPatch, StartType
    <2>. QED BY <2>3, <2>4
  <1>15. CASE Persisted
    BY <1>15 DEF Persisted
  <1>16. CASE CleanUp
    BY <1>16 DEF CleanUp
  <1>17. CASE StartFailed
    BY <1>17 DEF StartFailed
  <1>18. CASE StopCall
    BY <1>18 DEF StopCall
  <1>19. CASE LadderOfStopEnds
    BY <1>19 DEF LadderOfStopEnds
  <1>20. CASE LadderOfStopThrows
    BY <1>20 DEF LadderOfStopThrows
  <1>21. CASE StartHasSettled
    BY <1>21 DEF StartHasSettled
  <1>22. CASE LateChildTerminated
    BY <1>22 DEF LateChildTerminated
  <1>23. CASE Stopped
    BY <1>23 DEF Stopped
  <1>24. ASSUME NEW p \in live, Dies(p) PROVE StopShape'
    BY <1>24 DEF Dies, Others
  <1>25. ASSUME NEW p \in live, BackgroundLadderEnds(p) PROVE StopShape'
    BY <1>25 DEF BackgroundLadderEnds, Others
  <1>26. CASE UNCHANGED vars
    BY <1>26 DEF vars
  <1>. QED
    BY <1>1, <1>2, <1>3, <1>4, <1>5, <1>6, <1>7, <1>8, <1>9, <1>10, <1>11, <1>12, <1>13,
         <1>14, <1>15, <1>16, <1>17, <1>18, <1>19, <1>20, <1>21, <1>22, <1>23, <1>24, <1>25,
         <1>26 DEF Next, StartStep, StopStep, ProcessStep

\* No start gets under way behind the back of a stop.
LEMMA StopOrderStep == TypeOK /\ StopShape /\ StopOrder /\ [Next]_vars => StopOrder'
  <1>. SUFFICES ASSUME TypeOK /\ StopShape /\ StopOrder, [Next]_vars PROVE StopOrder'
    OBVIOUS
  <1>. USE NoneIsNoProcess, BoundsAssumption DEF StartKeeps, StopKeeps, Quietly, StartAt,
       StopAt, StartGoesTo, Throw, FailAfterBoot, LadderEnds, Launch, SpawnRuntime,
       ReleaseDump, ThrowAfterDump, AwaitsStart, NoStart, NoStop, StopShape, StopOrder,
       Settled, TypeOK
  <1>1. CASE StartCall
    BY <1>1 DEF StartCall
  <1>2. CASE ResumeAfterStop
    BY <1>2 DEF ResumeAfterStop
  <1>3. CASE Prepared
    BY <1>3 DEF Prepared
  <1>4. CASE MadeWorkDir
    BY <1>4 DEF MadeWorkDir
  <1>5. CASE WrotePatch
    BY <1>5 DEF WrotePatch
  <1>6. CASE ReadRecord
    BY <1>6 DEF ReadRecord
  <1>7. CASE WroteQuarantinePatch
    BY <1>7 DEF WroteQuarantinePatch
  <1>8. CASE BecomesReady
    BY <1>8 DEF BecomesReady
  <1>9. CASE WaitFails
    BY <1>9 DEF WaitFails
  <1>10. CASE Terminated
    BY <1>10 DEF Terminated
  <1>11. CASE ClearedRecord
    BY <1>11 DEF ClearedRecord
  <1>12. CASE DumpEnds
    BY <1>12 DEF DumpEnds
  <1>13. CASE DumpTimesOut
    BY <1>13 DEF DumpTimesOut
  <1>14. CASE WroteRecoveryPatch
    BY <1>14 DEF WroteRecoveryPatch
  <1>15. CASE Persisted
    BY <1>15 DEF Persisted
  <1>16. CASE CleanUp
    BY <1>16 DEF CleanUp
  <1>17. CASE StartFailed
    BY <1>17 DEF StartFailed
  <1>18. CASE StopCall
    BY <1>18 DEF StopCall
  <1>19. CASE LadderOfStopEnds
    BY <1>19 DEF LadderOfStopEnds
  <1>20. CASE LadderOfStopThrows
    BY <1>20 DEF LadderOfStopThrows
  <1>21. CASE StartHasSettled
    BY <1>21 DEF StartHasSettled
  <1>22. CASE LateChildTerminated
    BY <1>22 DEF LateChildTerminated
  <1>23. CASE Stopped
    BY <1>23 DEF Stopped
  <1>24. ASSUME NEW p \in live, Dies(p) PROVE StopOrder'
    BY <1>24 DEF Dies, Others
  <1>25. ASSUME NEW p \in live, BackgroundLadderEnds(p) PROVE StopOrder'
    BY <1>25 DEF BackgroundLadderEnds, Others
  <1>26. CASE UNCHANGED vars
    BY <1>26 DEF vars
  <1>. QED
    BY <1>1, <1>2, <1>3, <1>4, <1>5, <1>6, <1>7, <1>8, <1>9, <1>10, <1>11, <1>12, <1>13,
         <1>14, <1>15, <1>16, <1>17, <1>18, <1>19, <1>20, <1>21, <1>22, <1>23, <1>24, <1>25,
         <1>26 DEF Next, StartStep, StopStep, ProcessStep

\* No step forgets a process.
LEMMA NotLostStep == StartShape /\ StopShape /\ NoProcessIsLost /\ [Next]_vars => NoProcessIsLost'
  <1>. SUFFICES ASSUME StartShape /\ StopShape /\ NoProcessIsLost, [Next]_vars PROVE
       NoProcessIsLost'
    OBVIOUS
  <1>. USE NoneIsNoProcess, BoundsAssumption DEF StartKeeps, StopKeeps, Quietly, StartAt,
       StopAt, StartGoesTo, Throw, FailAfterBoot, LadderEnds, Launch, SpawnRuntime,
       ReleaseDump, ThrowAfterDump, AwaitsStart, NoStart, NoStop, StartShape, StopShape,
       NoProcessIsLost, WithProcess
  <1>1. CASE StartCall
    BY <1>1 DEF StartCall
  <1>2. CASE ResumeAfterStop
    BY <1>2 DEF ResumeAfterStop
  <1>3. CASE Prepared
    BY <1>3 DEF Prepared
  <1>4. CASE MadeWorkDir
    BY <1>4 DEF MadeWorkDir
  <1>5. CASE WrotePatch
    BY <1>5 DEF WrotePatch
  <1>6. CASE ReadRecord
    BY <1>6 DEF ReadRecord
  <1>7. CASE WroteQuarantinePatch
    BY <1>7 DEF WroteQuarantinePatch
  <1>8. CASE BecomesReady
    BY <1>8 DEF BecomesReady
  <1>9. CASE WaitFails
    BY <1>9 DEF WaitFails
  <1>10. CASE Terminated
    BY <1>10 DEF Terminated
  <1>11. CASE ClearedRecord
    BY <1>11 DEF ClearedRecord
  <1>12. CASE DumpEnds
    BY <1>12 DEF DumpEnds
  <1>13. CASE DumpTimesOut
    BY <1>13 DEF DumpTimesOut
  <1>14. CASE WroteRecoveryPatch
    BY <1>14 DEF WroteRecoveryPatch
  <1>15. CASE Persisted
    BY <1>15 DEF Persisted
  <1>16. CASE CleanUp
    BY <1>16 DEF CleanUp
  <1>17. CASE StartFailed
    BY <1>17 DEF StartFailed
  <1>18. CASE StopCall
    BY <1>18 DEF StopCall
  <1>19. CASE LadderOfStopEnds
    BY <1>19 DEF LadderOfStopEnds
  <1>20. CASE LadderOfStopThrows
    BY <1>20 DEF LadderOfStopThrows
  <1>21. CASE StartHasSettled
    BY <1>21 DEF StartHasSettled
  <1>22. CASE LateChildTerminated
    BY <1>22 DEF LateChildTerminated
  <1>23. CASE Stopped
    BY <1>23 DEF Stopped
  <1>24. ASSUME NEW p \in live, Dies(p) PROVE NoProcessIsLost'
    BY <1>24 DEF Dies, Others
  <1>25. ASSUME NEW p \in live, BackgroundLadderEnds(p) PROVE NoProcessIsLost'
    BY <1>25 DEF BackgroundLadderEnds, Others
  <1>26. CASE UNCHANGED vars
    BY <1>26 DEF vars
  <1>. QED
    BY <1>1, <1>2, <1>3, <1>4, <1>5, <1>6, <1>7, <1>8, <1>9, <1>10, <1>11, <1>12, <1>13,
         <1>14, <1>15, <1>16, <1>17, <1>18, <1>19, <1>20, <1>21, <1>22, <1>23, <1>24, <1>25,
         <1>26 DEF Next, StartStep, StopStep, ProcessStep

\* No step undoes a stop.
LEMMA FinalStep == IInv /\ [Next]_vars => StopIsFinal'
  <1>. SUFFICES ASSUME IInv, [Next]_vars PROVE StopIsFinal'
    OBVIOUS
  <1>. USE NoneIsNoProcess, BoundsAssumption DEF StartKeeps, StopKeeps, Quietly, StartAt,
       StopAt, StartGoesTo, Throw, FailAfterBoot, LadderEnds, Launch, SpawnRuntime,
       ReleaseDump, ThrowAfterDump, AwaitsStart, NoStart, NoStop, IInv, StartShape,
       StopShape, StopOrder, NoProcessIsLost, StopIsFinal, WithProcess, Settled
  <1>1. CASE StartCall
    BY <1>1 DEF StartCall
  <1>2. CASE ResumeAfterStop
    BY <1>2 DEF ResumeAfterStop
  <1>3. CASE Prepared
    BY <1>3 DEF Prepared
  <1>4. CASE MadeWorkDir
    BY <1>4 DEF MadeWorkDir
  <1>5. CASE WrotePatch
    BY <1>5 DEF WrotePatch
  <1>6. CASE ReadRecord
    BY <1>6 DEF ReadRecord
  <1>7. CASE WroteQuarantinePatch
    BY <1>7 DEF WroteQuarantinePatch
  <1>8. CASE BecomesReady
    BY <1>8 DEF BecomesReady
  <1>9. CASE WaitFails
    BY <1>9 DEF WaitFails
  <1>10. CASE Terminated
    BY <1>10 DEF Terminated
  <1>11. CASE ClearedRecord
    BY <1>11 DEF ClearedRecord
  <1>12. CASE DumpEnds
    BY <1>12 DEF DumpEnds
  <1>13. CASE DumpTimesOut
    BY <1>13 DEF DumpTimesOut
  <1>14. CASE WroteRecoveryPatch
    BY <1>14 DEF WroteRecoveryPatch
  <1>15. CASE Persisted
    BY <1>15 DEF Persisted
  <1>16. CASE CleanUp
    BY <1>16 DEF CleanUp
  <1>17. CASE StartFailed
    BY <1>17 DEF StartFailed
  <1>18. CASE StopCall
    BY <1>18 DEF StopCall
  <1>19. CASE LadderOfStopEnds
    BY <1>19 DEF LadderOfStopEnds
  <1>20. CASE LadderOfStopThrows
    <2>1. stopOutcome' = "unset"
      BY <1>20 DEF LadderOfStopThrows
    <2>. QED BY <2>1
  <1>21. CASE StartHasSettled
    BY <1>21 DEF StartHasSettled
  <1>22. CASE LateChildTerminated
    BY <1>22 DEF LateChildTerminated
  <1>23. CASE Stopped
    <2>1. stop.at = "rmdir" /\ stopRequested /\ Settled /\ child = None
      BY <1>23 DEF Stopped
    <2>2. start.child = None /\ stop.child = None
      BY <2>1
    <2>3. None \notin live
      BY DEF TypeOK
    <2>4. live \subseteq background \cup survivors
      BY <2>1, <2>2, <2>3
    <2>5. /\ start' = start /\ child' = child /\ workDir' = FALSE /\ live' = live
          /\ background' = background /\ survivors' = survivors
      BY <1>23 DEF Stopped
    <2>. QED BY <2>1, <2>4, <2>5
  <1>24. ASSUME NEW p \in live, Dies(p) PROVE StopIsFinal'
    BY <1>24 DEF Dies, Others
  <1>25. ASSUME NEW p \in live, BackgroundLadderEnds(p) PROVE StopIsFinal'
    BY <1>25 DEF BackgroundLadderEnds, Others
  <1>26. CASE UNCHANGED vars
    BY <1>26 DEF vars
  <1>. QED
    BY <1>1, <1>2, <1>3, <1>4, <1>5, <1>6, <1>7, <1>8, <1>9, <1>10, <1>11, <1>12, <1>13,
         <1>14, <1>15, <1>16, <1>17, <1>18, <1>19, <1>20, <1>21, <1>22, <1>23, <1>24, <1>25,
         <1>26 DEF Next, StartStep, StopStep, ProcessStep

-----------------------------------------------------------------------------
(* Theorems.                                                               *)

LEMMA InvariantStep == IInv /\ [Next]_vars => IInv'
  BY TypeStep, StartShapeStep, StopShapeStep, StopOrderStep, NotLostStep, FinalStep
     DEF IInv

LEMMA Invariance == Spec => []IInv
  BY InitOK, InvariantStep, PTL DEF Spec

\* Every field of DshRuntime keeps its type.
THEOREM TypeCorrect == Spec => []TypeOK
  <1>1. IInv => TypeOK
    BY DEF IInv
  <1>. QED BY <1>1, Invariance, PTL

\* However starts and stops overlap, a live dsh process is in the hands of the
\* object, of a call or of a ladder, or a ladder has given up on it.
THEOREM NoProcessIsEverLost == Spec => []NoProcessIsLost
  <1>1. IInv => NoProcessIsLost
    BY DEF IInv
  <1>. QED BY <1>1, Invariance, PTL

\* A stop that has resolved is final until the next start.
THEOREM StopsAreFinal == Spec => []StopIsFinal
  <1>1. IInv => StopIsFinal
    BY DEF IInv
  <1>. QED BY <1>1, Invariance, PTL

\* No step spawns a process while a stop is requested.
LEMMA NothingRevivesStep ==
  ASSUME IInv, [Next]_vars, stopRequested
  PROVE  live' \subseteq live
  <1>. USE DEF IInv
  <1>1. CASE StartCall
    BY <1>1 DEF StartCall, StartKeeps, StopKeeps, Quietly
  <1>2. CASE ResumeAfterStop
    BY <1>2 DEF ResumeAfterStop, StartKeeps, StopKeeps, Quietly
  <1>3. CASE Prepared
    BY <1>3 DEF Prepared, StartKeeps, StopKeeps, Quietly
  <1>4. CASE MadeWorkDir
    BY <1>4 DEF MadeWorkDir, StartKeeps, StopKeeps, Quietly
  <1>5. CASE WrotePatch
    BY <1>5 DEF WrotePatch, SpawnRuntime, Quietly
  <1>6. CASE ReadRecord
    BY <1>6 DEF ReadRecord, SpawnRuntime, Quietly
  <1>7. CASE WroteQuarantinePatch
    BY <1>7 DEF WroteQuarantinePatch, SpawnRuntime, Quietly
  <1>8. CASE BecomesReady
    BY <1>8 DEF BecomesReady, StartKeeps, StopKeeps, Quietly
  <1>9. CASE WaitFails
    BY <1>9 DEF WaitFails, StartKeeps, StopKeeps, Quietly
  <1>10. CASE Terminated
    BY <1>10 DEF Terminated, FailAfterBoot, StartKeeps, StopKeeps, Quietly
  <1>11. CASE ClearedRecord
    BY <1>11 DEF ClearedRecord, SpawnRuntime, Quietly
  <1>12. CASE DumpEnds
    BY <1>12 DEF DumpEnds, StartKeeps, StopKeeps, Quietly
  <1>13. CASE DumpTimesOut
    BY <1>13 DEF DumpTimesOut, StartKeeps, StopKeeps, Quietly
  <1>14. CASE WroteRecoveryPatch
    BY <1>14 DEF WroteRecoveryPatch, SpawnRuntime, Quietly
  <1>15. CASE Persisted
    BY <1>15 DEF Persisted, StartKeeps, StopKeeps, Quietly
  <1>16. CASE CleanUp
    BY <1>16 DEF CleanUp, StartKeeps, StopKeeps, Quietly
  <1>17. CASE StartFailed
    BY <1>17 DEF StartFailed, StartKeeps, StopKeeps, Quietly
  <1>18. CASE StopCall
    BY <1>18 DEF StopCall, StartKeeps, StopKeeps, Quietly
  <1>19. CASE LadderOfStopEnds
    BY <1>19 DEF LadderOfStopEnds, StartKeeps, StopKeeps, Quietly
  <1>20. CASE LadderOfStopThrows
    BY <1>20 DEF LadderOfStopThrows, StartKeeps, StopKeeps, Quietly
  <1>21. CASE StartHasSettled
    BY <1>21 DEF StartHasSettled, StartKeeps, StopKeeps, Quietly
  <1>22. CASE LateChildTerminated
    BY <1>22 DEF LateChildTerminated, StartKeeps, StopKeeps, Quietly
  <1>23. CASE Stopped
    BY <1>23 DEF Stopped, StartKeeps, StopKeeps, Quietly
  <1>24. ASSUME NEW p \in live, Dies(p) PROVE live' \subseteq live
    BY <1>24 DEF Dies
  <1>25. ASSUME NEW p \in live, BackgroundLadderEnds(p) PROVE live' \subseteq live
    BY <1>25 DEF BackgroundLadderEnds
  <1>26. CASE UNCHANGED vars
    BY <1>26 DEF vars
  <1>. QED
    BY <1>1, <1>2, <1>3, <1>4, <1>5, <1>6, <1>7, <1>8, <1>9, <1>10, <1>11, <1>12, <1>13,
         <1>14, <1>15, <1>16, <1>17, <1>18, <1>19, <1>20, <1>21, <1>22, <1>23, <1>24, <1>25,
         <1>26 DEF Next, StartStep, StopStep, ProcessStep

\* A late start never spawns after a stop has been requested.
THEOREM NothingIsRevived == Spec => NothingRevives
  <1>1. IInv /\ [Next]_vars => [stopRequested => live' \subseteq live]_vars
    BY NothingRevivesStep
  <1>. QED BY <1>1, Invariance, PTL DEF Spec, NothingRevives
=============================================================================
