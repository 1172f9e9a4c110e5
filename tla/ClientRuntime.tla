--------------------------- MODULE ClientRuntime ---------------------------
(***************************************************************************)
(* DshRuntime (packages/client-runtime/src/runtime.ts): the object through *)
(* which the Node hosts start and stop the dsh process, with its plugin    *)
(* quarantine (plugin-quarantine.ts) and the recovery boot.                *)
(*                                                                         *)
(* start and stop may be called at any time, each joins its own call in    *)
(* flight, and the two overlap: JavaScript runs one piece of code at a     *)
(* time, so that an action is what runs between two awaits.  A call that   *)
(* joins changes nothing and is left out.  What is resolved, downloaded    *)
(* and written before a spawn counts only as an await that may fail, and   *)
(* whether a live process answers on its page is left open.                *)
(***************************************************************************)
EXTENDS Naturals

CONSTANTS
    MaxStarts,   \* bound: calls of start that do not join another
    MaxStops     \* bound: calls of stop that do not join another

ASSUME BoundsAssumption == MaxStarts \in Nat /\ MaxStops \in Nat

Roles == {"quarantine", "normal", "dump", "recovery"}

\* A process is named by the start that has spawned it and its part in it.
Processes == [start : 1 .. MaxStarts, role : Roles]
None == [start |-> 0, role |-> "none"]

VARIABLES
    policy,          \* options: "plain", "recovery", or also a "quarantine" file
    \* fields of DshRuntime; startPromise and stopPromise are `start' and `stop'
    child,
    workDir,         \* a work directory is set
    stopRequested,
    stopGeneration,
    stopOutcome,     \* "unset", "clean", or "unclean": the ladder gave up
    start,           \* the start in flight, see StartCall
    stop,            \* the stop in flight, see StopCall
    \* outside of the object
    starts,          \* starts begun so far
    record,          \* the quarantine file: "none", "applies", or "stale"
    live,            \* the processes that run
    background,      \* a ladder that nobody awaits runs for these
    survivors        \* history: live processes that a ladder gave up on

vars == <<policy, child, workDir, stopRequested, stopGeneration, stopOutcome,
          start, stop, starts, record, live, background, survivors>>

StartPoints == {"none", "await_stop", "prepare", "mkdtemp", "patch", "read_record",
                "quarantine_patch", "waiting", "terminating", "clear_record",
                "dump", "recovery_patch", "persist", "clean_up", "rmdir"}
StopPoints == {"none", "ladder", "await_start", "late", "rmdir"}

\* child: the one the call holds in a local variable.  observed: the stop
\* generation seen by a start.  awaits: the start awaited by a stop, or 0.
NoStart == [at |-> "none", child |-> None, observed |-> 0]
NoStop == [at |-> "none", child |-> None, awaits |-> 0]

TypeOK ==
    /\ policy \in {"plain", "recovery", "quarantine"}
    /\ child \in Processes \cup {None}
    /\ workDir \in BOOLEAN /\ stopRequested \in BOOLEAN
    /\ stopGeneration \in 0 .. MaxStops
    /\ stopOutcome \in {"unset", "clean", "unclean"}
    /\ start \in [at : StartPoints, child : Processes \cup {None},
                  observed : 0 .. MaxStops]
    /\ stop \in [at : StopPoints, child : Processes \cup {None},
                 awaits : 0 .. MaxStarts]
    /\ starts \in 0 .. MaxStarts
    /\ record \in {"none", "applies", "stale"}
    /\ live \subseteq Processes
    /\ background \subseteq live /\ survivors \subseteq live

Init ==
    /\ policy \in {"plain", "recovery", "quarantine"}
    /\ record \in IF policy = "quarantine" THEN {"none", "applies", "stale"} ELSE {"none"}
    /\ child = None /\ workDir = FALSE
    /\ stopRequested = FALSE /\ stopGeneration = 0 /\ stopOutcome = "unset"
    /\ start = NoStart /\ stop = NoStop /\ starts = 0
    /\ live = {} /\ background = {} /\ survivors = {}

\* terminateRuntimeChild and shutdownLadder end in bounded time.  A process that
\* has not died by then (see Dies) is given up on.
LadderEnds(p) == survivors' = survivors \cup (live \cap {p})

-----------------------------------------------------------------------------
(* start: what every step has in common.                                   *)

StartAt(point) == start.at = point
StartGoesTo(point) == start' = [start EXCEPT !.at = point]

\* The catch of start: cleanupRuntimeArtifacts takes the child.
Throw ==
    /\ start' = [start EXCEPT !.at = "clean_up", !.child = child]
    /\ child' = None

\* The same after a boot whose child is terminated and let go of.
FailAfterBoot ==
    /\ start' = [start EXCEPT !.at = "clean_up", !.child = None]
    /\ child' = None /\ UNCHANGED live

\* A step that neither spawns nor terminates.
Quietly == UNCHANGED <<live, background, survivors>>
StartKeeps == UNCHANGED <<policy, stopRequested, stopGeneration, stopOutcome,
                          stop, starts>>

\* spawn: the process may fail to come into being; the object that stands for
\* it is there all the same, and emits "error".
Launch(role) ==
    LET p == [start |-> starts, role |-> role]
    IN  /\ child' = p
        /\ live' \in {live, live \cup {p}}
        /\ start' = [start EXCEPT !.child = p,
                                  !.at = IF role = "dump" THEN "dump" ELSE "waiting"]

SpawnRuntime_in_any_case(role) ==
    Launch(role) /\ UNCHANGED <<background, survivors>>

\* spawnRuntime asserts that the start is still wanted; spawn may also throw.
SpawnRuntime(role) ==
    /\ (Throw /\ UNCHANGED live) \/ (~stopRequested /\ Launch(role))
    /\ UNCHANGED <<background, survivors>>

-----------------------------------------------------------------------------
(* start.                                                                  *)

\* A call that joins no other.  Without a stop in flight it runs on to the
\* first await of startImpl.
StartCall ==
    /\ starts < MaxStarts /\ StartAt("none")
    /\ starts' = starts + 1
    /\ stopRequested' = (stopRequested /\ stop.at # "none")
    /\ IF stop.at # "none"
       THEN /\ start' = [NoStart EXCEPT !.at = "await_stop", !.observed = stopGeneration]
            /\ UNCHANGED stopOutcome
       ELSE IF child # None                       \* "already running"
       THEN UNCHANGED <<start, stopOutcome>>
       ELSE /\ start' = [NoStart EXCEPT !.at = "prepare"]
            /\ stopOutcome' = "unset"
    /\ UNCHANGED <<policy, child, workDir, stopGeneration, stop, record>>
    /\ Quietly

\* The stop it has been waiting for has ended.
ResumeAfterStop ==
    /\ StartAt("await_stop")
    /\ stop.at = "none" \/ stopGeneration # start.observed
    /\ IF stopGeneration # start.observed \/ stopRequested \/ child # None
       THEN start' = NoStart /\ UNCHANGED stopOutcome
       ELSE StartGoesTo("prepare") /\ stopOutcome' = "unset"
    /\ UNCHANGED <<policy, child, workDir, stopRequested, stopGeneration, stop,
                   starts, record>>
    /\ Quietly

\* The launch command is resolved, the runtime may have been downloaded.
Prepared ==
    /\ StartAt("prepare")
    /\ \/ Throw
       \/ ~stopRequested /\ StartGoesTo("mkdtemp") /\ UNCHANGED child
    /\ UNCHANGED <<workDir, record>> /\ Quietly /\ StartKeeps

MadeWorkDir ==
    /\ StartAt("mkdtemp")
    /\ \/ Throw /\ UNCHANGED workDir
       \/ /\ workDir' = TRUE
          /\ IF stopRequested THEN Throw ELSE StartGoesTo("patch") /\ UNCHANGED child
    /\ UNCHANGED record /\ Quietly /\ StartKeeps

WrotePatch ==
    /\ StartAt("patch")
    /\ \/ Throw /\ Quietly
       \/ policy = "quarantine" /\ StartGoesTo("read_record") /\ UNCHANGED child /\ Quietly
       \/ policy # "quarantine" /\ SpawnRuntime("normal")
    /\ UNCHANGED <<workDir, record>> /\ StartKeeps

\* readPluginQuarantine removes a record that does not apply.
ReadRecord ==
    /\ StartAt("read_record")
    /\ IF record = "applies"
       THEN /\ IF stopRequested THEN Throw
               ELSE StartGoesTo("quarantine_patch") /\ UNCHANGED child
            /\ UNCHANGED record /\ Quietly
       ELSE /\ record' \in {"none", record}
            /\ SpawnRuntime("normal")
    /\ UNCHANGED workDir /\ StartKeeps

WroteQuarantinePatch ==
    /\ StartAt("quarantine_patch")
    /\ (Throw /\ Quietly) \/ SpawnRuntime("quarantine")
    /\ UNCHANGED <<workDir, record>> /\ StartKeeps

\* waitForReady resolves: the page has answered, and no stop is requested.
BecomesReady ==
    /\ StartAt("waiting") /\ ~stopRequested
    /\ start.child \in live
    /\ IF start.child.role = "recovery" /\ policy = "quarantine"
       THEN start' = [start EXCEPT !.at = "persist", !.child = None]
       ELSE start' = NoStart
    /\ UNCHANGED <<child, workDir, record>> /\ Quietly /\ StartKeeps

\* waitForReady rejects: an exit, an error, the timer, or a stop.
WaitFails ==
    /\ StartAt("waiting")
    /\ StartGoesTo("terminating")
    /\ UNCHANGED <<child, workDir, record>> /\ Quietly /\ StartKeeps

-----------------------------------------------------------------------------
(* start: after a boot that has failed.                                    *)

\* The ladder has ended.  Nothing comes after a stop or a recovery boot; a
\* quarantined boot is followed by a normal one and a normal one by a dump of
\* the configuration, which is spawned at once (or whose spawn throws).
Terminated ==
    /\ StartAt("terminating")
    /\ LadderEnds(start.child)
    /\ IF stopRequested \/ start.child.role = "recovery"
       THEN FailAfterBoot
       ELSE IF start.child.role = "quarantine"
       THEN /\ start' = [start EXCEPT !.at = "clear_record", !.child = None]
            /\ child' = None /\ UNCHANGED live
       ELSE FailAfterBoot \/ (policy # "plain" /\ Launch("dump"))
    /\ UNCHANGED <<workDir, record, background>> /\ StartKeeps

\* clearPluginQuarantine may fail; the normal boot comes all the same.
ClearedRecord ==
    /\ StartAt("clear_record")
    /\ record' \in {"none", record}
    /\ SpawnRuntime("normal")
    /\ UNCHANGED workDir /\ StartKeeps

\* finish of captureConfigDump gives the field back.
ReleaseDump == child' = IF child = start.child THEN None ELSE child

ThrowAfterDump ==
    /\ start' = [start EXCEPT !.at = "clean_up", !.child = None]
    /\ ReleaseDump

\* The dump has exited (or never come into being): it may have failed, and
\* the rows it lists may leave nothing to isolate.
DumpEnds ==
    /\ StartAt("dump") /\ start.child \notin live
    /\ \/ ThrowAfterDump
       \/ /\ ~stopRequested
          /\ start' = [start EXCEPT !.at = "recovery_patch", !.child = None]
          /\ ReleaseDump
    /\ UNCHANGED <<workDir, record>> /\ Quietly /\ StartKeeps

DumpTimesOut_leaving_it ==
    /\ StartAt("dump") /\ start.child \in live
    /\ ThrowAfterDump
    /\ UNCHANGED <<workDir, record>> /\ Quietly /\ StartKeeps

\* Nobody awaits the ladder of a dump that has timed out.
DumpTimesOut ==
    /\ StartAt("dump") /\ start.child \in live
    /\ background' = background \cup {start.child}
    /\ ThrowAfterDump
    /\ UNCHANGED <<workDir, record, live, survivors>> /\ StartKeeps

WroteRecoveryPatch ==
    /\ StartAt("recovery_patch")
    /\ (Throw /\ Quietly) \/ SpawnRuntime("recovery")
    /\ UNCHANGED <<workDir, record>> /\ StartKeeps

\* writePluginQuarantine; the start resolves whether or not it has failed.
Persisted ==
    /\ StartAt("persist")
    /\ record' \in {"applies", record}
    /\ start' = NoStart
    /\ UNCHANGED <<child, workDir>> /\ Quietly /\ StartKeeps

CleanUp ==
    /\ StartAt("clean_up")
    /\ LadderEnds(start.child)
    /\ start' = [start EXCEPT !.at = "rmdir", !.child = None]
    /\ UNCHANGED <<child, workDir, record, live, background>> /\ StartKeeps

\* The start rejects.
StartFailed ==
    /\ StartAt("rmdir")
    /\ workDir' = FALSE /\ start' = NoStart
    /\ UNCHANGED <<child, record>> /\ Quietly /\ StartKeeps

-----------------------------------------------------------------------------
(* stop.                                                                   *)

StopAt(point) == stop.at = point
StopKeeps == UNCHANGED <<policy, stopGeneration, start, starts, record, live,
                         background>>

\* A call that joins no other.
StopCall ==
    /\ stopGeneration < MaxStops /\ StopAt("none")
    /\ stopGeneration' = stopGeneration + 1
    /\ stopRequested' = TRUE /\ stopOutcome' = "unset"
    /\ stop' = [at |-> IF child = None THEN "await_start" ELSE "ladder",
                child |-> child,
                awaits |-> IF StartAt("none") THEN 0 ELSE starts]
    /\ child' = None
    /\ UNCHANGED <<policy, workDir, start, starts, record>> /\ Quietly

LadderOfStopEnds ==
    /\ StopAt("ladder")
    /\ LadderEnds(stop.child)
    /\ stopOutcome' = IF stop.child \in live THEN "unclean" ELSE "clean"
    /\ stop' = [stop EXCEPT !.at = "await_start", !.child = None]
    /\ UNCHANGED <<child, workDir, stopRequested>> /\ StopKeeps

\* On Windows a taskkill of the last sweep may throw: the stop rejects there
\* and then.
LadderOfStopThrows ==
    /\ StopAt("ladder")
    /\ LadderEnds(stop.child)
    /\ stop' = NoStop
    /\ UNCHANGED <<child, workDir, stopRequested, stopOutcome>> /\ StopKeeps

AwaitsStart_never == TRUE

AwaitsStart_of_any_age == StartAt("none")

\* The start that was in flight when stop was called has settled.
AwaitsStart == StartAt("none") \/ starts # stop.awaits

StartHasSettled ==
    /\ StopAt("await_start") /\ AwaitsStart
    /\ stop' = [stop EXCEPT !.at = "late", !.child = child]
    /\ child' = None
    /\ UNCHANGED <<workDir, stopRequested, stopOutcome, survivors>> /\ StopKeeps

LateChildTerminated ==
    /\ StopAt("late")
    /\ LadderEnds(stop.child)
    /\ stop' = [stop EXCEPT !.at = "rmdir", !.child = None]
    /\ UNCHANGED <<child, workDir, stopRequested, stopOutcome>> /\ StopKeeps

Stopped ==
    /\ StopAt("rmdir")
    /\ workDir' = FALSE
    /\ stopOutcome' = IF stopOutcome = "unset" THEN "clean" ELSE stopOutcome
    /\ stop' = NoStop
    /\ UNCHANGED <<child, stopRequested, survivors>> /\ StopKeeps

-----------------------------------------------------------------------------
(* Processes.                                                              *)

Others == UNCHANGED <<policy, child, workDir, stopRequested, stopGeneration,
                      stopOutcome, start, stop, starts, record>>

\* By itself, or by a signal of a ladder.
Dies(p) ==
    /\ live' = live \ {p}
    /\ survivors' = survivors \ {p}
    /\ background' = background \ {p}
    /\ Others

BackgroundLadderEnds(p) ==
    /\ p \in background
    /\ background' = background \ {p}
    /\ LadderEnds(p)
    /\ UNCHANGED live /\ Others

StartStep ==
    \/ ResumeAfterStop \/ Prepared \/ MadeWorkDir \/ WrotePatch \/ ReadRecord
    \/ WroteQuarantinePatch \/ BecomesReady \/ WaitFails \/ Terminated
    \/ ClearedRecord \/ DumpEnds \/ DumpTimesOut \/ WroteRecoveryPatch
    \/ Persisted \/ CleanUp \/ StartFailed

StopStep ==
    \/ LadderOfStopEnds \/ LadderOfStopThrows \/ StartHasSettled
    \/ LateChildTerminated \/ Stopped

ProcessStep == \E p \in live : Dies(p) \/ BackgroundLadderEnds(p)

Next == StartCall \/ StopCall \/ StartStep \/ StopStep \/ ProcessStep

Spec == Init /\ [][Next]_vars

\* Awaits of the file system, timers and ladders end.
FairSpec == Spec /\ WF_vars(StartStep) /\ WF_vars(StopStep)

-----------------------------------------------------------------------------
(* Properties.                                                             *)

\* However calls overlap, no live process is forgotten: the object, a call in
\* flight or the ladder of a dump has it in hand, or a ladder has given up.
NoProcessIsLost ==
    live \subseteq {child, start.child, stop.child} \cup background \cup survivors

\* "No late startup can revive a process after the host requested shutdown"
\* (runtime.ts:581): nothing is spawned between a stop and the next start.
NothingRevives ==
    [][stopRequested => live' \subseteq live]_vars

\* No start is under way, but for one that waits for a stop.
Settled == StartAt("none") \/ StartAt("await_stop")

\* A stop that has resolved has left neither process nor work directory, but
\* for what a ladder has given up on or a timed out dump's ladder has in hand.
StopIsFinal ==
    /\ stopRequested /\ StopAt("none") /\ stopOutcome # "unset"
    => /\ Settled /\ child = None /\ ~workDir
       /\ live \subseteq background \cup survivors

\* Every start and every stop settles, also a start that waits for a stop
\* that waits for an earlier start.
CallsSettle ==
    /\ ~StartAt("none") ~> StartAt("none")
    /\ ~StopAt("none") ~> StopAt("none")

-----------------------------------------------------------------------------
(* What the repository says and these interleavings refute.                *)

\* "Wait for that specific stop and only proceed when no newer stop request
\* arrived" (runtime.ts:150): a start that waited does go on.
WaitingStartProceeds ==
    [][StartAt("await_stop") /\ start'.at # "await_stop"
           /\ stopGeneration = start.observed /\ child = None
           => start'.at = "prepare"]_vars

\* A start that resolves has not been stopped meanwhile.
ReadyIsNotStopped ==
    [][StartAt("persist") /\ start'.at = "none" => ~stopRequested]_vars

\* A stop that ends leaves no work directory.
StopCleansUp == [][stop.at # "none" /\ stop'.at = "none" => ~workDir']_vars
=============================================================================
