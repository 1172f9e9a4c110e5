-------------------------- MODULE RuntimeLeaseFile --------------------------
(***************************************************************************)
(* The Runtime lease that host processes hold through two files of a       *)
(* shared directory, runtime.lock and active.json                          *)
(* (packages/bootstrap/src/runtime-lease.ts).  Nothing but the file system *)
(* coordinates the hosts: one action is one file operation of one of them, *)
(* and a host may die between any two.                                     *)
(*                                                                         *)
(* A host here is one operating-system process that calls                  *)
(* acquireRuntimeLease once; its token and its process id are its name     *)
(* (the token is a fresh UUID; a process id is taken not to be reused).    *)
(* Of a record only the token counts.  A renamed stale lock has a name of  *)
(* its own and is left out, and so is the temporary file of active.json,   *)
(* which only overlapping calls of one handle share.                       *)
(***************************************************************************)
EXTENDS Naturals, FiniteSets

CONSTANTS
    Hosts,         \* processes that want the lease
    Calls,         \* calls of a handle that may overlap
    Nobody,        \* token of a file that is absent or unreadable
    MaxAttempts    \* rounds of acquireRuntimeLease, 3 in the code

ASSUME NobodyAssumption == Nobody \notin Hosts
ASSUME AttemptsAssumption == MaxAttempts \in Nat \ {0}

VARIABLES
    lock,      \* runtime.lock: who created the file, and is it written yet
    active,    \* token in active.json, or Nobody
    alive,     \* the hosts that have not died
    pc,        \* where acquire or release of each host is
    beat,      \* where each call of heartbeat or updateRuntime is
    attempt,   \* rounds its acquire has used up
    seen       \* token it has read from runtime.lock

fileVars == <<lock, active>>
lfVars == <<fileVars, alive, pc, beat, attempt, seen>>

Absent == [by |-> Nobody, written |-> FALSE]
Exists == lock # Absent

\* readRecord gives null for a file that is absent, empty or half written.
LockToken == IF lock.written THEN lock.by ELSE Nobody

AcquirePcs == {"open", "write", "active", "inspect_lock", "inspect_active",
               "reclaim"}
ReleasePcs == {"rel_check", "rel_active", "rel_lock"}
Pcs == {"idle", "held", "refused", "failed", "released"} \cup AcquirePcs
       \cup ReleasePcs

LFTypeOK ==
    /\ lock \in [by : Hosts \cup {Nobody}, written : BOOLEAN]
    /\ active \in Hosts \cup {Nobody}
    /\ alive \subseteq Hosts
    /\ pc \in [Hosts -> Pcs]
    /\ beat \in [Hosts -> [Calls -> {"idle", "check", "write"}]]
    /\ attempt \in [Hosts -> 0 .. MaxAttempts]
    /\ seen \in [Hosts -> Hosts \cup {Nobody}]

LFInit ==
    /\ lock = Absent /\ active = Nobody
    /\ alive = Hosts
    /\ pc = [h \in Hosts |-> "idle"]
    /\ beat = [h \in Hosts |-> [c \in Calls |-> "idle"]]
    /\ attempt = [h \in Hosts |-> 0]
    /\ seen = [h \in Hosts |-> Nobody]

At(h, where) == h \in alive /\ pc[h] = where
GoTo(h, where) == pc' = [pc EXCEPT ![h] = where]

-----------------------------------------------------------------------------
(* acquireRuntimeLease.                                                    *)

Acquire(h) ==
    /\ At(h, "idle")
    /\ GoTo(h, "open")
    /\ UNCHANGED <<fileVars, alive, beat, attempt, seen>>

Open_announcing_itself_first(h) ==
    /\ At(h, "open")
    /\ IF Exists
       THEN GoTo(h, "inspect_lock") /\ UNCHANGED lock
       ELSE GoTo(h, "write") /\ lock' = [by |-> h, written |-> FALSE]
    /\ active' = h
    /\ UNCHANGED <<alive, beat, attempt, seen>>

\* open(lockPath, 'wx') creates the file or finds it there; another error of
\* it, or of the mkdir before, is passed on.
Open(h) ==
    /\ At(h, "open")
    /\ \/ ~Exists /\ GoTo(h, "write") /\ lock' = [by |-> h, written |-> FALSE]
       \/ Exists /\ GoTo(h, "inspect_lock") /\ UNCHANGED lock
       \/ GoTo(h, "failed") /\ UNCHANGED lock
    /\ UNCHANGED <<active, alive, beat, attempt, seen>>

\* The record goes to the file this host has created, wherever it has been
\* moved meanwhile.  A write that fails leaves the file behind.
Write(h) ==
    /\ At(h, "write")
    /\ \/ /\ lock' = IF lock.by = h THEN [lock EXCEPT !.written = TRUE]
                                    ELSE lock
          /\ GoTo(h, "active")
       \/ UNCHANGED lock /\ GoTo(h, "failed")
    /\ UNCHANGED <<active, alive, beat, attempt, seen>>

\* writeActiveAtomic; the handle is returned without another look at the
\* lock.
WriteActive(h) ==
    /\ At(h, "active")
    /\ \/ active' = h /\ GoTo(h, "held")
       \/ UNCHANGED active /\ GoTo(h, "failed")
    /\ UNCHANGED <<lock, alive, beat, attempt, seen>>

\* inspectRuntimeLease, first file.
InspectLock(h) ==
    /\ At(h, "inspect_lock")
    /\ seen' = [seen EXCEPT ![h] = LockToken]
    /\ GoTo(h, "inspect_active")
    /\ UNCHANGED <<fileVars, alive, beat, attempt>>

\* The holder it reports: of the lock, else of active.json.
Holder(h) == IF seen[h] # Nobody THEN seen[h] ELSE active

HolderAlive(h) == Holder(h) \in alive

\* inspectRuntimeLease, second file, and the probe of the holder's process.
InspectActive(h) ==
    /\ At(h, "inspect_active")
    /\ GoTo(h, IF HolderAlive(h) THEN "refused" ELSE "reclaim")
    /\ UNCHANGED <<fileVars, alive, beat, attempt, seen>>

Reclaim_never_retrying(h) ==
    /\ At(h, "reclaim")
    /\ lock' = Absent
    /\ attempt' = [attempt EXCEPT ![h] = @ + 1]
    /\ GoTo(h, "refused")
    /\ seen' = [seen EXCEPT ![h] = Nobody]
    /\ UNCHANGED <<active, alive, beat>>

\* The lock is renamed out of the way, whatever lock that is by now and if
\* there is one, and the next round starts; after the last round the caller
\* gets a conflict.  The rename may fail for another reason than absence.
Reclaim(h) ==
    /\ At(h, "reclaim")
    /\ \/ /\ lock' = Absent
          /\ attempt' = [attempt EXCEPT ![h] = @ + 1]
          /\ GoTo(h, IF attempt[h] + 1 < MaxAttempts THEN "open" ELSE "refused")
       \/ UNCHANGED <<lock, attempt>> /\ GoTo(h, "failed")
    /\ seen' = [seen EXCEPT ![h] = Nobody]
    /\ UNCHANGED <<active, alive, beat>>

-----------------------------------------------------------------------------
(* The handle: updateRuntime and heartbeat, release.                       *)

Released(h) == pc[h] \in ReleasePcs \cup {"released"}

BeatStart(h, c) ==
    /\ At(h, "held") /\ beat[h][c] = "idle"
    /\ beat' = [beat EXCEPT ![h][c] = "check"]
    /\ UNCHANGED <<fileVars, alive, pc, attempt, seen>>

\* assertOwnership.
BeatCheck(h, c) ==
    /\ h \in alive /\ beat[h][c] = "check"
    /\ beat' = [beat EXCEPT ![h][c] = IF LockToken = h THEN "write" ELSE "idle"]
    /\ UNCHANGED <<fileVars, alive, pc, attempt, seen>>

\* A release that has started meanwhile is not noticed any more; the write
\* may fail.  Calls that overlap share a temporary file: what is renamed may
\* be what another one is still writing, an unreadable record.
BeatWrite(h, c) ==
    /\ h \in alive /\ beat[h][c] = "write"
    /\ \/ active' \in {h, active}
       \/ /\ \E d \in Calls \ {c} : beat[h][d] = "write"
          /\ active' = Nobody
    /\ beat' = [beat EXCEPT ![h][c] = "idle"]
    /\ UNCHANGED <<lock, alive, pc, attempt, seen>>

Release(h) ==
    /\ At(h, "held")
    /\ GoTo(h, "rel_check")
    /\ UNCHANGED <<fileVars, alive, beat, attempt, seen>>

ReleaseCheck_without_token(h) ==
    /\ At(h, "rel_check")
    /\ GoTo(h, IF Exists THEN "rel_active" ELSE "released")
    /\ UNCHANGED <<fileVars, alive, beat, attempt, seen>>

ReleaseCheck(h) ==
    /\ At(h, "rel_check")
    /\ GoTo(h, IF LockToken = h THEN "rel_active" ELSE "released")
    /\ UNCHANGED <<fileVars, alive, beat, attempt, seen>>

\* The removals ignore an error.
ReleaseActive(h) ==
    /\ At(h, "rel_active")
    /\ active' \in {Nobody, active}
    /\ GoTo(h, "rel_lock")
    /\ UNCHANGED <<lock, alive, beat, attempt, seen>>

ReleaseLock(h) ==
    /\ At(h, "rel_lock")
    /\ lock' \in {Absent, lock}
    /\ GoTo(h, "released")
    /\ UNCHANGED <<active, alive, beat, attempt, seen>>

-----------------------------------------------------------------------------

Crash(h) ==
    /\ h \in alive
    /\ alive' = alive \ {h}
    /\ UNCHANGED <<fileVars, pc, beat, attempt, seen>>

AcquireStep(h) ==
    \/ Open(h) \/ Write(h) \/ WriteActive(h)
    \/ InspectLock(h) \/ InspectActive(h) \/ Reclaim(h)

ReleaseStep(h) == ReleaseCheck(h) \/ ReleaseActive(h) \/ ReleaseLock(h)

BeatStep(h) == \E c \in Calls : BeatCheck(h, c) \/ BeatWrite(h, c)

LFNext ==
    \E h \in Hosts :
        \/ Acquire(h) \/ AcquireStep(h)
        \/ BeatStep(h) \/ \E c \in Calls : BeatStart(h, c)
        \/ Release(h) \/ ReleaseStep(h)
        \/ Crash(h)

LFSpec == LFInit /\ [][LFNext]_lfVars

\* A host that has begun an acquire, a heartbeat or a release goes on with
\* it, unless it dies (guard h \in alive).
LFFairness ==
    \A h \in Hosts :
        /\ WF_lfVars(AcquireStep(h))
        /\ WF_lfVars(BeatStep(h))
        /\ WF_lfVars(ReleaseStep(h))

LFFairSpec == LFSpec /\ LFFairness

-----------------------------------------------------------------------------
(* Safety.                                                                 *)

Owns(h) == h \in alive /\ pc[h] = "held" /\ LockToken = h

\* A host that will remove the lock without looking at it again, although
\* the owner may be another one by then.
Poised(r, h) ==
    /\ r # h /\ r \in alive
    /\ \/ pc[r] \in {"reclaim", "rel_active", "rel_lock"}
       \/ pc[r] = "inspect_active" /\ seen[r] # h

\* Once a host owns the lease and nobody is poised, no interleaving of any
\* number of acquiring, beating, releasing and dying hosts takes it away: it
\* ends by its own release or death (the check order of the acquire loop).
SettledOwner(h) == Owns(h) /\ \A r \in Hosts : ~Poised(r, h)

SettledOwnerStays ==
    [][\A h \in Hosts :
           SettledOwner(h) => SettledOwner(h)' \/ h \notin alive' \/ Released(h)']_lfVars

\* active.json names a host whose acquire has reached it, never one that was
\* refused: diagnostics do not show a loser.
ActiveWasHeld ==
    active # Nobody => pc[active] \in {"held", "released"} \cup ReleasePcs

-----------------------------------------------------------------------------
(* Liveness.                                                               *)

\* Whatever the dead have left behind (an empty lock, a lock without an
\* active record, a half done release), a host that starts to acquire when
\* it is the only one alive gets the lease, unless it dies too or a write
\* fails.
LoneHostAcquires ==
    \A h \in Hosts :
        pc[h] = "open" /\ attempt[h] = 0 /\ alive = {h}
            ~> pc[h] \in {"held", "failed"} \/ h \notin alive

-----------------------------------------------------------------------------
(* What the repository says of the lease file and interleavings refute.    *)

\* "Blocks a second live host": no two live hosts hold a handle.
OneLiveHolder ==
    \A g, h \in alive : pc[g] = "held" /\ pc[h] = "held" => g = h

\* "Reclaims a stale lock without deleting the next owner": the reclaim of a
\* lock whose owner was found dead never moves the lock of a live host.
ReclaimSparesNextOwner ==
    [][\A h \in Hosts :
           pc[h] = "reclaim" /\ pc'[h] \in {"open", "refused"} /\ seen[h] # Nobody
               => LockToken \notin alive]_lfVars

\* "runtime.lock is the ownership source of truth": its token is a host that
\* holds the lease or is about to, unless that host has died.
LockNamesOwner ==
    LockToken \in alive => pc[LockToken] \in {"active", "held"} \cup ReleasePcs

\* "active.json is only trusted when its token matches the lock owner":
\* nobody is refused in the name of active.json alone.
NoRefusalByActiveAlone ==
    [][\A h \in Hosts :
           pc[h] = "inspect_active" /\ pc'[h] = "refused"
               => seen[h] # Nobody]_lfVars
=============================================================================
