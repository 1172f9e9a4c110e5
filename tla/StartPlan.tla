------------------------------ MODULE StartPlan ------------------------------
(***************************************************************************)
(* What a start thread does (runtime/start.rs): the attempts it launches    *)
(* one after the other, which failure leads to which next attempt, and the  *)
(* plugin quarantine record that outlives it (plugin_quarantine.rs).        *)
(*                                                                          *)
(* Start threads overlap: a newer generation may begin as soon as the older *)
(* one is cancelled, and the older thread goes on until it looks.  They     *)
(* share the record and, being of one process, the name of its temporary    *)
(* file; an open temporary file is kept apart from its name, so that a      *)
(* writer goes on writing to what has been renamed under its hands.  Each   *)
(* start has a work directory of its own.  What becomes of a Runtime that   *)
(* has come up, and the registry of children, are RuntimeLifecycle's.       *)
(***************************************************************************)
EXTENDS Naturals

CONSTANTS
    MaxStarts,    \* bound: starts in the life of the application data
    Scopes,       \* dsh base version, profile and DSH_HOME of a launch
    Rows,         \* plugin rows of a configuration
    FullRows,     \* FullRows[c]: what dumping the configuration of c lists
    DefaultRows,  \* DefaultRows[c]: what the dump of the default config lists
    UserRows,     \* UserRows[c]: rows of the user's patch files
    EmbeddedIds,  \* ids of the three rows HarnessDock inserts itself
    None          \* no scope, no attempt

Starts == 1 .. MaxStarts

ASSUME RowsAssumption ==
    /\ FullRows \in [Scopes -> SUBSET Rows]
    /\ DefaultRows \in [Scopes -> SUBSET Rows]
    /\ UserRows \in [Scopes -> SUBSET Rows]
    /\ MaxStarts \in Nat

\* The startup policy with the profile it is for; recovery can be switched
\* off by HARNESSDOCK_PLUGIN_RECOVERY.
Plans == {"safe", "direct", "profile", "auto", "auto_no_recovery"}
Attempts == {"rescue", "direct", "profile", "quarantine", "normal", "recovery"}
Ids == {row.id : row \in Rows}

ASSUME NoneAssumption == None \notin Scopes \cup Attempts

\* A file is named by the start that has made it; 0 is a record of an earlier
\* day, NoFile is none.
NoFile == MaxStarts + 1
Files == 0 .. NoFile

VARIABLES
    record,    \* the file that has the record's name
    tmp,       \* the file that has the temporary name
    content,   \* what each file holds
    earned,    \* history: <<scope, plugins>> a recovery has come up with
    start      \* the thread of each start, see Thread

vars == <<record, tmp, content, earned, start>>

Ended == {"idle", "up", "failed", "dead"}
WritePcs == {"q_create", "q_fill", "q_rename", "q_remove", "q_retry"}
Pcs == Ended \cup WritePcs \cup
       {"read", "forget", "launch", "wait", "probe", "clear", "clear_lock",
        "dump", "dump_wait", "dump_read"}

\* A file that does not parse.
Torn == [scope |-> None, plugins |-> {}, fresh |-> FALSE]
Records == [scope : Scopes \cup {None}, plugins : SUBSET Ids, fresh : BOOLEAN]

Thread == [pc : Pcs,
           cancelled : BOOLEAN,                \* its generation's token
           scope : Scopes \cup {None},         \* of its launch
           recovery : BOOLEAN,                 \* may isolate plugins
           attempt : Attempts \cup {None},
           isolated : SUBSET Ids,              \* what the attempt disables
           defaults : BOOLEAN,                 \* dumps the default config
           ready : Attempts \cup {None},       \* whose ready.json is there
           child : {"none", "running", "exited"},  \* or the dump's helper
           orphan : BOOLEAN,                   \* holds the pipes of the dump
           workDir : BOOLEAN,                  \* its directory exists
           handle : Files]                     \* the temporary file it has open

Fresh == [pc |-> "idle", cancelled |-> FALSE, scope |-> None,
          recovery |-> FALSE, attempt |-> None, isolated |-> {},
          defaults |-> FALSE, ready |-> None, child |-> "none",
          orphan |-> FALSE, workDir |-> FALSE, handle |-> NoFile]

TypeOK ==
    /\ record \in Files
    /\ tmp \in Files
    /\ content \in [Files -> Records]
    /\ earned \subseteq Scopes \X SUBSET Ids
    /\ start \in [Starts -> Thread]

-----------------------------------------------------------------------------
(* Which rows are isolated.                                                 *)

IsOfficialRow(row) == row.from = "official" \/ row.officialName

RecoveryCandidates(rows) ==
    {row \in rows : /\ row.id \notin EmbeddedIds
                    /\ row.from # "unknown"
                    /\ ~IsOfficialRow(row)}

\* Rescue takes the provenance of a row for it, never its name.
RescueCandidates(rows) ==
    {row \in rows : /\ row.id \notin EmbeddedIds
                    /\ row.from \notin {"unknown", "official"}}

IdsOf(rows) == {row.id : row \in rows}

\* recovery_rows: the dump of the whole configuration or, when that fails,
\* of the default one, and whatever the user's patch files mention.
RecoveryRows(c, defaults) ==
    IF defaults THEN DefaultRows[c] \cup UserRows[c] ELSE FullRows[c]

\* recovery_plan isolates every candidate, suspected or not.
RecoveryPlan(c, defaults) == IdsOf(RecoveryCandidates(RecoveryRows(c, defaults)))

\* A record of an earlier day was written by such a recovery.
Init ==
    /\ tmp = NoFile
    /\ \/ /\ record = NoFile /\ earned = {}
          /\ content = [f \in Files |-> Torn]
       \/ \E c \in Scopes, defaults \in BOOLEAN :
             LET p == RecoveryPlan(c, defaults)
             IN  /\ p # {}
                 /\ record = 0 /\ earned = {<<c, p>>}
                 /\ content = [f \in Files |->
                        IF f = 0
                        THEN [scope |-> c, plugins |-> p, fresh |-> TRUE]
                        ELSE Torn]
    /\ start = [s \in Starts |-> Fresh]

At(s, where) == start[s].pc = where
Become(s, thread) == start' = [start EXCEPT ![s] = thread]
GoTo(s, where) == Become(s, [start[s] EXCEPT !.pc = where])
files == <<record, tmp, content>>

-----------------------------------------------------------------------------
(* start_blocking: what a thread does next.                                 *)

\* WorkDirGuard::drop: a start that returns an error removes its directory.
Failed(t) == [Fresh EXCEPT !.pc = "failed"]

\* A start that returns a process hands it over with its directory.
CameUp(t) ==
    [Fresh EXCEPT !.pc = "up", !.attempt = t.attempt, !.ready = t.ready,
                  !.child = t.child, !.workDir = t.workDir]

Up(s) == Become(s, CameUp(start[s]))

\* The next attempt, with the plugins it disables.
Try(t, a, ids) ==
    [t EXCEPT !.pc = "launch", !.attempt = a, !.isolated = ids,
              !.defaults = FALSE]

\* safe_profile: a private DSH_HOME; the isolated rows are for display.
Rescue(t) == Try(t, "rescue", IdsOf(RescueCandidates(UserRows[t.scope])))

FirstAttempt(t, plan) ==
    CASE plan = "safe" -> Rescue(t)
      [] plan \in {"direct", "profile"} -> Try(t, plan, {})
      [] plan = "auto_no_recovery" -> Try(t, "normal", {})
      [] plan = "auto" -> [t EXCEPT !.pc = "read", !.recovery = TRUE]

\* Where a failed normal attempt leads; what it has logged may name the
\* writer lock of the profile.
AfterNormal(t, lock) ==
    IF t.cancelled THEN Failed(t)
    ELSE IF lock THEN Rescue(t)
    ELSE IF ~t.recovery THEN Failed(t)
    ELSE [t EXCEPT !.pc = "dump"]

AfterFailure_planning_again(t, lock) ==
    CASE t.attempt = "quarantine" ->
            [t EXCEPT !.pc = IF lock THEN "clear_lock" ELSE "clear"]
      [] t.attempt = "normal" -> AfterNormal(t, lock)
      [] t.attempt = "recovery" -> [t EXCEPT !.pc = "dump"]
      [] t.attempt = "profile" -> Rescue(t)
      [] OTHER -> Failed(t)

AfterFailure(t, lock) ==
    CASE t.attempt = "quarantine" ->
            [t EXCEPT !.pc = IF lock THEN "clear_lock" ELSE "clear"]
      [] t.attempt = "normal" -> AfterNormal(t, lock)
      [] t.attempt \in {"profile", "recovery"} -> Rescue(t)
      [] OTHER -> Failed(t)

\* A start begins when every earlier one has ended or is cancelled.  Its work
\* directory or its embedded patch may fail to be written.
Begin(s, plan, c) ==
    /\ At(s, "idle")
    /\ \A o \in Starts : o < s => /\ ~At(o, "idle")
                                  /\ start[o].pc \in Ended \/ start[o].cancelled
    /\ \/ Become(s, Failed(start[s]))
       \/ Become(s, FirstAttempt([Fresh EXCEPT !.scope = c, !.workDir = TRUE],
                                 plan))
    /\ UNCHANGED <<files, earned>>

\* What plugin_quarantine::read parses; a file that is not there does not.
Parsed == content[record]

Applies_to_any_scope(s) == Parsed.fresh /\ Parsed.plugins # {}

\* record_applies, expiry and an empty list.
Applies(s) ==
    /\ Parsed.scope = start[s].scope
    /\ Parsed.fresh
    /\ Parsed.plugins # {}

\* A record that applies is put into a patch of this start, which may fail to
\* be written; any other record is on its way out.
ReadQuarantine(s) ==
    /\ At(s, "read")
    /\ IF Applies(s)
       THEN \/ Become(s, Try(start[s], "quarantine", Parsed.plugins))
            \/ Become(s, Failed(start[s]))
       ELSE GoTo(s, "forget")
    /\ UNCHANGED <<files, earned>>

\* A removal goes by name: it takes whatever record is there by now.
RemoveRecord == record' \in {NoFile, record} /\ UNCHANGED <<tmp, content>>

ForgetRecord(s) ==
    /\ At(s, "forget")
    /\ RemoveRecord
    /\ Become(s, Try(start[s], "normal", {}))
    /\ UNCHANGED earned

\* A failed attempt under quarantine gives the record up, for whatever reason
\* it has failed.
ClearQuarantine(s) ==
    /\ start[s].pc \in {"clear", "clear_lock"}
    /\ RemoveRecord
    /\ Become(s, IF At(s, "clear_lock") THEN Rescue(start[s])
                 ELSE Try(start[s], "normal", {}))
    /\ UNCHANGED earned

-----------------------------------------------------------------------------
(* recovery_rows and dump_config: a helper of this start prints the         *)
(* configuration into a pipe.                                               *)

\* The helper and what it has left are ended.  After the whole configuration
\* the default one is tried, after that there are no rows.
DumpFails(t) ==
    LET u == [t EXCEPT !.child = "none", !.orphan = FALSE]
    IN  IF t.defaults THEN Rescue(u)
        ELSE [u EXCEPT !.pc = "dump", !.defaults = TRUE]

\* A cancelled start spawns nothing, and a spawn may fail.
SpawnDump(s) ==
    /\ At(s, "dump")
    /\ \/ /\ ~start[s].cancelled
          /\ Become(s, [start[s] EXCEPT !.pc = "dump_wait", !.child = "running"])
       \/ Become(s, DumpFails(start[s]))
    /\ UNCHANGED <<files, earned>>

\* A round of the poll: the helper has exited; or cancelled, or deadline
\* passed.
WaitForDump(s) ==
    /\ At(s, "dump_wait")
    /\ \/ /\ ~start[s].cancelled /\ start[s].child = "exited"
          /\ GoTo(s, "dump_read")
       \/ Become(s, DumpFails(start[s]))
    /\ UNCHANGED <<files, earned>>

\* wait_with_output comes back at the end of the pipes, which is when nobody
\* holds them any more; it has no deadline, looks at no token, and what the
\* helper has left behind is ended only afterwards.  A dump that failed, or
\* does not read, has no rows.  Rescue without candidates; the patch of the
\* recovery may fail to be written.
ReadDump(s) ==
    /\ At(s, "dump_read")
    /\ ~start[s].orphan
    /\ LET t == [start[s] EXCEPT !.child = "none"]
           ids == RecoveryPlan(t.scope, t.defaults)
       IN  \/ Become(s, DumpFails(t))
           \/ ids = {} /\ Become(s, Rescue(t))
           \/ /\ ids # {}
              /\ \/ Become(s, Try(t, "recovery", ids))
                 \/ Become(s, Failed(t))
    /\ UNCHANGED <<files, earned>>

-----------------------------------------------------------------------------
(* One attempt: launch_attempt, spawn_runtime, wait_for_ready.              *)

\* The ready.json of an earlier attempt is removed first, if that can be
\* done.  A cancelled start spawns nothing, and a spawn may fail.
Launch(s) ==
    /\ At(s, "launch")
    /\ \E left \in {None, start[s].ready} :
          LET t == [start[s] EXCEPT !.ready = left]
          IN  \/ /\ ~t.cancelled
                 /\ Become(s, [t EXCEPT !.pc = "wait", !.child = "running"])
              \/ Become(s, AfterFailure(t, FALSE))
    /\ UNCHANGED <<files, earned>>

\* The child tree is ended, whatever the attempt has failed of.
StopAttempt(s) ==
    \E lock \in BOOLEAN :
        Become(s, AfterFailure([start[s] EXCEPT !.child = "none"], lock))

\* Attempts of one start share version, generation, nonce and image; the
\* process id tells their ready files apart.
ValidatedReady_of_any_process(t) == t.ready # None
ValidatedReady(t) == t.ready = t.attempt

\* A round of the poll: ready; or cancelled, child gone or deadline passed.
WaitForReady(s) ==
    /\ At(s, "wait")
    /\ \/ /\ ~start[s].cancelled /\ start[s].child = "running"
          /\ ValidatedReady(start[s])
          /\ GoTo(s, "probe")
       \/ StopAttempt(s)
    /\ UNCHANGED <<files, earned>>

\* After the stability window.
Probe(s) ==
    /\ At(s, "probe")
    /\ IF ~start[s].cancelled /\ start[s].child = "running"
       THEN IF start[s].attempt = "recovery"
            THEN /\ GoTo(s, "q_create")
                 /\ earned' = earned \cup {<<start[s].scope, start[s].isolated>>}
            ELSE Up(s) /\ UNCHANGED earned
       ELSE StopAttempt(s) /\ UNCHANGED earned
    /\ UNCHANGED files

-----------------------------------------------------------------------------
(* plugin_quarantine::write and commit_replace; a failure is ignored.       *)

\* fs::write opens the temporary name: it makes a file or empties the one
\* that is there.
CreateTmp(s) ==
    /\ At(s, "q_create")
    /\ \/ /\ tmp' = IF tmp = NoFile THEN s ELSE tmp
          /\ content' = [content EXCEPT ![tmp'] = Torn]
          /\ Become(s, [start[s] EXCEPT !.pc = "q_fill", !.handle = tmp'])
       \/ Up(s) /\ UNCHANGED <<tmp, content>>
    /\ UNCHANGED <<record, earned>>

\* The bytes go to the file that was opened, whatever its name is by now.
\* What another writer has put there since may be longer and show at the end;
\* and the write may fail with all, part or nothing of it done.
FillTmp(s) ==
    /\ At(s, "q_fill")
    /\ LET was == content[start[s].handle]
           whole == [scope |-> start[s].scope, plugins |-> start[s].isolated,
                     fresh |-> TRUE]
           fill(with) == content' = [content EXCEPT ![start[s].handle] = with]
       IN  \/ /\ fill(whole) \/ (was # Torn /\ fill(Torn))
              /\ Become(s, [start[s] EXCEPT !.pc = "q_rename", !.handle = NoFile])
           \/ (fill(was) \/ fill(Torn)) /\ Up(s)
    /\ UNCHANGED <<record, tmp, earned>>

RenameTmp ==
    /\ tmp # NoFile
    /\ record' = tmp
    /\ tmp' = NoFile

\* The rename fails on a system that does not replace files, or because
\* another start has renamed the temporary file already; a record that is
\* there is taken for the reason.
Rename(s) ==
    /\ At(s, "q_rename")
    /\ \/ RenameTmp /\ Up(s)
       \/ record # NoFile /\ GoTo(s, "q_remove") /\ UNCHANGED <<record, tmp>>
       \/ /\ record = NoFile /\ UNCHANGED record
          /\ tmp' = NoFile
          /\ Up(s)
    /\ UNCHANGED <<content, earned>>

\* commit_replace removes the record and renames again; the removal fails
\* when somebody else has removed it.
RemoveOld(s) ==
    /\ At(s, "q_remove")
    /\ \/ /\ record # NoFile /\ record' = NoFile
          /\ GoTo(s, "q_retry")
          /\ UNCHANGED tmp
       \/ /\ tmp' = NoFile
          /\ Up(s)
          /\ UNCHANGED record
    /\ UNCHANGED <<content, earned>>

Retry(s) ==
    /\ At(s, "q_retry")
    /\ \/ RenameTmp
       \/ tmp' = NoFile /\ UNCHANGED record
    /\ Up(s)
    /\ UNCHANGED <<content, earned>>

-----------------------------------------------------------------------------
(* The rest of the application, and the world.                              *)

\* A newer generation, a stop or the exit cancels the start.
Cancel(s) ==
    /\ start[s].pc \notin Ended
    /\ ~start[s].cancelled
    /\ Become(s, [start[s] EXCEPT !.cancelled = TRUE])
    /\ UNCHANGED <<files, earned>>

\* runtime_clear_plugin_quarantine: the user gives the record up.
UserClears ==
    /\ record # NoFile /\ record' = NoFile
    /\ UNCHANGED <<tmp, content, earned, start>>

Expire ==
    /\ content[record].fresh
    /\ content' = [content EXCEPT ![record].fresh = FALSE]
    /\ UNCHANGED <<record, tmp, earned, start>>

ChildIsReady(s) ==
    /\ At(s, "wait") /\ start[s].child = "running"
    /\ Become(s, [start[s] EXCEPT !.ready = start[s].attempt])
    /\ UNCHANGED <<files, earned>>

\* A child exits by itself or in the sweep of a stop, at any time; a process
\* that the helper of a dump has started may stay and hold its pipes,
ChildExits(s) ==
    /\ start[s].child = "running"
    /\ \E left \in {FALSE, At(s, "dump_wait")} :
          Become(s, [start[s] EXCEPT !.child = "exited", !.orphan = left])
    /\ UNCHANGED <<files, earned>>

\* until it ends, by itself or in a sweep.
OrphanEnds(s) ==
    /\ start[s].orphan
    /\ Become(s, [start[s] EXCEPT !.orphan = FALSE])
    /\ UNCHANGED <<files, earned>>

\* The application dies.  Its next process has another id, and with it
\* another temporary name.
Crash ==
    /\ \E s \in Starts : start[s].pc \notin Ended
    /\ start' = [s \in Starts |->
           IF start[s].pc \in Ended THEN start[s]
           ELSE [Fresh EXCEPT !.pc = "dead", !.workDir = start[s].workDir]]
    /\ tmp' = NoFile
    /\ UNCHANGED <<record, content, earned>>

-----------------------------------------------------------------------------

Step(s) ==
    \/ ReadQuarantine(s) \/ ForgetRecord(s) \/ Launch(s) \/ WaitForReady(s)
    \/ Probe(s) \/ ClearQuarantine(s) \/ SpawnDump(s) \/ WaitForDump(s)
    \/ ReadDump(s) \/ CreateTmp(s) \/ FillTmp(s) \/ Rename(s)
    \/ RemoveOld(s) \/ Retry(s)

Next ==
    \/ \E s \in Starts :
          \/ Step(s) \/ Cancel(s)
          \/ ChildIsReady(s) \/ ChildExits(s) \/ OrphanEnds(s)
          \/ \E plan \in Plans, c \in Scopes : Begin(s, plan, c)
    \/ UserClears \/ Expire \/ Crash

Spec == Init /\ [][Next]_vars

\* A start thread that runs goes on.  Its waits have deadlines but for the
\* reading of a dump, which is not enabled while an orphan holds the pipes;
\* nothing says that the orphan ends.
FairSpec == Spec /\ \A s \in Starts : WF_vars(Step(s))

-----------------------------------------------------------------------------
(* Properties.                                                              *)

\* Plugins are disabled in an automatic start only if a recovery of the same
\* scope has come up without exactly them, whatever two overlapping starts, a
\* crash or the user have done to the record and its temporary file
\* (plugin_quarantine.rs:10-12, 57-88).
QuarantineIsEarned ==
    \A s \in Starts :
        (start[s].attempt = "quarantine" /\ ~At(s, "up")) =>
            <<start[s].scope, start[s].isolated>> \in earned

\* A start comes up on the child of its last attempt, which it has not ended,
\* and in a work directory that is still there, never on what an earlier
\* attempt has left in it; whether that child still runs by then nobody has
\* looked (wait_for_ready, validated_ready, start.rs:112-113, 319, 420-436).
ComesUpOnItsOwnChild ==
    \A s \in Starts :
        start[s].pc \in {"up"} \cup WritePcs =>
            /\ start[s].ready = start[s].attempt
            /\ start[s].child # "none"
            /\ start[s].workDir

\* What a start waits for without a deadline (dump_config, spawn.rs:308).
Held(s) == At(s, "dump_read") /\ start[s].orphan

\* Every start ends, no failure leading back to an attempt that has failed,
\* unless something the helper of its dump has started holds the pipes of the
\* dump: starts being finitely many, there is always a time when all others
\* have ended.
StartsEnd == []<>(\A s \in Starts : start[s].pc \in Ended \/ Held(s))

-----------------------------------------------------------------------------
(* Refuted by the code.                                                     *)

\* runtime/config.rs:267, "recovery never targets official or embedded rows".
OfficialStaysEnabled ==
    \A s \in Starts :
        start[s].attempt = "recovery" =>
            \A row \in FullRows[start[s].scope] :
                IsOfficialRow(row) => row.id \notin start[s].isolated

\* A cancelled start leaves the record it has tried alone.
CancelKeepsRecord ==
    [][\A s \in Starts :
          (/\ start[s].pc \in {"clear", "clear_lock"}
           /\ start'[s].pc = "launch" /\ start[s].cancelled)
          => record' = record]_vars

\* "Any process that remains ... is an orphan and must not survive into the
\* Runtime start or application shutdown path" (runtime/spawn.rs:316-319): it
\* is ended in time to let the start go on.
OrphansAreEnded == \A s \in Starts : Held(s) ~> ~Held(s)

\* What write has put in the record's place is a record.
WrittenIsWhole ==
    [][\A s \in Starts :
          (At(s, "q_rename") /\ record' # record) =>
              content'[record'].fresh]_vars
=============================================================================
