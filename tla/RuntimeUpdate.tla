---------------------------- MODULE RuntimeUpdate ----------------------------
(***************************************************************************)
(* RuntimeUpdateManager (packages/bootstrap/src/runtime-update.ts): clients *)
(* that share one directory prepare Runtime releases in it, activate them   *)
(* and roll back.  Nothing but the file system coordinates the clients; one *)
(* action is one file operation of one of them, and a client may die        *)
(* between any two.                                                         *)
(*                                                                          *)
(* A release is a normalised manifest and stands for its digest.  Files are *)
(* numbered in the order of the manifest; a content is what its SHA-256     *)
(* tells apart, Bad a content that no manifest asks for.  Every call trims  *)
(* the version it is given to find its directory, but activate compares and *)
(* records it as it was given: a spelling, Plain without blanks around it.  *)
(* A call that fails before it changes anything or starts to wait is left   *)
(* out.  A manifest that                                                    *)
(* does not normalise, or is for another platform, is refused before        *)
(* anything is touched and is left out.  Staging directories and temporary  *)
(* files have unique names: what a dead client or a failed removal leaves   *)
(* of them is never read again.                                             *)
(***************************************************************************)
EXTENDS Naturals

CONSTANTS
    Clients,     \* processes with an update manager on the directory
    Releases,    \* manifests, each standing for its digest
    Versions,    \* version strings
    VersionOf,   \* the version of a release
    NumFiles,    \* files of every release
    Contents,    \* contents manifests ask for
    Spellings,   \* ways of writing a version that trim to the same
    Plain,       \* the one without blanks
    Sha,         \* Sha[r][f]: content release r wants in file f
    Bad,         \* any other content
    None,        \* no release, no directory
    Fragile,     \* bound: <<version, file>> pairs that may go bad on disk
    FragileMeta  \* bound: versions whose metadata may

Files == 1 .. NumFiles

ASSUME FilesAssumption == NumFiles \in Nat \ {0}
ASSUME ReleaseAssumption ==
    /\ VersionOf \in [Releases -> Versions]
    /\ Sha \in [Releases -> [Files -> Contents]]
ASSUME SpellingAssumption == Plain \in Spellings
ASSUME NoneAssumption == None \notin Releases /\ Bad \notin Contents

VARIABLES
    dir,       \* what versions/<version> holds, per version
    damaged,   \* the files of version directories that went bad in place
    active,    \* active.json
    pc,        \* where the call of each client is
    job,       \* release its call is about
    spelled,   \* version as its activate was given it
    base,      \* activated release whose files its prepare may reuse
    file,      \* file its prepare is at
    staging,   \* contents of its staging directory
    seen       \* activation record it has read

prepVars == <<base, file, staging>>
callVars == <<job, spelled, prepVars, seen>>
vars == <<dir, damaged, active, pc, callVars>>

PreparePcs == {"state", "base", "verify", "copy", "fetch", "check", "meta",
               "publish", "raced", "drop", "cleanup"}
SwitchPcs == {"act_state", "act_write", "roll_meta", "roll_write"}
Pcs == {"idle", "prepared", "dead"} \cup PreparePcs \cup SwitchPcs

MaybeRelease == Releases \cup {None}
AnyContent == Contents \cup {Bad}
Directory == [release : MaybeRelease, files : [Files -> AnyContent],
              readable : BOOLEAN]
Activation == [release : MaybeRelease, spelling : Spellings]
Record == [current : Activation, previous : Activation]

NoFiles == [f \in Files |-> Bad]
NoDirectory == [release |-> None, files |-> NoFiles, readable |-> FALSE]
NoActivation == [release |-> None, spelling |-> Plain]
EmptyRecord == [current |-> NoActivation, previous |-> NoActivation]

TypeOK ==
    /\ dir \in [Versions -> Directory]
    /\ damaged \subseteq Versions \X Files
    /\ active \in Record
    /\ pc \in [Clients -> Pcs]
    /\ job \in [Clients -> MaybeRelease]
    /\ spelled \in [Clients -> Spellings]
    /\ base \in [Clients -> MaybeRelease]
    /\ file \in [Clients -> Files]
    /\ staging \in [Clients -> [Files -> AnyContent]]
    /\ seen \in [Clients -> Record]

Init ==
    /\ dir = [v \in Versions |-> NoDirectory]
    /\ damaged = {}
    /\ active = EmptyRecord
    /\ pc = [c \in Clients |-> "idle"]
    /\ job = [c \in Clients |-> None]
    /\ spelled = [c \in Clients |-> Plain]
    /\ base = [c \in Clients |-> None]
    /\ file = [c \in Clients |-> 1]
    /\ staging = [c \in Clients |-> NoFiles]
    /\ seen = [c \in Clients |-> EmptyRecord]

At(c, where) == pc[c] = where
GoTo(c, where) == pc' = [pc EXCEPT ![c] = where]
Free(c) == At(c, "idle") \/ At(c, "prepared")

\* The staging directory is gone, and with it what prepare knew of its files.
Unstage(c) ==
    /\ base' = [base EXCEPT ![c] = None]
    /\ file' = [file EXCEPT ![c] = 1]
    /\ staging' = [staging EXCEPT ![c] = NoFiles]

\* A call that returns without a result, or dies, forgets what it knew.
Leave(c, where) ==
    /\ GoTo(c, where)
    /\ job' = [job EXCEPT ![c] = None]
    /\ spelled' = [spelled EXCEPT ![c] = Plain]
    /\ Unstage(c)
    /\ seen' = [seen EXCEPT ![c] = EmptyRecord]

\* readInstallMetadata: what the metadata file of a version directory names;
\* None without a directory, or when the file does not parse or its digest is
\* not that of its manifest.
ReadMetadata(v) == IF dir[v].readable THEN dir[v].release ELSE None

-----------------------------------------------------------------------------
(* prepare.                                                                 *)

\* The version may be there already, with this content or with other.
Prepare(c, r) ==
    /\ Free(c)
    /\ LET there == ReadMetadata(VersionOf[r])
       IN  IF there \in {None, r}
           THEN /\ GoTo(c, IF there = r THEN "prepared" ELSE "state")
                /\ job' = [job EXCEPT ![c] = r]
                /\ UNCHANGED <<spelled, prepVars, seen>>
           ELSE Leave(c, "idle")
    /\ UNCHANGED <<dir, damaged, active>>

\* What reads or writes a file may fail, and that ends in the error path.
OrFails(c) == GoTo(c, "cleanup") /\ UNCHANGED callVars

\* An empty staging directory is made.  The activated version is where
\* unchanged files come from,
ReadState(c) ==
    /\ At(c, "state")
    /\ \/ /\ seen' = [seen EXCEPT ![c] = active]
          /\ GoTo(c, "base")
          /\ UNCHANGED <<job, spelled, prepVars>>
       \/ OrFails(c)
    /\ UNCHANGED <<dir, damaged, active>>

\* if its metadata can be read: whatever release that version is.
ReadBase(c) ==
    /\ At(c, "base")
    /\ \/ /\ LET of == seen[c].current.release
             IN  base' = [base EXCEPT ![c] = IF of = None THEN None
                                             ELSE ReadMetadata(VersionOf[of])]
          /\ seen' = [seen EXCEPT ![c] = EmptyRecord]
          /\ GoTo(c, "verify")
          /\ UNCHANGED <<job, spelled, file, staging>>
       \/ OrFails(c)
    /\ UNCHANGED <<dir, damaged, active>>

\* What the base holds now of the file prepare is at.
BaseContent(c) == dir[VersionOf[base[c]]].files[file[c]]
Wanted(c) == Sha[job[c]][file[c]]

\* A file with the wanted digest in the base's manifest is copied if it still
\* has that digest on disk, else fetched.
VerifyBase(c) ==
    /\ At(c, "verify")
    /\ IF /\ base[c] # None
          /\ Sha[base[c]][file[c]] = Wanted(c)
          /\ BaseContent(c) = Wanted(c)
       THEN GoTo(c, "copy")
       ELSE GoTo(c, "fetch")
    /\ UNCHANGED <<dir, damaged, active, callVars>>

\* The copy takes what the file holds by then.
Copy(c) ==
    /\ At(c, "copy")
    /\ \/ /\ staging' = [staging EXCEPT ![c][file[c]] = BaseContent(c)]
          /\ GoTo(c, "check")
       \/ UNCHANGED staging /\ GoTo(c, "fetch")
    /\ UNCHANGED <<dir, damaged, active, job, spelled, base, file, seen>>

\* fetchFile is the caller's: it delivers the file, something else, or fails.
Fetch(c) ==
    /\ At(c, "fetch")
    /\ \/ /\ \E got \in {Wanted(c), Bad} :
                staging' = [staging EXCEPT ![c][file[c]] = got]
          /\ GoTo(c, "check")
       \/ UNCHANGED staging /\ GoTo(c, "cleanup")
    /\ UNCHANGED <<dir, damaged, active, job, spelled, base, file, seen>>

NextFile(c) ==
    IF file[c] < NumFiles
    THEN GoTo(c, "verify") /\ file' = [file EXCEPT ![c] = @ + 1]
    ELSE GoTo(c, "meta") /\ UNCHANGED file

Check_trusting_copies(c) ==
    /\ At(c, "check")
    /\ IF \/ staging[c][file[c]] = Wanted(c)
          \/ base[c] # None /\ Sha[base[c]][file[c]] = Wanted(c)
       THEN NextFile(c)
       ELSE GoTo(c, "cleanup") /\ UNCHANGED file
    /\ UNCHANGED <<dir, damaged, active, job, spelled, base, staging, seen>>

\* verifyRuntimeFile on the staged file, copied or fetched.
Check(c) ==
    /\ At(c, "check")
    /\ IF staging[c][file[c]] = Wanted(c)
       THEN NextFile(c)
       ELSE GoTo(c, "cleanup") /\ UNCHANGED file
    /\ UNCHANGED <<dir, damaged, active, job, spelled, base, staging, seen>>

WriteMetadata(c) ==
    /\ At(c, "meta")
    /\ \E where \in {"publish", "cleanup"} : GoTo(c, where)
    /\ UNCHANGED <<dir, damaged, active, callVars>>

Publish_replacing_what_is_there(c) ==
    /\ At(c, "publish")
    /\ dir' = [dir EXCEPT ![VersionOf[job[c]]] =
                  [release |-> job[c], files |-> staging[c], readable |-> TRUE]]
    /\ GoTo(c, "prepared")
    /\ Unstage(c)
    /\ UNCHANGED <<damaged, active, job, spelled, seen>>

\* The staging directory is renamed to its final name; a rename over a
\* directory that is there fails, and it may fail for another reason.
Publish(c) ==
    /\ At(c, "publish")
    /\ \/ /\ dir[VersionOf[job[c]]].release = None
          /\ dir' = [dir EXCEPT ![VersionOf[job[c]]] =
                        [release |-> job[c], files |-> staging[c],
                         readable |-> TRUE]]
          /\ GoTo(c, "prepared")
       \/ UNCHANGED dir /\ GoTo(c, "raced")
    /\ Unstage(c)
    /\ UNCHANGED <<damaged, active, job, spelled, seen>>

Raced_trusting_version(c) ==
    /\ At(c, "raced")
    /\ GoTo(c, IF ReadMetadata(VersionOf[job[c]]) # None THEN "drop"
                                                         ELSE "cleanup")
    /\ UNCHANGED <<dir, damaged, active, callVars>>

\* Who lost the race to a client with the same manifest has what it wanted.
Raced(c) ==
    /\ At(c, "raced")
    /\ \/ /\ ReadMetadata(VersionOf[job[c]]) = job[c]
          /\ GoTo(c, "drop")
       \/ GoTo(c, "cleanup")
    /\ UNCHANGED <<dir, damaged, active, callVars>>

\* The loser's staging directory goes; a removal that fails fails the call.
DropStaging(c) ==
    /\ At(c, "drop")
    /\ \E where \in {"prepared", "cleanup"} : GoTo(c, where)
    /\ UNCHANGED <<dir, damaged, active, callVars>>

\* The error path: the staging directory is removed if it can be.
CleanUp(c) ==
    /\ At(c, "cleanup")
    /\ Leave(c, "idle")
    /\ UNCHANGED <<dir, damaged, active>>

-----------------------------------------------------------------------------
(* activate and rollback.                                                   *)

\* activate is given the version of release r, in some spelling, and takes
\* the release it finds installed under that name.
Activate(c, r, how) ==
    /\ Free(c)
    /\ ReadMetadata(VersionOf[r]) # None
    /\ job' = [job EXCEPT ![c] = ReadMetadata(VersionOf[r])]
    /\ spelled' = [spelled EXCEPT ![c] = how]
    /\ GoTo(c, "act_state")
    /\ UNCHANGED <<dir, damaged, active, prepVars, seen>>

Given(c) == [release |-> job[c], spelling |-> spelled[c]]

\* Nothing to do for the release that is active already under the version as
\* it is given now; nor when the record cannot be read.
ActivateState(c) ==
    /\ At(c, "act_state")
    /\ \/ /\ active.current # Given(c)
          /\ GoTo(c, "act_write")
          /\ seen' = [seen EXCEPT ![c] = active]
          /\ UNCHANGED <<job, spelled, prepVars>>
       \/ Leave(c, "idle")
    /\ UNCHANGED <<dir, damaged, active>>

\* writeJsonAtomic: the new record replaces whatever record is there by now,
\* or the write fails.
WriteRecord(rec) == active' = rec \/ UNCHANGED active

ActivateWrite(c) ==
    /\ At(c, "act_write")
    /\ WriteRecord([current |-> Given(c), previous |-> seen[c].current])
    /\ Leave(c, "idle")
    /\ UNCHANGED <<dir, damaged>>

\* rollback gives up without a previous release.
Rollback(c) ==
    /\ Free(c)
    /\ active.previous # NoActivation
    /\ seen' = [seen EXCEPT ![c] = active]
    /\ GoTo(c, "roll_meta")
    /\ UNCHANGED <<dir, damaged, active, job, spelled, prepVars>>

\* It gives up, too, when that release is not what is installed, or when its
\* metadata cannot be read.
RollbackMetadata(c) ==
    /\ At(c, "roll_meta")
    /\ LET back == seen[c].previous.release
       IN  \/ /\ ReadMetadata(VersionOf[back]) = back
              /\ GoTo(c, "roll_write") /\ UNCHANGED callVars
           \/ Leave(c, "idle")
    /\ UNCHANGED <<dir, damaged, active>>

RollbackWrite(c) ==
    /\ At(c, "roll_write")
    /\ WriteRecord([current |-> seen[c].previous,
                    previous |-> seen[c].current])
    /\ Leave(c, "idle")
    /\ UNCHANGED <<dir, damaged>>

-----------------------------------------------------------------------------
(* The environment.                                                         *)

\* A file of an installed version goes bad where it is.
DamageFile(v, f) ==
    /\ dir[v].release # None
    /\ <<v, f>> \in Fragile \ damaged
    /\ dir' = [dir EXCEPT ![v].files[f] = Bad]
    /\ damaged' = damaged \cup {<<v, f>>}
    /\ UNCHANGED <<active, pc, callVars>>

DamageMetadata(v) ==
    /\ v \in FragileMeta
    /\ dir[v].readable
    /\ dir' = [dir EXCEPT ![v].readable = FALSE]
    /\ UNCHANGED <<damaged, active, pc, callVars>>

Die(c) ==
    /\ Leave(c, "dead")
    /\ UNCHANGED <<dir, damaged, active>>

-----------------------------------------------------------------------------

PrepareStep(c) ==
    \/ ReadState(c) \/ ReadBase(c) \/ VerifyBase(c) \/ Copy(c)
    \/ Fetch(c) \/ Check(c) \/ WriteMetadata(c) \/ Publish(c) \/ Raced(c)
    \/ DropStaging(c) \/ CleanUp(c)

SwitchStep(c) ==
    \/ ActivateState(c) \/ ActivateWrite(c)
    \/ RollbackMetadata(c) \/ RollbackWrite(c)

Call(c) ==
    \/ Rollback(c)
    \/ \E r \in Releases : \/ Prepare(c, r)
                          \/ \E how \in Spellings : Activate(c, r, how)

Environment ==
    \/ \E v \in Versions, f \in Files : DamageFile(v, f)
    \/ \E v \in Versions : DamageMetadata(v)
    \/ \E c \in Clients : Die(c)

Next ==
    \/ \E c \in Clients : Call(c) \/ PrepareStep(c) \/ SwitchStep(c)
    \/ Environment

Spec == Init /\ [][Next]_vars

-----------------------------------------------------------------------------
(* Properties.                                                              *)

\* Every file of an installed version has the content its manifest asks for,
\* unless it went bad after the version was installed: a base that goes bad
\* between its verification and the copy, and a fetch that delivers something
\* else, stay in staging (prepare, runtime-update.ts:321-338).
InstalledIsVerified ==
    \A v \in Versions :
        dir[v].release # None =>
            /\ VersionOf[dir[v].release] = v
            /\ \A f \in Files : \/ <<v, f>> \in damaged
                                \/ dir[v].files[f] = Sha[dir[v].release][f]

\* A prepare that has returned has its release, not another one of the same
\* version, installed, whoever published it and whatever the other clients
\* have done since (runtime-update.ts:356-375).
PreparedIsInstalled ==
    \A c \in Clients :
        pc[c] = "prepared" => dir[VersionOf[job[c]]].release = job[c]

\* The store as its clients see it: versions never change, and the record
\* switches only between installed releases, whatever records the clients
\* have read before, whoever dies and however a version is spelled
\* (activate, rollback, runtime-update.ts:382-420).
Store == INSTANCE RuntimeStore WITH
    store <- [v \in Versions |-> dir[v].release],
    current <- active.current.release,
    previous <- active.previous.release

StoreSafety == Store!Spec

-----------------------------------------------------------------------------
(* What the repository says of the record and the code refutes.             *)

\* "Rollback previous", the answer to a release that fails its health check
\* (docs/plan/v0.2.0-client-platform-upgrade-plan.md:563): the record's way
\* back is the activation before.
WayBackIsLastActive ==
    [][active'.current # active.current => active'.previous = active.current]_vars

\* And it leads to another release.
WayBackIsAnotherRelease ==
    active.previous # NoActivation =>
        active.previous.release # active.current.release
=============================================================================
