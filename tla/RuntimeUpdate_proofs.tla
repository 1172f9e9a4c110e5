------------------------ MODULE RuntimeUpdate_proofs ------------------------
(***************************************************************************)
(* Safety of RuntimeUpdate for any clients, releases and numbers of files, *)
(* and that it implements RuntimeStore.                                    *)
(***************************************************************************)
EXTENDS RuntimeUpdate, TLAPS

\* Calls that have a release know which.
JobIsRelease ==
    \A c \in Clients :
        pc[c] \in PreparePcs \cup {"prepared", "act_state", "act_write"} =>
            job[c] \in Releases

\* A file is copied from a base only.
CopyHasBase == \A c \in Clients : pc[c] = "copy" => base[c] \in Releases

\* The files before the one prepare is at have passed their check.
StagedIsVerified ==
    \A c \in Clients :
        /\ pc[c] \in {"idle", "prepared", "state", "base", "raced", "drop"} =>
              file[c] = 1
        /\ pc[c] \in {"verify", "copy", "fetch", "check"} =>
              \A f \in Files :
                  f < file[c] => staging[c][f] = Sha[job[c]][f]
        /\ pc[c] \in {"meta", "publish"} =>
              \A f \in Files : staging[c][f] = Sha[job[c]][f]

InstalledIn(d, r) == r \in Releases /\ d[VersionOf[r]].release = r
InstalledAs(r) == InstalledIn(dir, r)

\* Who has prepared a release, lost the race for it or is activating it can
\* rely on it.
JobIsInstalled ==
    \A c \in Clients :
        pc[c] \in {"prepared", "drop", "act_state", "act_write"} =>
            InstalledAs(job[c])

\* An activation, if there is one, is of an installed release.
GoodActivation(a) == a = NoActivation \/ InstalledAs(a.release)
GoodRecord(rec) == GoodActivation(rec.current) /\ GoodActivation(rec.previous)

\* Such are those of the record on disk and of the records calls have read,
\* which may be older; a rollback has one to go back to.
RecordsAreGood ==
    /\ GoodRecord(active)
    /\ \A c \in Clients :
          /\ GoodRecord(seen[c])
          /\ pc[c] \in {"roll_meta", "roll_write"} =>
                seen[c].previous # NoActivation

IInv ==
    /\ TypeOK
    /\ JobIsRelease
    /\ CopyHasBase
    /\ StagedIsVerified
    /\ InstalledIsVerified
    /\ JobIsInstalled
    /\ RecordsAreGood

\* Installed releases stay.
Kept == \A v \in Versions :
            dir[v].release # None => dir'[v].release = dir[v].release

USE DEF At, WriteRecord

LEMMA InitIInv == Init => IInv
  BY FilesAssumption, NoneAssumption, SpellingAssumption
  DEF Init, IInv, TypeOK, JobIsRelease, CopyHasBase, StagedIsVerified, InstalledIsVerified,
      JobIsInstalled, RecordsAreGood, GoodRecord, GoodActivation, InstalledAs, InstalledIn, Pcs, PreparePcs,
      SwitchPcs, Directory, Activation, Record, NoDirectory, NoFiles, NoActivation, EmptyRecord,
      MaybeRelease, AnyContent, Files

\* The places of a call are places, and the empty values are well typed.
LEMMA Places ==
    /\ PreparePcs \subseteq Pcs /\ SwitchPcs \subseteq Pcs
    /\ {"idle", "prepared", "dead"} \subseteq Pcs
    /\ None \in MaybeRelease /\ Releases \subseteq MaybeRelease
    /\ 1 \in Files
    /\ NoFiles \in [Files -> AnyContent]
    /\ NoActivation \in Activation
    /\ EmptyRecord \in Record
  BY FilesAssumption, SpellingAssumption
  DEF Pcs, PreparePcs, SwitchPcs, MaybeRelease, Files, NoFiles, AnyContent,
      Activation, NoActivation, EmptyRecord, Record

\* What a version directory holds is well typed.
LEMMA DirectoryFacts ==
  ASSUME TypeOK, NEW v \in Versions
  PROVE  /\ dir[v].release \in MaybeRelease
         /\ dir[v].readable \in BOOLEAN
         /\ dir[v].files \in [Files -> AnyContent]
         /\ ReadMetadata(v) \in MaybeRelease
  BY Places DEF TypeOK, Directory, ReadMetadata

\* Leaving a call keeps its variables well typed.
LEMMA LeaveTypes ==
  ASSUME TypeOK, NEW c \in Clients, NEW where \in Pcs, Leave(c, where)
  PROVE  /\ pc' \in [Clients -> Pcs]
         /\ job' \in [Clients -> MaybeRelease]
         /\ spelled' \in [Clients -> Spellings]
         /\ base' \in [Clients -> MaybeRelease]
         /\ file' \in [Clients -> Files]
         /\ staging' \in [Clients -> [Files -> AnyContent]]
         /\ seen' \in [Clients -> Record]
  BY Places, SpellingAssumption DEF TypeOK, Leave, GoTo, Unstage

\* Every step keeps the state well typed.
LEMMA TypeStep == TypeOK /\ JobIsRelease /\ CopyHasBase /\ [Next]_vars => TypeOK'
  <1> SUFFICES ASSUME TypeOK, JobIsRelease, CopyHasBase, [Next]_vars
               PROVE  TypeOK'
    OBVIOUS
  <1> USE Places DEF prepVars, callVars
  <1>1. ASSUME NEW c \in Clients, NEW r \in Releases, Prepare(c, r)
        PROVE  TypeOK'
    <2>1. CASE ReadMetadata(VersionOf[r]) \in {None, r}
      <3>1. pc' \in [Clients -> Pcs]
        BY <1>1, <2>1 DEF Prepare, TypeOK, GoTo, PreparePcs, Pcs
      <3>2. job' \in [Clients -> MaybeRelease]
        BY <1>1, <2>1 DEF Prepare, TypeOK, MaybeRelease
      <3>3. QED
        BY <1>1, <2>1, <3>1, <3>2 DEF Prepare, TypeOK
    <2>2. CASE ReadMetadata(VersionOf[r]) \notin {None, r}
      <3>1. Leave(c, "idle") /\ UNCHANGED <<dir, damaged, active>>
        BY <1>1, <2>2 DEF Prepare
      <3>2. QED
        BY <3>1, LeaveTypes DEF TypeOK
    <2>3. QED
      BY <2>1, <2>2
  <1>2. ASSUME NEW c \in Clients, NEW r \in Releases,
               NEW how \in Spellings, Activate(c, r, how)
        PROVE  TypeOK'
    <2>1. VersionOf[r] \in Versions
      BY ReleaseAssumption
    <2>2. ReadMetadata(VersionOf[r]) \in MaybeRelease
      BY <2>1, DirectoryFacts
    <2>3. QED
      BY <1>2, <2>2 DEF Activate, TypeOK, GoTo, SwitchPcs
  <1>3. ASSUME NEW c \in Clients, Rollback(c)
        PROVE  TypeOK'
    BY <1>3 DEF Rollback, TypeOK, GoTo, SwitchPcs
  <1>4. ASSUME NEW c \in Clients, ReadState(c) \/ ReadBase(c)
        PROVE  TypeOK'
    <2>1. pc' \in [Clients -> Pcs]
      BY <1>4 DEF ReadState, ReadBase, OrFails, TypeOK, GoTo, PreparePcs
    <2>2. CASE OrFails(c) /\ UNCHANGED <<dir, damaged, active>>
      BY <2>1, <2>2 DEF OrFails, TypeOK
    <2>3. CASE ReadState(c) /\ ~OrFails(c)
      BY <2>1, <2>3 DEF ReadState, TypeOK
    <2>4. CASE ReadBase(c) /\ ~OrFails(c)
      <3> DEFINE of == seen[c].current.release
                 from == IF of = None THEN None ELSE ReadMetadata(VersionOf[of])
      <3>1. of \in MaybeRelease
        BY DEF TypeOK, Record, Activation
      <3>2. from \in MaybeRelease
        BY <3>1, ReleaseAssumption, DirectoryFacts DEF MaybeRelease
      <3>3. /\ base' = [base EXCEPT ![c] = from]
            /\ seen' = [seen EXCEPT ![c] = EmptyRecord]
            /\ UNCHANGED <<dir, damaged, active, job, spelled, file, staging>>
        BY <2>4 DEF ReadBase
      <3> HIDE DEF from
      <3>4. QED
        BY <2>1, <3>2, <3>3 DEF TypeOK
    <2>5. QED
      BY <1>4, <2>2, <2>3, <2>4 DEF ReadState, ReadBase
  <1>5. ASSUME NEW c \in Clients, VerifyBase(c)
        PROVE  TypeOK'
    BY <1>5 DEF VerifyBase, TypeOK, GoTo, PreparePcs
  <1>6. ASSUME NEW c \in Clients, Copy(c)
        PROVE  TypeOK'
    <2>1. pc' \in [Clients -> Pcs]
      BY <1>6 DEF Copy, TypeOK, GoTo, PreparePcs
    <2>2. CASE UNCHANGED staging
      BY <1>6, <2>1, <2>2 DEF Copy, TypeOK
    <2>3. CASE staging' = [staging EXCEPT ![c][file[c]] = BaseContent(c)]
      <3>1. base[c] \in Releases /\ file[c] \in Files
        BY <1>6 DEF Copy, CopyHasBase, TypeOK
      <3>2. VersionOf[base[c]] \in Versions
        BY <3>1, ReleaseAssumption
      <3>3. BaseContent(c) \in AnyContent
        BY <3>1, <3>2, DirectoryFacts DEF BaseContent
      <3>4. staging' \in [Clients -> [Files -> AnyContent]]
        BY <2>3, <3>1, <3>3 DEF TypeOK
      <3>5. QED
        BY <1>6, <2>1, <3>4 DEF Copy, TypeOK
    <2>4. QED
      BY <1>6, <2>2, <2>3 DEF Copy
  <1>7. ASSUME NEW c \in Clients, Fetch(c)
        PROVE  TypeOK'
    <2>1. pc' \in [Clients -> Pcs]
      BY <1>7 DEF Fetch, TypeOK, GoTo, PreparePcs
    <2>2. job[c] \in Releases /\ file[c] \in Files
      BY <1>7 DEF Fetch, JobIsRelease, PreparePcs, TypeOK
    <2>3. Wanted(c) \in AnyContent /\ Bad \in AnyContent
      BY <2>2, ReleaseAssumption DEF Wanted, AnyContent
    <2>4. staging' \in [Clients -> [Files -> AnyContent]]
      <3>1. CASE UNCHANGED staging
        BY <3>1 DEF TypeOK
      <3>2. ASSUME NEW got \in {Wanted(c), Bad},
                   staging' = [staging EXCEPT ![c][file[c]] = got]
            PROVE  staging' \in [Clients -> [Files -> AnyContent]]
        BY <2>2, <2>3, <3>2 DEF TypeOK
      <3>3. QED
        BY <1>7, <3>1, <3>2 DEF Fetch
    <2>5. QED
      BY <1>7, <2>1, <2>4 DEF Fetch, TypeOK
  <1>8. ASSUME NEW c \in Clients, Check(c)
        PROVE  TypeOK'
    <2>1. pc' \in [Clients -> Pcs]
      BY <1>8 DEF Check, NextFile, TypeOK, GoTo, PreparePcs
    <2>2. file[c] \in Files
      BY DEF TypeOK
    <2>3. file' \in [Clients -> Files]
      <3>1. CASE UNCHANGED file
        BY <3>1 DEF TypeOK
      <3>2. CASE file' = [file EXCEPT ![c] = @ + 1] /\ file[c] < NumFiles
        <4>1. file[c] + 1 \in Files
          BY <2>2, <3>2, FilesAssumption DEF Files
        <4>2. QED
          BY <3>2, <4>1 DEF TypeOK
      <3>3. QED
        BY <1>8, <3>1, <3>2 DEF Check, NextFile
    <2>4. QED
      BY <1>8, <2>1, <2>3 DEF Check, TypeOK
  <1>9. ASSUME NEW c \in Clients,
               WriteMetadata(c) \/ Raced(c) \/ DropStaging(c)
        PROVE  TypeOK'
    <2>1. pc' \in [Clients -> Pcs]
      BY <1>9 DEF WriteMetadata, Raced, DropStaging, TypeOK, GoTo, PreparePcs
    <2>2. QED
      BY <1>9, <2>1 DEF WriteMetadata, Raced, DropStaging, TypeOK
  <1>10. ASSUME NEW c \in Clients, Publish(c)
         PROVE  TypeOK'
    <2>1. pc' \in [Clients -> Pcs]
      BY <1>10 DEF Publish, TypeOK, GoTo, PreparePcs
    <2>2. /\ base' \in [Clients -> MaybeRelease]
          /\ file' \in [Clients -> Files]
          /\ staging' \in [Clients -> [Files -> AnyContent]]
      BY <1>10 DEF Publish, Unstage, TypeOK
    <2>3. job[c] \in Releases
      BY <1>10 DEF Publish, JobIsRelease, PreparePcs
    <2>4. [release |-> job[c], files |-> staging[c], readable |-> TRUE]
             \in Directory
      BY <2>3 DEF Directory, TypeOK
    <2>5. dir' \in [Versions -> Directory]
      BY <1>10, <2>4 DEF Publish, TypeOK
    <2>6. QED
      BY <1>10, <2>1, <2>2, <2>5 DEF Publish, TypeOK
  <1>11. ASSUME NEW c \in Clients, ActivateState(c)
         PROVE  TypeOK'
    <2>1. CASE Leave(c, "idle")
      BY <1>11, <2>1, LeaveTypes DEF ActivateState, TypeOK
    <2>2. CASE GoTo(c, "act_write")
      BY <1>11, <2>2, LeaveTypes DEF ActivateState, TypeOK, GoTo, SwitchPcs
    <2>3. QED
      BY <1>11, <2>1, <2>2 DEF ActivateState
  <1>12. ASSUME NEW c \in Clients, RollbackMetadata(c)
         PROVE  TypeOK'
    <2>1. CASE Leave(c, "idle")
      BY <1>12, <2>1, LeaveTypes DEF RollbackMetadata, TypeOK
    <2>2. CASE GoTo(c, "roll_write") /\ UNCHANGED callVars
      BY <1>12, <2>2 DEF RollbackMetadata, TypeOK, GoTo, SwitchPcs
    <2>3. QED
      BY <1>12, <2>1, <2>2 DEF RollbackMetadata
  <1>13. ASSUME NEW c \in Clients, ActivateWrite(c) \/ RollbackWrite(c)
         PROVE  TypeOK'
    <2>1. Leave(c, "idle") /\ UNCHANGED <<dir, damaged>>
      BY <1>13 DEF ActivateWrite, RollbackWrite
    <2>2. active' \in Record
      <3>1. active \in Record /\ seen[c] \in Record
        BY DEF TypeOK
      <3>2. CASE ActivateWrite(c)
        <4>1. Given(c) \in Activation
          BY DEF Given, Activation, TypeOK
        <4>2. QED
          BY <3>1, <3>2, <4>1 DEF ActivateWrite, Record
      <3>3. CASE RollbackWrite(c)
        BY <3>1, <3>3 DEF RollbackWrite, Record
      <3>4. QED
        BY <1>13, <3>2, <3>3
    <2>3. QED
      BY <2>1, <2>2, LeaveTypes DEF TypeOK
  <1>14. ASSUME NEW v \in Versions, NEW f \in Files, DamageFile(v, f)
         PROVE  TypeOK'
    <2>1. dir' \in [Versions -> Directory]
      <3>1. [dir[v].files EXCEPT ![f] = Bad] \in [Files -> AnyContent]
        BY DirectoryFacts DEF AnyContent
      <3>2. [dir[v] EXCEPT !.files[f] = Bad] =
               [dir[v] EXCEPT !.files = [dir[v].files EXCEPT ![f] = Bad]]
        OBVIOUS
      <3>3. dir[v] \in Directory
        BY DEF TypeOK
      <3>4. [dir[v] EXCEPT !.files[f] = Bad] \in Directory
        BY <3>1, <3>2, <3>3 DEF Directory
      <3>5. QED
        BY <1>14, <3>4 DEF DamageFile, TypeOK
    <2>2. QED
      BY <1>14, <2>1 DEF DamageFile, TypeOK
  <1>15. ASSUME NEW v \in Versions, DamageMetadata(v)
         PROVE  TypeOK'
    <2>1. [dir[v] EXCEPT !.readable = FALSE] \in Directory
      BY DEF TypeOK, Directory
    <2>2. QED
      BY <1>15, <2>1 DEF DamageMetadata, TypeOK
  <1>16. ASSUME NEW c \in Clients, CleanUp(c) \/ Die(c)
         PROVE  TypeOK'
    <2>1. /\ Leave(c, "idle") \/ Leave(c, "dead")
          /\ UNCHANGED <<dir, damaged, active>>
      BY <1>16 DEF CleanUp, Die
    <2>2. QED
      BY <2>1, LeaveTypes DEF TypeOK
  <1>17. CASE UNCHANGED vars
    BY <1>17 DEF vars, TypeOK
  <1>18. QED
    BY <1>1, <1>2, <1>3, <1>4, <1>5, <1>6, <1>7, <1>8, <1>9, <1>10, <1>11,
       <1>12, <1>13, <1>14, <1>15, <1>16, <1>17
       DEF Next, Call, PrepareStep, SwitchStep, Environment

\* No step removes or replaces an installed release.
LEMMA KeptStep ==
  ASSUME TypeOK, [Next]_vars
  PROVE  Kept
  <1> USE ReleaseAssumption DEF Kept, TypeOK, Directory, GoTo, Leave, Unstage, prepVars, callVars
  <1>1. ASSUME NEW c \in Clients, NEW r \in Releases, Prepare(c, r)
        PROVE  Kept
    BY <1>1 DEF Prepare
  <1>2. ASSUME NEW c \in Clients, NEW r \in Releases,
               NEW how \in Spellings, Activate(c, r, how)
        PROVE  Kept
    BY <1>2 DEF Activate
  <1>3. ASSUME NEW c \in Clients, Rollback(c)
        PROVE  Kept
    BY <1>3 DEF Rollback
  <1>4. ASSUME NEW c \in Clients, ReadState(c) \/ ReadBase(c)
        PROVE  Kept
    BY <1>4 DEF ReadState, ReadBase, OrFails
  <1>5. ASSUME NEW c \in Clients, VerifyBase(c)
        PROVE  Kept
    BY <1>5 DEF VerifyBase
  <1>6. ASSUME NEW c \in Clients, Copy(c)
        PROVE  Kept
    BY <1>6 DEF Copy
  <1>7. ASSUME NEW c \in Clients, Fetch(c)
        PROVE  Kept
    BY <1>7 DEF Fetch
  <1>8. ASSUME NEW c \in Clients, Check(c)
        PROVE  Kept
    BY <1>8 DEF Check, NextFile
  <1>9. ASSUME NEW c \in Clients,
               WriteMetadata(c) \/ Raced(c) \/ DropStaging(c)
        PROVE  Kept
    BY <1>9 DEF WriteMetadata, Raced, DropStaging
  <1>10. ASSUME NEW c \in Clients, Publish(c)
        PROVE  Kept
    BY <1>10 DEF Publish
  <1>11. ASSUME NEW c \in Clients,
               ActivateState(c) \/ RollbackMetadata(c)
        PROVE  Kept
    BY <1>11 DEF ActivateState, RollbackMetadata
  <1>12. ASSUME NEW c \in Clients,
               ActivateWrite(c) \/ RollbackWrite(c)
        PROVE  Kept
    BY <1>12 DEF ActivateWrite, RollbackWrite
  <1>13. ASSUME NEW v \in Versions, NEW f \in Files, DamageFile(v, f)
        PROVE  Kept
    BY <1>13 DEF DamageFile
  <1>14. ASSUME NEW v \in Versions, DamageMetadata(v)
        PROVE  Kept
    BY <1>14 DEF DamageMetadata
  <1>15. ASSUME NEW c \in Clients, CleanUp(c) \/ Die(c)
        PROVE  Kept
    BY <1>15 DEF CleanUp, Die
  <1>16. CASE UNCHANGED vars
    BY <1>16 DEF vars
  <1>17. QED
    BY <1>1, <1>2, <1>3, <1>4, <1>5, <1>6, <1>7, <1>8, <1>9, <1>10,
       <1>11, <1>12, <1>13, <1>14, <1>15, <1>16
       DEF Next, Call, PrepareStep, SwitchStep, Environment

\* Calls keep knowing their release.
LEMMA JobStep ==
  ASSUME TypeOK, JobIsRelease, JobIsInstalled, [Next]_vars
  PROVE  JobIsRelease'
  <1> USE NoneAssumption, ReleaseAssumption DEF JobIsRelease, JobIsInstalled, InstalledAs, InstalledIn, TypeOK, PreparePcs, GoTo, Leave, Unstage, prepVars, callVars,
          MaybeRelease, ReadMetadata, Directory
  <1>1. ASSUME NEW c \in Clients, NEW r \in Releases, Prepare(c, r)
        PROVE  JobIsRelease'
    <2>1. CASE ReadMetadata(VersionOf[r]) \in {None, r}
      BY <1>1, <2>1 DEF Prepare
    <2>2. CASE ReadMetadata(VersionOf[r]) \notin {None, r}
      <3>1. Leave(c, "idle")
        BY <1>1, <2>2 DEF Prepare
      <3>2. QED
        BY <3>1
    <2>3. QED
      BY <2>1, <2>2
  <1>2. ASSUME NEW c \in Clients, NEW r \in Releases,
               NEW how \in Spellings, Activate(c, r, how)
        PROVE  JobIsRelease'
    BY <1>2 DEF Activate
  <1>3. ASSUME NEW c \in Clients, Rollback(c)
        PROVE  JobIsRelease'
    BY <1>3 DEF Rollback
  <1>4. ASSUME NEW c \in Clients, ReadState(c) \/ ReadBase(c)
        PROVE  JobIsRelease'
    BY <1>4 DEF ReadState, ReadBase, OrFails
  <1>5. ASSUME NEW c \in Clients, VerifyBase(c)
        PROVE  JobIsRelease'
    BY <1>5 DEF VerifyBase
  <1>6. ASSUME NEW c \in Clients, Copy(c)
        PROVE  JobIsRelease'
    BY <1>6 DEF Copy
  <1>7. ASSUME NEW c \in Clients, Fetch(c)
        PROVE  JobIsRelease'
    BY <1>7 DEF Fetch
  <1>8. ASSUME NEW c \in Clients, Check(c)
        PROVE  JobIsRelease'
    BY <1>8 DEF Check, NextFile
  <1>9. ASSUME NEW c \in Clients,
               WriteMetadata(c) \/ Raced(c) \/ DropStaging(c)
        PROVE  JobIsRelease'
    BY <1>9 DEF WriteMetadata, Raced, DropStaging
  <1>10. ASSUME NEW c \in Clients, Publish(c)
        PROVE  JobIsRelease'
    BY <1>10 DEF Publish
  <1>11. ASSUME NEW c \in Clients,
               ActivateState(c) \/ RollbackMetadata(c)
        PROVE  JobIsRelease'
    BY <1>11 DEF ActivateState, RollbackMetadata
  <1>12. ASSUME NEW c \in Clients,
               ActivateWrite(c) \/ RollbackWrite(c)
        PROVE  JobIsRelease'
    BY <1>12 DEF ActivateWrite, RollbackWrite
  <1>13. ASSUME NEW v \in Versions, NEW f \in Files, DamageFile(v, f)
        PROVE  JobIsRelease'
    BY <1>13 DEF DamageFile
  <1>14. ASSUME NEW v \in Versions, DamageMetadata(v)
        PROVE  JobIsRelease'
    BY <1>14 DEF DamageMetadata
  <1>15. ASSUME NEW c \in Clients, CleanUp(c) \/ Die(c)
        PROVE  JobIsRelease'
    BY <1>15 DEF CleanUp, Die
  <1>16. CASE UNCHANGED vars
    BY <1>16 DEF vars
  <1>17. QED
    BY <1>1, <1>2, <1>3, <1>4, <1>5, <1>6, <1>7, <1>8, <1>9, <1>10,
       <1>11, <1>12, <1>13, <1>14, <1>15, <1>16
       DEF Next, Call, PrepareStep, SwitchStep, Environment

\* A copy has a base.
LEMMA BaseStep ==
  ASSUME TypeOK, CopyHasBase, [Next]_vars
  PROVE  CopyHasBase'
  <1> USE DEF CopyHasBase, TypeOK, MaybeRelease, GoTo, Leave, Unstage, prepVars, callVars
  <1>1. ASSUME NEW c \in Clients, NEW r \in Releases, Prepare(c, r)
        PROVE  CopyHasBase'
    BY <1>1 DEF Prepare
  <1>2. ASSUME NEW c \in Clients, NEW r \in Releases,
               NEW how \in Spellings, Activate(c, r, how)
        PROVE  CopyHasBase'
    BY <1>2 DEF Activate
  <1>3. ASSUME NEW c \in Clients, Rollback(c)
        PROVE  CopyHasBase'
    BY <1>3 DEF Rollback
  <1>4. ASSUME NEW c \in Clients, ReadState(c) \/ ReadBase(c)
        PROVE  CopyHasBase'
    BY <1>4 DEF ReadState, ReadBase, OrFails
  <1>5. ASSUME NEW c \in Clients, VerifyBase(c)
        PROVE  CopyHasBase'
    BY <1>5 DEF VerifyBase
  <1>6. ASSUME NEW c \in Clients, Copy(c)
        PROVE  CopyHasBase'
    BY <1>6 DEF Copy
  <1>7. ASSUME NEW c \in Clients, Fetch(c)
        PROVE  CopyHasBase'
    BY <1>7 DEF Fetch
  <1>8. ASSUME NEW c \in Clients, Check(c)
        PROVE  CopyHasBase'
    BY <1>8 DEF Check, NextFile
  <1>9. ASSUME NEW c \in Clients,
               WriteMetadata(c) \/ Raced(c) \/ DropStaging(c)
        PROVE  CopyHasBase'
    BY <1>9 DEF WriteMetadata, Raced, DropStaging
  <1>10. ASSUME NEW c \in Clients, Publish(c)
        PROVE  CopyHasBase'
    BY <1>10 DEF Publish
  <1>11. ASSUME NEW c \in Clients,
               ActivateState(c) \/ RollbackMetadata(c)
        PROVE  CopyHasBase'
    BY <1>11 DEF ActivateState, RollbackMetadata
  <1>12. ASSUME NEW c \in Clients,
               ActivateWrite(c) \/ RollbackWrite(c)
        PROVE  CopyHasBase'
    BY <1>12 DEF ActivateWrite, RollbackWrite
  <1>13. ASSUME NEW v \in Versions, NEW f \in Files, DamageFile(v, f)
        PROVE  CopyHasBase'
    BY <1>13 DEF DamageFile
  <1>14. ASSUME NEW v \in Versions, DamageMetadata(v)
        PROVE  CopyHasBase'
    BY <1>14 DEF DamageMetadata
  <1>15. ASSUME NEW c \in Clients, CleanUp(c) \/ Die(c)
        PROVE  CopyHasBase'
    BY <1>15 DEF CleanUp, Die
  <1>16. CASE UNCHANGED vars
    BY <1>16 DEF vars
  <1>17. QED
    BY <1>1, <1>2, <1>3, <1>4, <1>5, <1>6, <1>7, <1>8, <1>9, <1>10,
       <1>11, <1>12, <1>13, <1>14, <1>15, <1>16
       DEF Next, Call, PrepareStep, SwitchStep, Environment

\* What has passed its check stays verified.
LEMMA StagedStep ==
  ASSUME TypeOK, StagedIsVerified, [Next]_vars
  PROVE  StagedIsVerified'
  <1> USE FilesAssumption DEF StagedIsVerified, TypeOK, Files, Wanted, GoTo, Leave, Unstage, prepVars, callVars
  <1>1. ASSUME NEW c \in Clients, NEW r \in Releases, Prepare(c, r)
        PROVE  StagedIsVerified'
    <2>1. CASE ReadMetadata(VersionOf[r]) \in {None, r}
      <3>1. PICK where \in {"prepared", "state"} : GoTo(c, where)
        BY <1>1, <2>1 DEF Prepare
      <3>2. UNCHANGED <<file, staging>> /\ job' = [job EXCEPT ![c] = r]
        BY <1>1, <2>1 DEF Prepare
      <3>3. file[c] = 1
        BY <1>1 DEF Prepare, Free
      <3>4. QED
        BY <3>1, <3>2, <3>3
    <2>2. CASE ReadMetadata(VersionOf[r]) \notin {None, r}
      <3>1. Leave(c, "idle")
        BY <1>1, <2>2 DEF Prepare
      <3>2. QED
        BY <3>1
    <2>3. QED
      BY <2>1, <2>2
  <1>2. ASSUME NEW c \in Clients, NEW r \in Releases,
               NEW how \in Spellings, Activate(c, r, how)
        PROVE  StagedIsVerified'
    BY <1>2 DEF Activate
  <1>3. ASSUME NEW c \in Clients, Rollback(c)
        PROVE  StagedIsVerified'
    BY <1>3 DEF Rollback
  <1>4. ASSUME NEW c \in Clients, ReadState(c) \/ ReadBase(c)
        PROVE  StagedIsVerified'
    <2>1. UNCHANGED <<job, file, staging>>
      BY <1>4 DEF ReadState, ReadBase, OrFails
    <2>2. CASE GoTo(c, "cleanup")
      BY <2>1, <2>2
    <2>3. CASE GoTo(c, "base") /\ pc[c] = "state"
      BY <2>1, <2>3
    <2>4. CASE GoTo(c, "verify") /\ pc[c] = "base"
      <3>1. file[c] = 1
        BY <2>4
      <3>2. QED
        BY <2>1, <2>4, <3>1
    <2>5. QED
      BY <1>4, <2>2, <2>3, <2>4 DEF ReadState, ReadBase, OrFails
  <1>5. ASSUME NEW c \in Clients, VerifyBase(c)
        PROVE  StagedIsVerified'
    <2>1. /\ UNCHANGED <<job, file, staging>> /\ pc[c] = "verify"
          /\ GoTo(c, "copy") \/ GoTo(c, "fetch")
      BY <1>5 DEF VerifyBase
    <2>2. QED
      BY <2>1
  <1>6. ASSUME NEW c \in Clients, Copy(c)
        PROVE  StagedIsVerified'
    BY <1>6 DEF Copy
  <1>7. ASSUME NEW c \in Clients, Fetch(c)
        PROVE  StagedIsVerified'
    BY <1>7 DEF Fetch
  <1>8. ASSUME NEW c \in Clients, Check(c)
        PROVE  StagedIsVerified'
    BY <1>8 DEF Check, NextFile
  <1>9. ASSUME NEW c \in Clients,
               WriteMetadata(c) \/ Raced(c) \/ DropStaging(c)
        PROVE  StagedIsVerified'
    BY <1>9 DEF WriteMetadata, Raced, DropStaging
  <1>10. ASSUME NEW c \in Clients, Publish(c)
        PROVE  StagedIsVerified'
    BY <1>10 DEF Publish
  <1>11. ASSUME NEW c \in Clients,
               ActivateState(c) \/ RollbackMetadata(c)
        PROVE  StagedIsVerified'
    <2>1. CASE Leave(c, "idle")
      BY <2>1
    <2>2. CASE /\ UNCHANGED <<job, file, staging>>
               /\ GoTo(c, "act_write") \/ GoTo(c, "roll_write")
      BY <2>2
    <2>3. QED
      BY <1>11, <2>1, <2>2 DEF ActivateState, RollbackMetadata
  <1>12. ASSUME NEW c \in Clients,
               ActivateWrite(c) \/ RollbackWrite(c)
        PROVE  StagedIsVerified'
    BY <1>12 DEF ActivateWrite, RollbackWrite
  <1>13. ASSUME NEW v \in Versions, NEW f \in Files, DamageFile(v, f)
        PROVE  StagedIsVerified'
    BY <1>13 DEF DamageFile
  <1>14. ASSUME NEW v \in Versions, DamageMetadata(v)
        PROVE  StagedIsVerified'
    BY <1>14 DEF DamageMetadata
  <1>15. ASSUME NEW c \in Clients, CleanUp(c) \/ Die(c)
        PROVE  StagedIsVerified'
    <2>1. CASE Leave(c, "idle")
      BY <2>1
    <2>2. CASE Leave(c, "dead")
      BY <2>2
    <2>3. QED
      BY <1>15, <2>1, <2>2 DEF CleanUp, Die
  <1>16. CASE UNCHANGED vars
    BY <1>16 DEF vars
  <1>17. QED
    BY <1>1, <1>2, <1>3, <1>4, <1>5, <1>6, <1>7, <1>8, <1>9, <1>10,
       <1>11, <1>12, <1>13, <1>14, <1>15, <1>16
       DEF Next, Call, PrepareStep, SwitchStep, Environment

\* What is installed has passed its check, or goes bad in place.
LEMMA VerifiedStep ==
  ASSUME TypeOK, JobIsRelease, StagedIsVerified, InstalledIsVerified, [Next]_vars
  PROVE  InstalledIsVerified'
  <1> USE ReleaseAssumption, NoneAssumption DEF InstalledIsVerified, TypeOK, Directory, GoTo, Leave, Unstage, prepVars, callVars
  <1>1. ASSUME NEW c \in Clients, NEW r \in Releases, Prepare(c, r)
        PROVE  InstalledIsVerified'
    BY <1>1 DEF Prepare
  <1>2. ASSUME NEW c \in Clients, NEW r \in Releases,
               NEW how \in Spellings, Activate(c, r, how)
        PROVE  InstalledIsVerified'
    BY <1>2 DEF Activate
  <1>3. ASSUME NEW c \in Clients, Rollback(c)
        PROVE  InstalledIsVerified'
    BY <1>3 DEF Rollback
  <1>4. ASSUME NEW c \in Clients, ReadState(c) \/ ReadBase(c)
        PROVE  InstalledIsVerified'
    BY <1>4 DEF ReadState, ReadBase, OrFails
  <1>5. ASSUME NEW c \in Clients, VerifyBase(c)
        PROVE  InstalledIsVerified'
    BY <1>5 DEF VerifyBase
  <1>6. ASSUME NEW c \in Clients, Copy(c)
        PROVE  InstalledIsVerified'
    BY <1>6 DEF Copy
  <1>7. ASSUME NEW c \in Clients, Fetch(c)
        PROVE  InstalledIsVerified'
    BY <1>7 DEF Fetch
  <1>8. ASSUME NEW c \in Clients, Check(c)
        PROVE  InstalledIsVerified'
    BY <1>8 DEF Check, NextFile
  <1>9. ASSUME NEW c \in Clients,
               WriteMetadata(c) \/ Raced(c) \/ DropStaging(c)
        PROVE  InstalledIsVerified'
    BY <1>9 DEF WriteMetadata, Raced, DropStaging
  <1>10. ASSUME NEW c \in Clients, Publish(c)
        PROVE  InstalledIsVerified'
    <2>1. job[c] \in Releases /\ \A f \in Files : staging[c][f] = Sha[job[c]][f]
      BY <1>10 DEF Publish, JobIsRelease, StagedIsVerified, PreparePcs
    <2>2. QED
      <3>1. CASE UNCHANGED dir
        BY <1>10, <3>1 DEF Publish
      <3>2. CASE dir' = [dir EXCEPT ![VersionOf[job[c]]] =
                            [release |-> job[c], files |-> staging[c],
                             readable |-> TRUE]]
        BY <1>10, <2>1, <3>2 DEF Publish
      <3>3. QED
        BY <1>10, <3>1, <3>2 DEF Publish
  <1>11. ASSUME NEW c \in Clients,
               ActivateState(c) \/ RollbackMetadata(c)
        PROVE  InstalledIsVerified'
    BY <1>11 DEF ActivateState, RollbackMetadata
  <1>12. ASSUME NEW c \in Clients,
               ActivateWrite(c) \/ RollbackWrite(c)
        PROVE  InstalledIsVerified'
    BY <1>12 DEF ActivateWrite, RollbackWrite
  <1>13. ASSUME NEW v \in Versions, NEW f \in Files, DamageFile(v, f)
        PROVE  InstalledIsVerified'
    BY <1>13 DEF DamageFile
  <1>14. ASSUME NEW v \in Versions, DamageMetadata(v)
        PROVE  InstalledIsVerified'
    BY <1>14 DEF DamageMetadata
  <1>15. ASSUME NEW c \in Clients, CleanUp(c) \/ Die(c)
        PROVE  InstalledIsVerified'
    BY <1>15 DEF CleanUp, Die
  <1>16. CASE UNCHANGED vars
    BY <1>16 DEF vars
  <1>17. QED
    BY <1>1, <1>2, <1>3, <1>4, <1>5, <1>6, <1>7, <1>8, <1>9, <1>10,
       <1>11, <1>12, <1>13, <1>14, <1>15, <1>16
       DEF Next, Call, PrepareStep, SwitchStep, Environment

Relies == {"prepared", "drop", "act_state", "act_write"}

\* A step of one client endangers nobody else's release.
LEMMA OneClient ==
  ASSUME TypeOK, JobIsInstalled, Kept, NEW c \in Clients,
         NEW where \in Pcs, GoTo(c, where),
         \E r \in MaybeRelease :
             /\ job' = [job EXCEPT ![c] = r]
             /\ where \in Relies =>
                   r \in Releases /\ dir'[VersionOf[r]].release = r
  PROVE  JobIsInstalled'
  <1> SUFFICES ASSUME NEW d \in Clients, pc'[d] \in Relies
               PROVE  InstalledAs(job[d])'
    BY DEF JobIsInstalled, Relies
  <1>1. CASE d = c
    BY <1>1 DEF TypeOK, GoTo, InstalledAs, InstalledIn
  <1>2. CASE d # c
    <2>1. pc[d] = pc'[d] /\ job'[d] = job[d]
      BY <1>2 DEF TypeOK, GoTo
    <2>2. InstalledAs(job[d])
      BY <2>1 DEF JobIsInstalled, Relies
    <2>3. QED
      BY <2>1, <2>2, ReleaseAssumption, NoneAssumption DEF InstalledAs, InstalledIn, Kept
  <1>3. QED
    BY <1>1, <1>2

\* What readable metadata names is installed.
LEMMA ReadNames ==
  ASSUME TypeOK, NEW r \in Releases, NEW q \in MaybeRelease, q # None,
         ReadMetadata(VersionOf[r]) = q, InstalledIsVerified
  PROVE  InstalledAs(q)
  BY ReleaseAssumption
  DEF ReadMetadata, InstalledIsVerified, InstalledAs, InstalledIn, MaybeRelease

\* Whoever relies on a release finds it installed.
LEMMA InstalledStep ==
  ASSUME TypeOK, JobIsRelease, InstalledIsVerified, JobIsInstalled, [Next]_vars
  PROVE  JobIsInstalled'
  <1>0. Kept
    BY KeptStep
  <1>1. ASSUME NEW c \in Clients, NEW r \in Releases, Prepare(c, r)
        PROVE  JobIsInstalled'
    <2>1. CASE ReadMetadata(VersionOf[r]) \in {None, r}
      <3>1. PICK where \in {"prepared", "state"} :
                /\ GoTo(c, where)
                /\ where = "prepared" => ReadMetadata(VersionOf[r]) = r
        BY <1>1, <2>1 DEF Prepare
      <3>2. job' = [job EXCEPT ![c] = r] /\ UNCHANGED dir
        BY <1>1, <2>1 DEF Prepare
      <3>3. where \in Pcs
        BY <3>1 DEF Pcs, PreparePcs
      <3>4. where \in Relies => dir'[VersionOf[r]].release = r
        <4>1. CASE where = "prepared"
          BY <3>1, <3>2, <4>1, ReadNames, NoneAssumption, Places
          DEF InstalledAs, InstalledIn
        <4>2. QED
          BY <3>1, <4>1 DEF Relies
      <3>5. QED
        BY <1>0, <3>1, <3>2, <3>3, <3>4, OneClient, Places
    <2>2. CASE ReadMetadata(VersionOf[r]) \notin {None, r}
      <3>1. GoTo(c, "idle") /\ job' = [job EXCEPT ![c] = None]
        BY <1>1, <2>2 DEF Prepare, Leave
      <3>2. QED
        BY <1>0, <3>1, OneClient, Places DEF Relies
    <2>3. QED
      BY <2>1, <2>2
  <1>2. ASSUME NEW c \in Clients, NEW r \in Releases,
               NEW how \in Spellings, Activate(c, r, how)
        PROVE  JobIsInstalled'
    <2> DEFINE q == ReadMetadata(VersionOf[r])
    <2>1. q \in MaybeRelease /\ q # None
      BY <1>2, ReleaseAssumption, DirectoryFacts DEF Activate
    <2>2. InstalledAs(q)
      BY <2>1, ReadNames
    <2>3. /\ GoTo(c, "act_state") /\ job' = [job EXCEPT ![c] = q]
          /\ UNCHANGED dir
      BY <1>2 DEF Activate
    <2>4. dir'[VersionOf[q]].release = q /\ q \in Releases
      BY <2>2, <2>3 DEF InstalledAs, InstalledIn
    <2>5. "act_state" \in Pcs
      BY DEF Pcs, SwitchPcs
    <2> HIDE DEF q
    <2>6. QED
      BY <1>0, <2>1, <2>3, <2>4, <2>5, OneClient
  <1>3. ASSUME NEW c \in Clients, Rollback(c)
        PROVE  JobIsInstalled'
    BY <1>0, <1>3, ReleaseAssumption, NoneAssumption
    DEF Rollback, JobIsInstalled, InstalledAs, InstalledIn, Kept, TypeOK, GoTo, prepVars, callVars
  <1>4. ASSUME NEW c \in Clients, ReadState(c) \/ ReadBase(c)
        PROVE  JobIsInstalled'
    BY <1>0, <1>4, ReleaseAssumption, NoneAssumption
    DEF ReadState, ReadBase, OrFails, JobIsInstalled, InstalledAs, InstalledIn, Kept, TypeOK, GoTo, prepVars, callVars
  <1>5. ASSUME NEW c \in Clients, VerifyBase(c)
        PROVE  JobIsInstalled'
    BY <1>0, <1>5, ReleaseAssumption, NoneAssumption
    DEF VerifyBase, JobIsInstalled, InstalledAs, InstalledIn, Kept, TypeOK, GoTo, prepVars, callVars
  <1>6. ASSUME NEW c \in Clients, Copy(c)
        PROVE  JobIsInstalled'
    BY <1>0, <1>6, ReleaseAssumption, NoneAssumption
    DEF Copy, JobIsInstalled, InstalledAs, InstalledIn, Kept, TypeOK, GoTo, prepVars, callVars
  <1>7. ASSUME NEW c \in Clients, Fetch(c)
        PROVE  JobIsInstalled'
    BY <1>0, <1>7, ReleaseAssumption, NoneAssumption
    DEF Fetch, JobIsInstalled, InstalledAs, InstalledIn, Kept, TypeOK, GoTo, prepVars, callVars
  <1>8. ASSUME NEW c \in Clients, Check(c)
        PROVE  JobIsInstalled'
    BY <1>0, <1>8, ReleaseAssumption, NoneAssumption
    DEF Check, NextFile, JobIsInstalled, InstalledAs, InstalledIn, Kept, TypeOK, GoTo, prepVars, callVars
  <1>9. ASSUME NEW c \in Clients,
               WriteMetadata(c) \/ Raced(c) \/ DropStaging(c)
        PROVE  JobIsInstalled'
    <2>1. UNCHANGED <<dir, job>>
      BY <1>9 DEF WriteMetadata, Raced, DropStaging, callVars
    <2>2. PICK where \in {"publish", "cleanup", "drop", "prepared"} :
              /\ GoTo(c, where)
              /\ where \in Relies => InstalledAs(job[c])
      <3>1. CASE WriteMetadata(c)
        BY <3>1 DEF WriteMetadata, Relies
      <3>2. CASE Raced(c)
        <4>1. job[c] \in Releases
          BY <3>2 DEF Raced, JobIsRelease, PreparePcs
        <4>2. CASE ReadMetadata(VersionOf[job[c]]) = job[c]
          BY <3>2, <4>1, <4>2, ReadNames, NoneAssumption, Places DEF Raced
        <4>3. CASE ReadMetadata(VersionOf[job[c]]) # job[c]
          BY <3>2, <4>3 DEF Raced, Relies
        <4>4. QED
          BY <4>2, <4>3
      <3>3. CASE DropStaging(c)
        BY <3>3 DEF DropStaging, JobIsInstalled
      <3>4. QED
        BY <1>9, <3>1, <3>2, <3>3
    <2>3. job' = [job EXCEPT ![c] = job[c]] /\ job[c] \in MaybeRelease
      BY <2>1 DEF TypeOK
    <2>4. where \in Pcs
      BY <2>2 DEF Pcs, PreparePcs
    <2>5. where \in Relies =>
             job[c] \in Releases /\ dir'[VersionOf[job[c]]].release = job[c]
      BY <2>1, <2>2 DEF InstalledAs, InstalledIn
    <2>6. QED
      BY <1>0, <2>2, <2>3, <2>4, <2>5, OneClient
  <1>10. ASSUME NEW c \in Clients, Publish(c)
        PROVE  JobIsInstalled'
    <2>1. job[c] \in Releases
      BY <1>10 DEF Publish, JobIsRelease, PreparePcs
    <2>2. PICK where \in {"prepared", "raced"} :
              /\ GoTo(c, where)
              /\ where = "prepared" =>
                    dir' = [dir EXCEPT ![VersionOf[job[c]]] =
                              [release |-> job[c], files |-> staging[c],
                               readable |-> TRUE]]
      BY <1>10 DEF Publish
    <2>3. where \in Relies => dir'[VersionOf[job[c]]].release = job[c]
      BY <1>10, <2>1, <2>2, ReleaseAssumption
      DEF Relies, InstalledAs, InstalledIn, TypeOK, Publish
    <2>4. job' = [job EXCEPT ![c] = job[c]] /\ job[c] \in MaybeRelease
      BY <1>10 DEF Publish, TypeOK
    <2>5. where \in Pcs
      BY <2>2 DEF Pcs, PreparePcs
    <2>6. QED
      BY <1>0, <2>1, <2>2, <2>3, <2>4, <2>5, OneClient
  <1>11. ASSUME NEW c \in Clients,
               ActivateState(c) \/ RollbackMetadata(c)
        PROVE  JobIsInstalled'
    <2>1. CASE Leave(c, "idle")
      BY <1>0, <2>1, OneClient, Places DEF Leave, Relies
    <2>2. CASE ActivateState(c) /\ ~Leave(c, "idle")
      <3>1. GoTo(c, "act_write") /\ UNCHANGED <<dir, job>>
        BY <2>2 DEF ActivateState
      <3>2. QED
        BY <2>2, <3>1, NoneAssumption
        DEF ActivateState, JobIsInstalled, InstalledAs, InstalledIn, TypeOK, GoTo
    <2>3. CASE RollbackMetadata(c) /\ ~Leave(c, "idle")
      <3>1. GoTo(c, "roll_write") /\ UNCHANGED <<dir, job>>
        BY <2>3 DEF RollbackMetadata, callVars
      <3>2. QED
        BY <3>1 DEF JobIsInstalled, InstalledAs, InstalledIn, TypeOK, GoTo
    <2>4. QED
      BY <1>11, <2>1, <2>2, <2>3
  <1>12. ASSUME NEW c \in Clients,
               ActivateWrite(c) \/ RollbackWrite(c)
        PROVE  JobIsInstalled'
    <2>1. Leave(c, "idle")
      BY <1>12 DEF ActivateWrite, RollbackWrite
    <2>2. QED
      BY <1>0, <2>1, OneClient, Places DEF Leave, Relies
  <1>13. ASSUME NEW v \in Versions, NEW f \in Files, DamageFile(v, f)
        PROVE  JobIsInstalled'
    BY <1>0, <1>13, ReleaseAssumption, NoneAssumption
    DEF DamageFile, JobIsInstalled, InstalledAs, InstalledIn, Kept, TypeOK, GoTo, prepVars, callVars
  <1>14. ASSUME NEW v \in Versions, DamageMetadata(v)
        PROVE  JobIsInstalled'
    BY <1>0, <1>14, ReleaseAssumption, NoneAssumption
    DEF DamageMetadata, JobIsInstalled, InstalledAs, InstalledIn, Kept, TypeOK, GoTo, prepVars, callVars
  <1>15. ASSUME NEW c \in Clients, CleanUp(c) \/ Die(c)
        PROVE  JobIsInstalled'
    <2>1. Leave(c, "idle") \/ Leave(c, "dead")
      BY <1>15 DEF CleanUp, Die
    <2>2. QED
      BY <1>0, <2>1, OneClient, Places DEF Leave, Relies
  <1>16. CASE UNCHANGED vars
    BY <1>16 DEF vars, callVars, JobIsInstalled, InstalledAs, InstalledIn
  <1>17. QED
    BY <1>1, <1>2, <1>3, <1>4, <1>5, <1>6, <1>7, <1>8, <1>9, <1>10,
       <1>11, <1>12, <1>13, <1>14, <1>15, <1>16
       DEF Next, Call, PrepareStep, SwitchStep, Environment

\* GoodRecord as it will be, of a record that stays what it is.
StillGood(rec) ==
    \A a \in {rec.current, rec.previous} :
        a = NoActivation \/ InstalledIn(dir', a.release)

LEMMA GoodStays ==
  ASSUME Kept PROVE \A rec \in Record : GoodRecord(rec) => StillGood(rec)
  BY ReleaseAssumption, NoneAssumption
  DEF Kept, GoodRecord, GoodActivation, StillGood, InstalledAs, InstalledIn, Record, Activation

\* Records stay good, the ones calls have read too.
LEMMA RecordStep ==
  ASSUME TypeOK, JobIsInstalled, RecordsAreGood, [Next]_vars
  PROVE  RecordsAreGood'
  <1>0. \A rec \in Record : GoodRecord(rec) => StillGood(rec)
    BY KeptStep, GoodStays
  <1>a. /\ active \in Record /\ GoodRecord(active)
        /\ \A d \in Clients : seen[d] \in Record /\ GoodRecord(seen[d])
    BY DEF TypeOK, RecordsAreGood
  <1>b. /\ StillGood(active)
        /\ \A d \in Clients : StillGood(seen[d])
        /\ StillGood(EmptyRecord)
    BY <1>0, <1>a DEF StillGood, EmptyRecord
  <1> USE <1>b DEF RecordsAreGood, GoodRecord, GoodActivation, StillGood, InstalledAs,
                   InstalledIn, TypeOK, GoTo, Leave, Unstage, prepVars, callVars
  <1>1. ASSUME NEW c \in Clients, NEW r \in Releases, Prepare(c, r)
        PROVE  RecordsAreGood'
    <2>1. CASE ReadMetadata(VersionOf[r]) \in {None, r}
      <3>1. /\ UNCHANGED <<seen, active>>
            /\ GoTo(c, "prepared") \/ GoTo(c, "state")
        BY <1>1, <2>1 DEF Prepare
      <3>2. QED
        BY <3>1
    <2>2. CASE Leave(c, "idle") /\ UNCHANGED active
      BY <2>2
    <2>3. QED
      BY <1>1, <2>1, <2>2 DEF Prepare
  <1>2. ASSUME NEW c \in Clients, NEW r \in Releases,
               NEW how \in Spellings, Activate(c, r, how)
        PROVE  RecordsAreGood'
    BY <1>2 DEF Activate
  <1>3. ASSUME NEW c \in Clients, Rollback(c)
        PROVE  RecordsAreGood'
    BY <1>3 DEF Rollback
  <1>4. ASSUME NEW c \in Clients, ReadState(c) \/ ReadBase(c)
        PROVE  RecordsAreGood'
    <2>1. UNCHANGED active
      BY <1>4 DEF ReadState, ReadBase
    <2>2. PICK where \in {"base", "verify", "cleanup"} : GoTo(c, where)
      BY <1>4 DEF ReadState, ReadBase, OrFails
    <2>0. \/ seen' = [seen EXCEPT ![c] = seen[c]]
          \/ seen' = [seen EXCEPT ![c] = active]
          \/ seen' = [seen EXCEPT ![c] = EmptyRecord]
      <3>1. CASE OrFails(c)
        <4>1. seen' = [seen EXCEPT ![c] = seen[c]]
          BY <3>1 DEF OrFails
        <4>2. QED
          BY <4>1
      <3>2. CASE ReadState(c) /\ ~OrFails(c)
        BY <3>2 DEF ReadState
      <3>3. CASE ReadBase(c) /\ ~OrFails(c)
        BY <3>3 DEF ReadBase
      <3>4. QED
        BY <1>4, <3>1, <3>2, <3>3
    <2>3. CASE seen' = [seen EXCEPT ![c] = seen[c]]
      BY <2>1, <2>2, <2>3
    <2>4. CASE seen' = [seen EXCEPT ![c] = active]
      BY <2>1, <2>2, <2>4
    <2>5. CASE seen' = [seen EXCEPT ![c] = EmptyRecord]
      BY <2>1, <2>2, <2>5
    <2>6. QED
      BY <2>0, <2>3, <2>4, <2>5
  <1>5. ASSUME NEW c \in Clients, VerifyBase(c)
        PROVE  RecordsAreGood'
    BY <1>5 DEF VerifyBase
  <1>6. ASSUME NEW c \in Clients, Copy(c)
        PROVE  RecordsAreGood'
    BY <1>6 DEF Copy
  <1>7. ASSUME NEW c \in Clients, Fetch(c)
        PROVE  RecordsAreGood'
    BY <1>7 DEF Fetch
  <1>8. ASSUME NEW c \in Clients, Check(c)
        PROVE  RecordsAreGood'
    BY <1>8 DEF Check, NextFile
  <1>9. ASSUME NEW c \in Clients,
               WriteMetadata(c) \/ Raced(c) \/ DropStaging(c)
        PROVE  RecordsAreGood'
    BY <1>9 DEF WriteMetadata, Raced, DropStaging
  <1>10. ASSUME NEW c \in Clients, Publish(c)
        PROVE  RecordsAreGood'
    BY <1>10 DEF Publish
  <1>11. ASSUME NEW c \in Clients,
               ActivateState(c) \/ RollbackMetadata(c)
        PROVE  RecordsAreGood'
    <2>1. CASE Leave(c, "idle") /\ UNCHANGED active
      BY <2>1
    <2>2. CASE ActivateState(c) /\ ~Leave(c, "idle")
      <3>1. /\ UNCHANGED active /\ GoTo(c, "act_write")
            /\ seen' = [seen EXCEPT ![c] = active]
        BY <2>2 DEF ActivateState
      <3>2. QED
        BY <3>1
    <2>3. CASE RollbackMetadata(c) /\ ~Leave(c, "idle")
      BY <2>3 DEF RollbackMetadata
    <2>4. QED
      BY <1>11, <2>1, <2>2, <2>3 DEF ActivateState, RollbackMetadata
  <1>12. ASSUME NEW c \in Clients,
               ActivateWrite(c) \/ RollbackWrite(c)
        PROVE  RecordsAreGood'
    <2>1. Leave(c, "idle")
      BY <1>12 DEF ActivateWrite, RollbackWrite
    <2>2. CASE UNCHANGED active
      BY <2>1, <2>2
    <2>3. CASE ActivateWrite(c) /\ ~UNCHANGED active
      <3>0. active' = [current |-> Given(c), previous |-> seen[c].current]
        BY <2>3 DEF ActivateWrite
      <3>1. /\ active'.current.release = job[c]
            /\ active'.previous = seen[c].current
        BY <3>0 DEF Given
      <3>2. InstalledAs(job[c]) /\ UNCHANGED dir
        BY <2>3 DEF ActivateWrite, JobIsInstalled
      <3>3. StillGood(active')
        BY <3>1, <3>2, <1>a
      <3>4. QED
        BY <2>1, <3>3
    <2>4. CASE RollbackWrite(c) /\ ~UNCHANGED active
      <3>1. active' = [current |-> seen[c].previous,
                       previous |-> seen[c].current]
        BY <2>4 DEF RollbackWrite
      <3>2. StillGood(active')
        BY <3>1
      <3>3. QED
        BY <2>1, <3>2
    <2>5. QED
      BY <1>12, <2>2, <2>3, <2>4
  <1>13. ASSUME NEW v \in Versions, NEW f \in Files, DamageFile(v, f)
        PROVE  RecordsAreGood'
    BY <1>13 DEF DamageFile
  <1>14. ASSUME NEW v \in Versions, DamageMetadata(v)
        PROVE  RecordsAreGood'
    BY <1>14 DEF DamageMetadata
  <1>15. ASSUME NEW c \in Clients, CleanUp(c) \/ Die(c)
        PROVE  RecordsAreGood'
    <2>1. CASE Leave(c, "idle") /\ UNCHANGED active
      BY <2>1
    <2>2. CASE Leave(c, "dead") /\ UNCHANGED active
      BY <2>2
    <2>3. QED
      BY <1>15, <2>1, <2>2 DEF CleanUp, Die
  <1>16. CASE UNCHANGED vars
    BY <1>16 DEF vars
  <1>17. QED
    BY <1>1, <1>2, <1>3, <1>4, <1>5, <1>6, <1>7, <1>8, <1>9, <1>10,
       <1>11, <1>12, <1>13, <1>14, <1>15, <1>16
       DEF Next, Call, PrepareStep, SwitchStep, Environment

StoreVars == <<[v \in Versions |-> dir[v].release],
               active.current.release, active.previous.release>>

\* A publish installs, a write of the record switches, all else stutters.
LEMMA StoreStep ==
  ASSUME IInv, [Next]_vars
  PROVE  Store!Next \/ UNCHANGED StoreVars
  <1> DEFINE map == [v \in Versions |-> dir[v].release]
  <1>0. ASSUME UNCHANGED <<dir, active>> PROVE UNCHANGED StoreVars
    BY <1>0 DEF StoreVars
  <1>1. ASSUME NEW c \in Clients, Publish(c), ~UNCHANGED dir
        PROVE  Store!Next
    <2>1. job[c] \in Releases /\ VersionOf[job[c]] \in Versions
      BY <1>1, ReleaseAssumption
      DEF Publish, IInv, JobIsRelease, PreparePcs
    <2>2. /\ dir[VersionOf[job[c]]].release = None
          /\ dir' = [dir EXCEPT ![VersionOf[job[c]]] =
                       [release |-> job[c], files |-> staging[c],
                        readable |-> TRUE]]
          /\ UNCHANGED active
      BY <1>1 DEF Publish
    <2>3. map' = [map EXCEPT ![VersionOf[job[c]]] = job[c]]
      BY <2>1, <2>2 DEF IInv, TypeOK
    <2>4. \E r \in Releases : Store!Install(r)
      BY <2>1, <2>2, <2>3 DEF Store!Install
    <2>5. QED
      BY <2>4 DEF Store!Next
  <1>2. ASSUME NEW c \in Clients, ActivateWrite(c), ~UNCHANGED active
        PROVE  Store!Next
    <2>1. /\ active'.current.release = job[c]
          /\ active'.previous = seen[c].current
          /\ UNCHANGED dir
      BY <1>2 DEF ActivateWrite, Given
    <2>2. InstalledAs(job[c]) /\ GoodRecord(seen[c])
      BY <1>2 DEF ActivateWrite, IInv, JobIsInstalled, RecordsAreGood
    <2>3. Store!Switch(job[c], seen[c].current.release)
      BY <2>1, <2>2, ReleaseAssumption
      DEF Store!Switch, Store!Installed, InstalledAs, InstalledIn, GoodRecord, GoodActivation, NoActivation
    <2>4. job[c] \in Releases /\ seen[c].current.release \in Releases \cup {None}
      BY <2>2 DEF InstalledAs, InstalledIn, GoodRecord, GoodActivation, NoActivation
    <2>5. QED
      BY <2>3, <2>4 DEF Store!Next
  <1>3. ASSUME NEW c \in Clients, RollbackWrite(c), ~UNCHANGED active
        PROVE  Store!Next
    <2>1. /\ active' = [current |-> seen[c].previous,
                        previous |-> seen[c].current]
          /\ UNCHANGED dir
      BY <1>3 DEF RollbackWrite
    <2>2. GoodRecord(seen[c]) /\ seen[c].previous # NoActivation
      BY <1>3 DEF RollbackWrite, IInv, RecordsAreGood
    <2>3. Store!Switch(seen[c].previous.release, seen[c].current.release)
      BY <2>1, <2>2, ReleaseAssumption
      DEF Store!Switch, Store!Installed, InstalledAs, InstalledIn, GoodRecord, GoodActivation, NoActivation
    <2>4. seen[c].previous.release \in Releases /\ seen[c].current.release \in Releases \cup {None}
      BY <2>2 DEF InstalledAs, InstalledIn, GoodRecord, GoodActivation, NoActivation
    <2>5. QED
      BY <2>3, <2>4 DEF Store!Next
  <1>4. ASSUME NEW v \in Versions, NEW f \in Files, DamageFile(v, f)
        PROVE  UNCHANGED StoreVars
    BY <1>4 DEF DamageFile, StoreVars, IInv, TypeOK, Directory
  <1>5. ASSUME NEW v \in Versions, DamageMetadata(v)
        PROVE  UNCHANGED StoreVars
    BY <1>5 DEF DamageMetadata, StoreVars, IInv, TypeOK, Directory
  <1>6. ASSUME NEW c \in Clients, Call(c)
        PROVE  UNCHANGED <<dir, active>>
    BY <1>6 DEF Call, Rollback, Prepare, Activate
  <1>7. ASSUME NEW c \in Clients, PrepareStep(c)
        PROVE  UNCHANGED <<dir, active>> \/ (Publish(c) /\ ~UNCHANGED dir)
    BY <1>7 DEF PrepareStep, ReadState, ReadBase, OrFails, VerifyBase, Copy, Fetch, Check,
                WriteMetadata, Publish, Raced, DropStaging, CleanUp
  <1>8. ASSUME NEW c \in Clients, SwitchStep(c)
        PROVE  \/ UNCHANGED <<dir, active>>
               \/ (ActivateWrite(c) \/ RollbackWrite(c)) /\ ~UNCHANGED active
    BY <1>8 DEF SwitchStep, ActivateState, ActivateWrite, RollbackMetadata,
                RollbackWrite
  <1>9. ASSUME NEW c \in Clients, Die(c)
        PROVE  UNCHANGED <<dir, active>>
    BY <1>9 DEF Die
  <1>10. CASE UNCHANGED vars
    BY <1>0, <1>10 DEF vars
  <1>11. QED
    BY <1>0, <1>1, <1>2, <1>3, <1>4, <1>5, <1>6, <1>7, <1>8, <1>9, <1>10
       DEF Next, Environment

-----------------------------------------------------------------------------

LEMMA Inductive == Spec => []IInv
  <1>1. Init => IInv
    BY InitIInv
  <1>2. ASSUME IInv, [Next]_vars PROVE IInv'
    BY <1>2, TypeStep, JobStep, BaseStep, StagedStep, VerifiedStep,
       InstalledStep, RecordStep DEF IInv
  <1>3. QED
    BY <1>1, <1>2, PTL DEF Spec

\* The state stays well typed, whatever clients, releases and files there are.
THEOREM TypeCorrect == Spec => []TypeOK
  <1>1. IInv => TypeOK
    BY DEF IInv
  <1>2. QED
    BY <1>1, Inductive, PTL

\* No file of an installed version is ever anything but what its manifest
\* asks for, or damaged in place (prepare, runtime-update.ts:321-357).
THEOREM InstalledStaysVerified == Spec => []InstalledIsVerified
  <1>1. IInv => InstalledIsVerified
    BY DEF IInv
  <1>2. QED
    BY <1>1, Inductive, PTL

\* A returned prepare never finds another release under its version
\* (runtime-update.ts:356-365).
THEOREM PreparedStaysInstalled == Spec => []PreparedIsInstalled
  <1>1. IInv => PreparedIsInstalled
    BY DEF IInv, JobIsInstalled, PreparedIsInstalled, InstalledAs, InstalledIn
  <1>2. QED
    BY <1>1, Inductive, PTL

\* The update manager implements the store: versions are frozen, the record
\* switches between installed releases (runtime-update.ts:356-420).
THEOREM ImplementsStore == Spec => StoreSafety
  <1>1. Init => Store!Init
    BY DEF Init, Store!Init, NoDirectory, NoActivation, EmptyRecord
  <1>2. ASSUME IInv, [Next]_vars PROVE Store!Next \/ UNCHANGED StoreVars
    BY <1>2, StoreStep
  <1>3. QED
    BY <1>1, <1>2, Inductive, PTL DEF Spec, StoreSafety, Store!Spec, StoreVars
=============================================================================
