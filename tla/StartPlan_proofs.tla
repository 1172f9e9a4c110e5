-------------------------- MODULE StartPlan_proofs --------------------------
(***************************************************************************)
(* Proofs about StartPlan for any number of starts, any scopes, any plugin *)
(* rows and whatever the dumps of the configurations list.                 *)
(***************************************************************************)
EXTENDS StartPlan, TLAPS

-----------------------------------------------------------------------------
(* What is isolated.                                                       *)

LEMMA RescueIds ==
    ASSUME NEW c \in Scopes
    PROVE  IdsOf(RescueCandidates(UserRows[c])) \subseteq Ids
BY RowsAssumption DEF IdsOf, RescueCandidates, Ids

LEMMA RecoveryIds ==
    ASSUME NEW c \in Scopes, NEW d \in BOOLEAN
    PROVE  RecoveryPlan(c, d) \in SUBSET Ids
<1>1. RecoveryRows(c, d) \subseteq Rows
  BY RowsAssumption DEF RecoveryRows
<1> QED
  BY <1>1 DEF RecoveryPlan, IdsOf, RecoveryCandidates, Ids

-----------------------------------------------------------------------------
(* One thread.                                                             *)

\* A start under way knows its scope and has its work directory.
UnderWay(t) == t.pc \notin Ended => t.scope \in Scopes /\ t.workDir

\* What a start comes up on is the child of its last attempt, not ended by it.
OnItsOwnChild(t) ==
    /\ t.pc \in {"probe", "up"} \cup WritePcs => t.ready = t.attempt
    /\ t.pc \in {"up"} \cup WritePcs => t.child # "none" /\ t.workDir

\* What is disabled in an attempt under quarantine, and what is written to the
\* record, was earned (e is the history of the recoveries that came up).
Earns(t, e) ==
    (t.attempt = "quarantine" /\ t.pc # "up") \/ t.pc \in WritePcs =>
        <<t.scope, t.isolated>> \in e

ThreadOK(t, e) == t \in Thread /\ UnderWay(t) /\ OnItsOwnChild(t) /\ Earns(t, e)

\* Where a start thread is before it has something to come up with.
Early == Pcs \ (Ended \cup WritePcs \cup {"probe"})

LEMMA FreshTyped ==
    /\ Fresh \in Thread
    /\ Fresh.pc = "idle" /\ Fresh.attempt = None
BY RowsAssumption DEF Fresh, Thread, Pcs, Ended, Files, NoFile

LEMMA FreshOK == ASSUME NEW e PROVE ThreadOK(Fresh, e)
BY FreshTyped, NoneAssumption
   DEF ThreadOK, UnderWay, OnItsOwnChild, Earns, Ended, WritePcs, Attempts

LEMMA FailedOK == ASSUME NEW t, NEW e PROVE ThreadOK(Failed(t), e)
<1>1. /\ Failed(t) \in Thread
      /\ Failed(t).pc = "failed" /\ Failed(t).attempt = None
  BY FreshTyped DEF Failed, Thread, Pcs, Ended
<1> QED
  BY <1>1, NoneAssumption
     DEF ThreadOK, UnderWay, OnItsOwnChild, Earns, Ended, WritePcs, Attempts

\* A thread that gets to an early place keeps what it has earned.
LEMMA MoveOK ==
    ASSUME NEW t, NEW e, ThreadOK(t, e), t.pc \notin Ended, NEW where \in Early
    PROVE  ThreadOK([t EXCEPT !.pc = where], e)
<1> DEFINE u == [t EXCEPT !.pc = where]
<1>1. t \in Thread /\ where \in Pcs
  BY DEF ThreadOK, Early
<1>2. /\ u \in Thread /\ u.pc = where /\ u.scope = t.scope /\ u.workDir = t.workDir
      /\ u.attempt = t.attempt /\ u.isolated = t.isolated
  BY <1>1 DEF Thread
<1> HIDE DEF u
<1>3. ThreadOK(u, e)
  BY <1>2 DEF ThreadOK, UnderWay, OnItsOwnChild, Earns, Early, Ended
<1> QED
  BY <1>3 DEF u

LEMMA TryOK ==
    ASSUME NEW t, NEW e, ThreadOK(t, e), t.pc \notin Ended,
           NEW a \in Attempts, NEW ids \in SUBSET Ids,
           a = "quarantine" => <<t.scope, ids>> \in e
    PROVE  ThreadOK(Try(t, a, ids), e)
<1> DEFINE u == Try(t, a, ids)
<1>1. t \in Thread
  BY DEF ThreadOK
<1>2. /\ u \in Thread /\ u.pc = "launch" /\ u.scope = t.scope /\ u.workDir = t.workDir
      /\ u.attempt = a /\ u.isolated = ids
  BY <1>1 DEF Thread, Try, Pcs
<1> HIDE DEF u
<1>3. ThreadOK(u, e)
  BY <1>2 DEF ThreadOK, UnderWay, OnItsOwnChild, Earns, WritePcs, Ended
<1> QED
  BY <1>3 DEF u

LEMMA RescueOK ==
    ASSUME NEW t, NEW e, ThreadOK(t, e), t.pc \notin Ended
    PROVE  ThreadOK(Rescue(t), e)
<1>1. t.scope \in Scopes
  BY DEF ThreadOK, UnderWay
<1> QED
  BY <1>1, RescueIds, TryOK DEF Rescue, Attempts

LEMMA FirstAttemptOK ==
    ASSUME NEW c \in Scopes, NEW plan \in Plans, NEW e
    PROVE  ThreadOK(FirstAttempt([Fresh EXCEPT !.scope = c, !.workDir = TRUE], plan), e)
<1> DEFINE t == [Fresh EXCEPT !.scope = c, !.workDir = TRUE]
           u == [t EXCEPT !.pc = "launch"]
           r == [t EXCEPT !.pc = "read", !.recovery = TRUE]
<1>1. /\ u \in Thread /\ u.pc = "launch" /\ u.scope = c /\ u.workDir
      /\ u.attempt = None
      /\ r \in Thread /\ r.pc = "read" /\ r.scope = c /\ r.workDir /\ r.attempt = None
  BY FreshTyped DEF Thread, Pcs
<1>2. \A a, ids : Try(t, a, ids) = Try(u, a, ids)
  BY DEF Try, Fresh
<1>3. Rescue(t) = Rescue(u)
  BY <1>2 DEF Rescue, Fresh
<1> HIDE DEF t, u, r
<1>4. ThreadOK(u, e) /\ ThreadOK(r, e)
  BY <1>1, NoneAssumption
     DEF ThreadOK, UnderWay, OnItsOwnChild, Earns, WritePcs, Ended, Attempts
<1>5. u.pc \notin Ended
  BY <1>1 DEF Ended
<1>6. CASE plan = "safe"
  BY <1>3, <1>4, <1>5, <1>6, RescueOK DEF FirstAttempt, t
<1>7. CASE plan \in {"direct", "profile"}
  <2>1. ThreadOK(Try(u, plan, {}), e)
    BY <1>4, <1>5, <1>7, TryOK DEF Attempts
  <2> QED
    BY <1>2, <1>7, <2>1 DEF FirstAttempt, t
<1>8. CASE plan = "auto_no_recovery"
  <2>1. ThreadOK(Try(u, "normal", {}), e)
    BY <1>4, <1>5, TryOK DEF Attempts
  <2> QED
    BY <1>2, <1>8, <2>1 DEF FirstAttempt, t
<1>9. CASE plan = "auto"
  BY <1>4, <1>9 DEF FirstAttempt, r, t
<1> QED
  BY <1>6, <1>7, <1>8, <1>9 DEF Plans

LEMMA AfterFailureOK ==
    ASSUME NEW t, NEW e, ThreadOK(t, e), t.pc \notin Ended, NEW lock \in BOOLEAN
    PROVE  ThreadOK(AfterFailure(t, lock), e)
<1>1. /\ ThreadOK(Rescue(t), e) /\ ThreadOK(Failed(t), e)
      /\ \A where \in {"clear", "clear_lock", "dump"} :
            ThreadOK([t EXCEPT !.pc = where], e)
  BY RescueOK, FailedOK, MoveOK DEF Early, Pcs, Ended, WritePcs
<1> QED
  BY <1>1 DEF AfterFailure, AfterNormal

\* A start that returns its process.
LEMMA UpOK ==
    ASSUME NEW t, NEW e, ThreadOK(t, e), t.pc \in {"probe"} \cup WritePcs,
           t.child # "none"
    PROVE  ThreadOK(CameUp(t), e)
<1> DEFINE u == CameUp(t)
<1>1. t \in Thread /\ t.ready = t.attempt /\ t.workDir
  BY DEF ThreadOK, OnItsOwnChild, UnderWay, WritePcs, Ended
<1>2. /\ u \in Thread /\ u.pc = "up" /\ u.attempt = t.attempt /\ u.ready = t.ready
      /\ u.child = t.child /\ u.workDir = t.workDir
  BY <1>1, FreshTyped DEF CameUp, Thread, Pcs, Ended
<1> HIDE DEF u
<1>3. ThreadOK(u, e)
  BY <1>1, <1>2 DEF ThreadOK, UnderWay, OnItsOwnChild, Earns, WritePcs, Ended
<1> QED
  BY <1>3 DEF u

DumpPcs == {"dump", "dump_wait", "dump_read"}

\* A change of what only the dump of a configuration is about.
LEMMA DumpOK ==
    ASSUME NEW t, NEW e, ThreadOK(t, e), t.pc \in DumpPcs,
           NEW where \in DumpPcs, NEW d \in BOOLEAN, NEW o \in BOOLEAN,
           NEW ch \in {"none", "running", "exited"}
    PROVE  ThreadOK([t EXCEPT !.pc = where, !.defaults = d, !.orphan = o,
                              !.child = ch], e)
<1> DEFINE u == [t EXCEPT !.pc = where, !.defaults = d, !.orphan = o, !.child = ch]
<1>1. t \in Thread /\ where \in Pcs
  BY DEF ThreadOK, DumpPcs, Pcs
<1>2. /\ u \in Thread /\ u.pc = where /\ u.scope = t.scope /\ u.workDir = t.workDir
      /\ u.attempt = t.attempt /\ u.isolated = t.isolated
  BY <1>1 DEF Thread
<1> HIDE DEF u
<1>3. ThreadOK(u, e)
  BY <1>2 DEF ThreadOK, UnderWay, OnItsOwnChild, Earns, DumpPcs, WritePcs, Ended
<1> QED
  BY <1>3 DEF u

LEMMA DumpFailsOK ==
    ASSUME NEW t, NEW e, ThreadOK(t, e), t.pc \in DumpPcs
    PROVE  ThreadOK(DumpFails(t), e)
<1> DEFINE u == [t EXCEPT !.child = "none", !.orphan = FALSE]
           v == [u EXCEPT !.pc = "dump", !.defaults = TRUE]
<1>1. t \in Thread
  BY DEF ThreadOK
<1>2. u = [t EXCEPT !.pc = t.pc, !.defaults = t.defaults, !.orphan = FALSE,
                    !.child = "none"]
  BY <1>1 DEF Thread
<1>3. ThreadOK(u, e) /\ u.pc \notin Ended
  <2>1. t.pc \in DumpPcs /\ t.defaults \in BOOLEAN
    BY <1>1 DEF Thread
  <2>2. ThreadOK([t EXCEPT !.pc = t.pc, !.defaults = t.defaults, !.orphan = FALSE,
                           !.child = "none"], e)
    BY <2>1, DumpOK
  <2>3. u.pc = t.pc
    BY <1>1 DEF Thread
  <2> HIDE DEF u
  <2> QED
    BY <1>2, <2>1, <2>2, <2>3 DEF DumpPcs, Ended
<1>4. v = [t EXCEPT !.pc = "dump", !.defaults = TRUE, !.orphan = FALSE,
                    !.child = "none"]
  BY <1>1 DEF Thread
<1>5. ThreadOK(v, e)
  BY <1>4, DumpOK DEF DumpPcs
<1> HIDE DEF u
<1>6. ThreadOK(Rescue(u), e)
  BY <1>3, RescueOK
<1> QED
  BY <1>5, <1>6 DEF DumpFails, u

-----------------------------------------------------------------------------
(* All threads and the record.                                             *)

FilesTyped ==
    /\ record \in Files
    /\ tmp \in Files
    /\ content \in [Files -> Records]
    /\ earned \subseteq Scopes \X SUBSET Ids

\* Whatever file gets the record's name, what it holds was earned unless it
\* does not parse or has expired.
RecordsEarned ==
    \A f \in Files : content[f].fresh => <<content[f].scope, content[f].plugins>> \in earned

ThreadsOK ==
    /\ start \in [Starts -> Thread]
    /\ \A s \in Starts : ThreadOK(start[s], earned)

PlanInv == FilesTyped /\ RecordsEarned /\ ThreadsOK

LEMMA InitPlan == Init => PlanInv
<1> SUFFICES ASSUME Init PROVE PlanInv
  OBVIOUS
<1>1. ThreadsOK
  BY FreshTyped, FreshOK DEF Init, ThreadsOK
<1>2. 0 \in Files /\ NoFile \in Files /\ Torn \in Records /\ ~Torn.fresh
  BY RowsAssumption DEF Files, NoFile, Torn, Records
<1>3. CASE record = NoFile /\ earned = {} /\ content = [f \in Files |-> Torn]
  BY <1>1, <1>2, <1>3 DEF Init, PlanInv, FilesTyped, RecordsEarned
<1>4. ASSUME NEW c \in Scopes, NEW d \in BOOLEAN, NEW p, p = RecoveryPlan(c, d),
             record = 0, earned = {<<c, p>>},
             content = [f \in Files |->
                IF f = 0 THEN [scope |-> c, plugins |-> p, fresh |-> TRUE] ELSE Torn]
      PROVE  PlanInv
  <2>1. p \in SUBSET Ids
    BY <1>4, RecoveryIds
  <2>2. [scope |-> c, plugins |-> p, fresh |-> TRUE] \in Records
    BY <2>1 DEF Records
  <2>3. FilesTyped
    BY <1>2, <1>4, <2>1, <2>2 DEF Init, FilesTyped
  <2>4. RecordsEarned
    BY <1>2, <1>4 DEF RecordsEarned
  <2> QED
    BY <1>1, <2>3, <2>4 DEF PlanInv
<1> QED
  BY <1>3, <1>4 DEF Init

\* Threads change one at a time, and what was earned stays so.
LEMMA BecomeOK ==
    ASSUME ThreadsOK, NEW s \in Starts, NEW t, Become(s, t),
           earned \subseteq earned', ThreadOK(t, earned')
    PROVE  ThreadsOK'
<1>1. \A o \in Starts : start'[o] = IF o = s THEN t ELSE start[o]
  BY DEF Become, ThreadsOK
<1>2. start' \in [Starts -> Thread]
  BY DEF Become, ThreadsOK, ThreadOK
<1>3. \A o \in Starts : ThreadOK(start'[o], earned')
  BY <1>1 DEF ThreadsOK, ThreadOK, Earns
<1> QED
  BY <1>2, <1>3 DEF ThreadsOK

\* The attempts: no file is touched.
LEMMA AttemptSteps ==
    ASSUME PlanInv, NEW s \in Starts,
           \/ ReadQuarantine(s) \/ SpawnDump(s) \/ WaitForDump(s) \/ ReadDump(s)
           \/ Launch(s) \/ WaitForReady(s) \/ Probe(s) \/ Cancel(s)
           \/ ChildIsReady(s) \/ ChildExits(s) \/ OrphanEnds(s)
           \/ \E plan \in Plans, c \in Scopes : Begin(s, plan, c)
    PROVE  PlanInv'
<1> DEFINE t == start[s]
<1>t. t \in Thread /\ ThreadOK(t, earned) /\ ThreadsOK
  BY DEF PlanInv, ThreadsOK
<1>1. ASSUME UNCHANGED <<files, earned>>, NEW u, Become(s, u), ThreadOK(u, earned)
      PROVE  PlanInv'
  <2>1. ThreadsOK'
    BY <1>1, <1>t, BecomeOK
  <2> QED
    BY <1>1, <2>1 DEF PlanInv, FilesTyped, RecordsEarned, files
<1> HIDE DEF t
<1>2. CASE ReadQuarantine(s)
  <2>1. t.pc \notin Ended
    BY <1>2 DEF ReadQuarantine, At, Ended, t
  <2>2. CASE Applies(s)
    <3>1. /\ Parsed.plugins \in SUBSET Ids
          /\ <<t.scope, Parsed.plugins>> \in earned
      BY <2>2 DEF Applies, Parsed, PlanInv, FilesTyped, RecordsEarned, Records, t
    <3>2. ThreadOK(Try(t, "quarantine", Parsed.plugins), earned)
      BY <1>t, <2>1, <3>1, TryOK DEF Attempts
    <3> QED
      BY <1>1, <1>2, <2>2, <3>2, FailedOK DEF ReadQuarantine, t
  <2>3. CASE ~Applies(s)
    <3>1. ThreadOK([t EXCEPT !.pc = "forget"], earned)
      BY <1>t, <2>1, MoveOK DEF Early, Pcs, Ended, WritePcs
    <3> QED
      BY <1>1, <1>2, <2>3, <3>1 DEF ReadQuarantine, GoTo, t
  <2> QED
    BY <2>2, <2>3
<1>d. ASSUME t.pc \in DumpPcs
      PROVE  ThreadOK(DumpFails(t), earned)
  BY <1>t, <1>d, DumpFailsOK
<1>3a. CASE SpawnDump(s)
  <2> DEFINE u == [t EXCEPT !.pc = "dump_wait", !.defaults = t.defaults,
                            !.orphan = t.orphan, !.child = "running"]
  <2>1. t.pc \in DumpPcs /\ UNCHANGED <<files, earned>>
    BY <1>3a DEF SpawnDump, At, t, DumpPcs
  <2>2. u = [t EXCEPT !.pc = "dump_wait", !.child = "running"]
    BY <1>t DEF Thread
  <2>3. ThreadOK(u, earned)
    BY <1>t, <2>1, DumpOK DEF DumpPcs, Thread
  <2> HIDE DEF u
  <2>4. Become(s, u) \/ Become(s, DumpFails(t))
    BY <1>3a, <2>2 DEF SpawnDump, t
  <2> QED
    BY <1>1, <1>d, <2>1, <2>3, <2>4
<1>3b. CASE WaitForDump(s)
  <2>1. t.pc \in DumpPcs /\ UNCHANGED <<files, earned>>
    BY <1>3b DEF WaitForDump, At, t, DumpPcs
  <2>2. t.pc \notin Ended
    BY <2>1 DEF DumpPcs, Ended
  <2>3. ThreadOK([t EXCEPT !.pc = "dump_read"], earned)
    BY <1>t, <2>2, MoveOK DEF Early, Pcs, Ended, WritePcs
  <2>4. Become(s, [t EXCEPT !.pc = "dump_read"]) \/ Become(s, DumpFails(t))
    BY <1>3b DEF WaitForDump, GoTo, t
  <2> QED
    BY <1>1, <1>d, <2>1, <2>3, <2>4
<1>3c. CASE ReadDump(s)
  <2> DEFINE u == [t EXCEPT !.child = "none"]
             w == [t EXCEPT !.pc = t.pc, !.defaults = t.defaults,
                            !.orphan = t.orphan, !.child = "none"]
             ids == RecoveryPlan(u.scope, u.defaults)
  <2>1. t.pc \in DumpPcs /\ UNCHANGED <<files, earned>>
    BY <1>3c DEF ReadDump, At, t, DumpPcs
  <2>2. u = w
    BY <1>t DEF Thread
  <2>3. ThreadOK(w, earned)
    BY <1>t, <2>1, DumpOK DEF DumpPcs, Thread
  <2>4. ThreadOK(u, earned) /\ u.pc = t.pc
    BY <1>t, <2>2, <2>3 DEF Thread
  <2>5. \/ Become(s, DumpFails(u)) \/ Become(s, Rescue(u))
        \/ Become(s, Try(u, "recovery", ids)) \/ Become(s, Failed(u))
    BY <1>3c DEF ReadDump, t
  <2> HIDE DEF u, w
  <2>6. u.pc \in DumpPcs /\ u.pc \notin Ended
    BY <2>1, <2>4 DEF DumpPcs, Ended
  <2>7. u.scope \in Scopes /\ u.defaults \in BOOLEAN
    BY <2>4, <2>6 DEF ThreadOK, UnderWay, Thread
  <2>8. ids \in SUBSET Ids
    BY <2>7, RecoveryIds
  <2> HIDE DEF ids
  <2>9. /\ ThreadOK(DumpFails(u), earned) /\ ThreadOK(Rescue(u), earned)
        /\ ThreadOK(Failed(u), earned)
    BY <2>4, <2>6, DumpFailsOK, RescueOK, FailedOK
  <2>10. ThreadOK(Try(u, "recovery", ids), earned)
    BY <2>4, <2>6, <2>8, TryOK DEF Attempts
  <2> QED
    BY <1>1, <2>1, <2>5, <2>9, <2>10
<1>4. CASE Launch(s)
  <2>1. t.pc = "launch"
    BY <1>4 DEF Launch, At, t
  <2> DEFINE l(left) == [t EXCEPT !.ready = left]
             w(left) == [l(left) EXCEPT !.pc = "wait", !.child = "running"]
  <2>2. ASSUME NEW left \in {None, t.ready}
        PROVE  ThreadOK(l(left), earned) /\ l(left).pc = "launch" /\ ThreadOK(w(left), earned)
    <3>1. /\ l(left) \in Thread /\ l(left).pc = "launch"
          /\ l(left).scope = t.scope /\ l(left).workDir = t.workDir
          /\ l(left).attempt = t.attempt /\ l(left).isolated = t.isolated
      BY <1>t, <2>1 DEF Thread
    <3> HIDE DEF l
    <3>2. /\ w(left) \in Thread /\ w(left).pc = "wait"
          /\ w(left).scope = t.scope /\ w(left).workDir = t.workDir
          /\ w(left).attempt = t.attempt /\ w(left).isolated = t.isolated
      BY <3>1 DEF Thread, Pcs
    <3> HIDE DEF w
    <3> QED
      BY <1>t, <2>1, <3>1, <3>2
         DEF ThreadOK, UnderWay, OnItsOwnChild, Earns, WritePcs, Ended
  <2>3. ASSUME NEW left \in {None, t.ready}
        PROVE  ThreadOK(AfterFailure(l(left), FALSE), earned)
    BY <2>2, AfterFailureOK DEF Ended
  <2>4. UNCHANGED <<files, earned>>
    BY <1>4 DEF Launch
  <2>5. \E left \in {None, t.ready} :
           Become(s, w(left)) \/ Become(s, AfterFailure(l(left), FALSE))
    BY <1>4 DEF Launch, t
  <2> QED
    BY <1>1, <2>2, <2>3, <2>4, <2>5
<1>5. ASSUME t.pc \in {"wait", "probe"}, UNCHANGED <<files, earned>>, StopAttempt(s)
      PROVE  PlanInv'
  <2> DEFINE u == [t EXCEPT !.child = "none"]
  <2>1. /\ u \in Thread /\ u.pc = t.pc /\ u.scope = t.scope /\ u.workDir = t.workDir
        /\ u.attempt = t.attempt /\ u.isolated = t.isolated /\ u.ready = t.ready
    BY <1>t DEF Thread
  <2>2. PICK lock \in BOOLEAN : Become(s, AfterFailure(u, lock))
    BY <1>5 DEF StopAttempt, t
  <2> HIDE DEF u
  <2>3. ThreadOK(u, earned) /\ u.pc \notin Ended
    BY <1>t, <1>5, <2>1 DEF ThreadOK, UnderWay, OnItsOwnChild, Earns, WritePcs, Ended
  <2> QED
    BY <1>1, <1>5, <2>2, <2>3, AfterFailureOK
<1>6. CASE WaitForReady(s)
  <2>1. t.pc = "wait" /\ UNCHANGED <<files, earned>>
    BY <1>6 DEF WaitForReady, At, t
  <2>2. ASSUME t.ready = t.attempt, Become(s, [t EXCEPT !.pc = "probe"])
        PROVE  PlanInv'
    <3> DEFINE u == [t EXCEPT !.pc = "probe"]
    <3>1. /\ u \in Thread /\ u.pc = "probe" /\ u.scope = t.scope
          /\ u.workDir = t.workDir /\ u.attempt = t.attempt
          /\ u.isolated = t.isolated /\ u.ready = t.ready
      BY <1>t DEF Thread, Pcs
    <3> HIDE DEF u
    <3>2. ThreadOK(u, earned)
      BY <1>t, <2>1, <2>2, <3>1
         DEF ThreadOK, UnderWay, OnItsOwnChild, Earns, WritePcs, Ended
    <3> QED
      BY <1>1, <2>1, <2>2, <3>2 DEF u
  <2> QED
    BY <1>5, <1>6, <2>1, <2>2 DEF WaitForReady, ValidatedReady, GoTo, t
<1>7. CASE Probe(s)
  <2>1. t.pc = "probe" /\ UNCHANGED files
    BY <1>7 DEF Probe, At, t
  <2>2. CASE StopAttempt(s) /\ UNCHANGED earned
    BY <1>5, <2>1, <2>2
  <2>3. CASE t.child = "running" /\ Up(s) /\ UNCHANGED earned
    <3>1. ThreadOK(CameUp(t), earned)
      BY <1>t, <2>1, <2>3, UpOK
    <3> QED
      BY <1>1, <2>1, <2>3, <3>1 DEF Up, t
  <2>4. ASSUME t.child = "running", GoTo(s, "q_create"),
               earned' = earned \cup {<<t.scope, t.isolated>>}
        PROVE  PlanInv'
    <3> DEFINE u == [t EXCEPT !.pc = "q_create"]
    <3>1. /\ u \in Thread /\ u.pc = "q_create" /\ u.scope = t.scope
          /\ u.workDir = t.workDir /\ u.attempt = t.attempt
          /\ u.isolated = t.isolated /\ u.ready = t.ready /\ u.child = t.child
      BY <1>t DEF Thread, Pcs, WritePcs
    <3>2. Become(s, u)
      BY <2>4 DEF GoTo, t
    <3> HIDE DEF u
    <3>3. t.scope \in Scopes /\ t.workDir /\ t.ready = t.attempt /\ t.isolated \in SUBSET Ids
      BY <1>t, <2>1 DEF ThreadOK, UnderWay, OnItsOwnChild, Ended, Thread
    <3>4. ThreadOK(u, earned')
      BY <2>4, <3>1, <3>3 DEF ThreadOK, UnderWay, OnItsOwnChild, Earns
    <3>5. ThreadsOK'
      BY <1>t, <2>4, <3>2, <3>4, BecomeOK
    <3>6. FilesTyped'
      BY <2>1, <2>4, <3>3 DEF PlanInv, FilesTyped, files
    <3>7. RecordsEarned'
      BY <2>1, <2>4 DEF PlanInv, RecordsEarned, files
    <3> QED
      BY <3>5, <3>6, <3>7 DEF PlanInv
  <2> QED
    BY <1>7, <2>2, <2>3, <2>4 DEF Probe, t
<1>8. CASE Cancel(s)
  <2> DEFINE u == [t EXCEPT !.cancelled = TRUE]
  <2>1. /\ u \in Thread /\ u.pc = t.pc /\ u.scope = t.scope /\ u.workDir = t.workDir
        /\ u.attempt = t.attempt /\ u.isolated = t.isolated /\ u.ready = t.ready
        /\ u.child = t.child
    BY <1>t DEF Thread
  <2>2. Become(s, u) /\ UNCHANGED <<files, earned>>
    BY <1>8 DEF Cancel, t
  <2> HIDE DEF u
  <2>3. ThreadOK(u, earned)
    BY <1>t, <2>1 DEF ThreadOK, UnderWay, OnItsOwnChild, Earns
  <2> QED
    BY <1>1, <2>2, <2>3
<1>9. CASE ChildIsReady(s)
  <2> DEFINE u == [t EXCEPT !.ready = t.attempt]
  <2>1. /\ u \in Thread /\ u.pc = t.pc /\ u.scope = t.scope /\ u.workDir = t.workDir
        /\ u.attempt = t.attempt /\ u.isolated = t.isolated
        /\ u.ready = t.attempt /\ u.child = t.child
    BY <1>t DEF Thread
  <2>2. Become(s, u) /\ UNCHANGED <<files, earned>>
    BY <1>9 DEF ChildIsReady, t
  <2> HIDE DEF u
  <2>3. ThreadOK(u, earned)
    BY <1>t, <2>1 DEF ThreadOK, UnderWay, OnItsOwnChild, Earns
  <2> QED
    BY <1>1, <2>2, <2>3
<1>10. CASE ChildExits(s)
  <2>1. PICK left \in BOOLEAN :
           Become(s, [t EXCEPT !.child = "exited", !.orphan = left])
    BY <1>10 DEF ChildExits, At, t
  <2> DEFINE u == [t EXCEPT !.child = "exited", !.orphan = left]
  <2>2. /\ u \in Thread /\ u.pc = t.pc /\ u.scope = t.scope /\ u.workDir = t.workDir
        /\ u.attempt = t.attempt /\ u.isolated = t.isolated /\ u.ready = t.ready
        /\ u.child = "exited"
    BY <1>t DEF Thread
  <2>3. Become(s, u) /\ UNCHANGED <<files, earned>>
    BY <1>10, <2>1 DEF ChildExits
  <2> HIDE DEF u
  <2>4. ThreadOK(u, earned)
    BY <1>t, <2>2 DEF ThreadOK, UnderWay, OnItsOwnChild, Earns
  <2> QED
    BY <1>1, <2>3, <2>4
<1>12. CASE OrphanEnds(s)
  <2> DEFINE u == [t EXCEPT !.orphan = FALSE]
  <2>1. /\ u \in Thread /\ u.pc = t.pc /\ u.scope = t.scope /\ u.workDir = t.workDir
        /\ u.attempt = t.attempt /\ u.isolated = t.isolated /\ u.ready = t.ready
        /\ u.child = t.child
    BY <1>t DEF Thread
  <2>2. Become(s, u) /\ UNCHANGED <<files, earned>>
    BY <1>12 DEF OrphanEnds, t
  <2> HIDE DEF u
  <2>3. ThreadOK(u, earned)
    BY <1>t, <2>1 DEF ThreadOK, UnderWay, OnItsOwnChild, Earns
  <2> QED
    BY <1>1, <2>2, <2>3
<1>11. ASSUME NEW plan \in Plans, NEW c \in Scopes, Begin(s, plan, c) PROVE PlanInv'
  BY <1>1, <1>11, FailedOK, FirstAttemptOK DEF Begin
<1> QED
  BY <1>2, <1>3a, <1>3b, <1>3c, <1>4, <1>6, <1>7, <1>8, <1>9, <1>10, <1>11, <1>12

\* A record that is removed, renamed or expires stays what it was.
LEMMA RecordSteps ==
    ASSUME PlanInv,
           \/ \E s \in Starts : ForgetRecord(s) \/ ClearQuarantine(s)
           \/ UserClears \/ Expire \/ Crash
    PROVE  PlanInv'
<1>t. FilesTyped /\ RecordsEarned /\ ThreadsOK /\ NoFile \in Files
  BY RowsAssumption DEF PlanInv, Files, NoFile
<1>1. ASSUME NEW s \in Starts, ForgetRecord(s) \/ ClearQuarantine(s) PROVE PlanInv'
  <2>1. /\ record' \in {NoFile, record} /\ UNCHANGED <<tmp, content, earned>>
        /\ start[s].pc \notin Ended
        /\ \/ Become(s, Try(start[s], "normal", {}))
           \/ Become(s, Rescue(start[s]))
    BY <1>1 DEF ForgetRecord, ClearQuarantine, RemoveRecord, At, Ended
  <2>2. ThreadOK(start[s], earned)
    BY <1>t DEF ThreadsOK
  <2>3. /\ ThreadOK(Try(start[s], "normal", {}), earned)
        /\ ThreadOK(Rescue(start[s]), earned)
    BY <2>1, <2>2, TryOK, RescueOK DEF Attempts
  <2>4. ThreadsOK'
    BY <1>t, <2>1, <2>3, BecomeOK
  <2> QED
    BY <1>t, <2>1, <2>4 DEF PlanInv, FilesTyped, RecordsEarned
<1>2. CASE UserClears
  BY <1>t, <1>2 DEF UserClears, PlanInv, FilesTyped, RecordsEarned, ThreadsOK
<1>3. CASE Expire
  <2>1. /\ content' \in [Files -> Records]
        /\ \A f \in Files : /\ content'[f].fresh => content[f].fresh
                             /\ content'[f].scope = content[f].scope
                             /\ content'[f].plugins = content[f].plugins
    BY <1>t, <1>3 DEF Expire, FilesTyped, Records
  <2> QED
    BY <1>t, <1>3, <2>1 DEF Expire, PlanInv, FilesTyped, RecordsEarned, ThreadsOK
<1>4. CASE Crash
  <2>1. ASSUME NEW s \in Starts
        PROVE  ThreadOK([Fresh EXCEPT !.pc = "dead", !.workDir = start[s].workDir], earned)
    <3> DEFINE u == [Fresh EXCEPT !.pc = "dead", !.workDir = start[s].workDir]
    <3>1. start[s].workDir \in BOOLEAN
      BY <1>t DEF ThreadsOK, Thread
    <3>2. u \in Thread /\ u.pc = "dead" /\ u.attempt = None
      BY <3>1, FreshTyped DEF Thread, Pcs, Ended
    <3> HIDE DEF u
    <3>3. ThreadOK(u, earned)
      BY <3>2, NoneAssumption
         DEF ThreadOK, UnderWay, OnItsOwnChild, Earns, Ended, WritePcs, Attempts
    <3> QED
      BY <3>3 DEF u
  <2>2. ThreadsOK'
    BY <1>t, <1>4, <2>1 DEF Crash, ThreadsOK, ThreadOK
  <2> QED
    BY <1>t, <1>4, <2>2 DEF Crash, PlanInv, FilesTyped, RecordsEarned
<1> QED
  BY <1>1, <1>2, <1>3, <1>4

\* Writing the record: what is filled in was earned, into whatever file.
LEMMA WriteSteps ==
    ASSUME PlanInv, NEW s \in Starts,
           CreateTmp(s) \/ FillTmp(s) \/ Rename(s) \/ RemoveOld(s) \/ Retry(s)
    PROVE  PlanInv'
<1> DEFINE t == start[s]
<1>t. /\ t \in Thread /\ ThreadOK(t, earned) /\ ThreadsOK /\ FilesTyped /\ RecordsEarned
      /\ s \in Files /\ NoFile \in Files
  BY RowsAssumption DEF PlanInv, ThreadsOK, Files, NoFile, Starts
<1>w. t.pc \in WritePcs /\ UNCHANGED earned
  BY DEF CreateTmp, FillTmp, Rename, RemoveOld, Retry, At, WritePcs
<1>r. t.child # "none" /\ t.scope \in Scopes /\ <<t.scope, t.isolated>> \in earned
  BY <1>t, <1>w DEF ThreadOK, UnderWay, OnItsOwnChild, Earns, WritePcs, Ended
<1>c. ThreadOK(CameUp(t), earned)
  BY <1>t, <1>w, <1>r, UpOK
<1>n. ASSUME NEW where \in WritePcs, NEW h \in Files
      PROVE  /\ ThreadOK([t EXCEPT !.pc = where, !.handle = h], earned)
             /\ ThreadOK([t EXCEPT !.pc = where], earned)
  <2> DEFINE u == [t EXCEPT !.pc = where, !.handle = h]
             v == [t EXCEPT !.pc = where]
  <2>1. /\ u \in Thread /\ u.pc = where /\ u.scope = t.scope /\ u.workDir = t.workDir
        /\ u.attempt = t.attempt /\ u.isolated = t.isolated /\ u.ready = t.ready
        /\ u.child = t.child
    BY <1>t DEF Thread, Pcs
  <2>2. /\ v \in Thread /\ v.pc = where /\ v.scope = t.scope /\ v.workDir = t.workDir
        /\ v.attempt = t.attempt /\ v.isolated = t.isolated /\ v.ready = t.ready
        /\ v.child = t.child
    BY <1>t DEF Thread, Pcs
  <2> HIDE DEF u, v
  <2>3. ThreadOK(u, earned) /\ ThreadOK(v, earned)
    BY <1>t, <1>w, <1>r, <2>1, <2>2
       DEF ThreadOK, UnderWay, OnItsOwnChild, Earns, WritePcs, Ended
  <2> QED
    BY <2>3 DEF u, v
<1>b. ASSUME NEW u, ThreadOK(u, earned), Become(s, u) PROVE ThreadsOK'
  BY <1>t, <1>w, <1>b, BecomeOK
<1>1. ASSUME record' \in {NoFile, record, tmp}, tmp' \in {NoFile, tmp},
             UNCHANGED content, ThreadsOK'
      PROVE  PlanInv'
  BY <1>1, <1>t, <1>w DEF PlanInv, FilesTyped, RecordsEarned
<1> HIDE DEF t
<1>2. CASE CreateTmp(s)
  <2>1. CASE Up(s) /\ UNCHANGED <<tmp, content>>
    BY <1>1, <1>2, <1>b, <1>c, <2>1 DEF CreateTmp, Up, t
  <2>2. ASSUME tmp' = IF tmp = NoFile THEN s ELSE tmp,
               content' = [content EXCEPT ![tmp'] = Torn],
               Become(s, [start[s] EXCEPT !.pc = "q_fill", !.handle = tmp'])
        PROVE  PlanInv'
    <3>1. tmp' \in Files
      BY <1>t, <2>2 DEF FilesTyped
    <3>2. Torn \in Records /\ ~Torn.fresh
      BY DEF Torn, Records
    <3>3. FilesTyped'
      BY <1>2, <1>t, <1>w, <2>2, <3>1, <3>2 DEF CreateTmp, FilesTyped
    <3>4. RecordsEarned'
      BY <1>t, <1>w, <2>2, <3>1, <3>2 DEF FilesTyped, RecordsEarned
    <3>5. ThreadsOK'
      BY <1>n, <1>b, <2>2, <3>1 DEF t, WritePcs
    <3> QED
      BY <3>3, <3>4, <3>5 DEF PlanInv
  <2> QED
    BY <1>2, <2>1, <2>2 DEF CreateTmp
<1>3. CASE FillTmp(s)
  <2> DEFINE r == [scope |-> t.scope, plugins |-> t.isolated, fresh |-> TRUE]
  <2>1. /\ r \in Records /\ <<r.scope, r.plugins>> \in earned
        /\ Torn \in Records /\ ~Torn.fresh
    BY <1>t, <1>r DEF Thread, Records, Torn
  <2>2. t.handle \in Files
    BY <1>t DEF Thread
  <2>3. \E with \in {r, Torn, content[t.handle]} :
           content' = [content EXCEPT ![t.handle] = with]
    BY <1>3 DEF FillTmp, t
  <2>4. UNCHANGED <<record, tmp>>
    BY <1>3 DEF FillTmp
  <2> HIDE DEF r
  <2>5. FilesTyped' /\ RecordsEarned'
    BY <1>t, <1>w, <2>1, <2>2, <2>3, <2>4 DEF FilesTyped, RecordsEarned
  <2>6. \/ Become(s, [t EXCEPT !.pc = "q_rename", !.handle = NoFile])
        \/ Become(s, CameUp(t))
    BY <1>3 DEF FillTmp, Up, t
  <2>7. ThreadsOK'
    BY <1>n, <1>b, <1>c, <1>t, <2>6 DEF WritePcs
  <2> QED
    BY <2>5, <2>7 DEF PlanInv
<1>4. CASE Rename(s)
  <2>1. ThreadsOK'
    BY <1>4, <1>n, <1>b, <1>c, <1>t DEF Rename, Up, GoTo, WritePcs, t
  <2> QED
    BY <1>1, <1>4, <2>1 DEF Rename, RenameTmp
<1>5. CASE RemoveOld(s)
  <2>1. ThreadsOK'
    BY <1>5, <1>n, <1>b, <1>c, <1>t DEF RemoveOld, Up, GoTo, WritePcs, t
  <2> QED
    BY <1>1, <1>5, <2>1 DEF RemoveOld
<1>6. CASE Retry(s)
  <2>1. ThreadsOK'
    BY <1>6, <1>b, <1>c DEF Retry, Up, t
  <2> QED
    BY <1>1, <1>6, <2>1 DEF Retry, RenameTmp
<1> QED
  BY <1>2, <1>3, <1>4, <1>5, <1>6

LEMMA PlanInvariance == Spec => []PlanInv
<1>1. PlanInv /\ [Next]_vars => PlanInv'
  <2> SUFFICES ASSUME PlanInv, [Next]_vars PROVE PlanInv'
    OBVIOUS
  <2>1. CASE UNCHANGED vars
    BY <2>1 DEF vars, PlanInv, FilesTyped, RecordsEarned, ThreadsOK
  <2> QED
    BY <2>1, AttemptSteps, RecordSteps, WriteSteps DEF Next, Step
<1> QED
  BY <1>1, InitPlan, PTL DEF Spec

\* The record, its temporary file and every start keep their types.
THEOREM TypeCorrect == Spec => []TypeOK
<1>1. PlanInv => TypeOK
  BY DEF PlanInv, FilesTyped, ThreadsOK, TypeOK
<1> QED
  BY PlanInvariance, <1>1, PTL

\* No automatic start disables plugins that a recovery of its scope has not
\* come up without, however many starts share the record and its temporary
\* name and wherever the application dies.
THEOREM QuarantineAlwaysEarned == Spec => []QuarantineIsEarned
<1>1. PlanInv => QuarantineIsEarned
  BY DEF PlanInv, ThreadsOK, ThreadOK, Earns, QuarantineIsEarned, At
<1> QED
  BY PlanInvariance, <1>1, PTL

\* A start comes up on the child of its own last attempt, which it has not
\* ended, with its work directory: the ready file it believed was of this
\* attempt, whatever earlier ones have left.
THEOREM UpMeansOwnChild == Spec => []ComesUpOnItsOwnChild
<1>1. PlanInv => ComesUpOnItsOwnChild
  BY DEF PlanInv, ThreadsOK, ThreadOK, OnItsOwnChild, ComesUpOnItsOwnChild
<1> QED
  BY PlanInvariance, <1>1, PTL
=============================================================================
