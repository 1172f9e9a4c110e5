-------------------------- MODULE HostKernel_proofs --------------------------
(***************************************************************************)
(* Proofs about HostKernel and about the two that run beside it, Updater   *)
(* and DiagnosticsPage: for any set of requests, any window, any capacity  *)
(* of the queues, and any versions, published or not.                      *)
(***************************************************************************)
EXTENDS Updater, DiagnosticsPage, WellFoundedInduction, TLAPS

Positions == {"sending", "queued", "serving", "answered"}
CallRecords == [request : Requests, gen : Nat, at : Positions,
                answer : Answers \cup {"none"}]
LaneRecords == [step : Steps, call : Nat, result : Results \cup {"none"}, event : Nat]

\* The types of what the invariants below speak of.
KernelTypes ==
    /\ epoch \in Nat /\ lease \in Nat
    /\ calls \in Seq(CallRecords)
    /\ queue \in [Lanes -> Seq(Nat)]
    /\ serving \in [Lanes -> LaneRecords]
    /\ \A i \in DOMAIN dedupe : dedupe[i].result \in Results \cup {"none"}
    /\ sequence \in Nat
    /\ order \in Seq(Ids)
    /\ ran \in Seq(Requests)

\* A lane only ever holds calls of its own.
OfLane(n, l) == n \in DOMAIN calls /\ LaneOf(Request(n).command) = l
LanesApart ==
    \A l \in Lanes :
        /\ \A k \in DOMAIN queue[l] : OfLane(queue[l][k], l)
        /\ ~At(l, "idle") => OfLane(ServedBy(l), l)

KernelInv == KernelTypes /\ LanesApart

Occurs(i) == \E k \in DOMAIN ran : ran[k].id = i
AtMostOnce(i) == \A j, k \in DOMAIN ran : ran[j].id = i /\ ran[k].id = i => j = k
IsAnswered(n) == n \in DOMAIN calls /\ calls[n].at = "answered"
Replies(l) == At(l, "reply")
IdServed(l) == Request(ServedBy(l)).id

\* What is remembered or answered has been processed.
OnlyProcessed ==
    /\ \A i \in DOMAIN dedupe : Occurs(i)
    /\ \A n \in DOMAIN calls : IsAnswered(n) => Occurs(Request(n).id)
    /\ \A l \in Lanes : Replies(l) => Occurs(IdServed(l))

\* The two consumers are not about to reply for one execution.
OneReply ==
    \A k, l \in Lanes :
        Replies(k) /\ Replies(l) /\ IdServed(k) = IdServed(l)
            /\ AtMostOnce(IdServed(k)) => k = l

\* The answer a call gets from the execution of request r with a result.
AnswerFrom(n, r, result) == IF r = Request(n) THEN result ELSE "reused"

\* While its id has been processed once, every answer is that of the one
\* execution, be it still in the hands of a consumer or in the window.
AnswersTrue ==
    /\ \A n \in DOMAIN calls :
           /\ IsAnswered(n) /\ AtMostOnce(Request(n).id) /\ Remembered(n)
           => calls[n].answer = CachedAnswer(n)
    /\ \A n \in DOMAIN calls, l \in Lanes :
           /\ IsAnswered(n) /\ AtMostOnce(Request(n).id)
           /\ Replies(l) /\ IdServed(l) = Request(n).id
           => calls[n].answer = AnswerFrom(n, Request(ServedBy(l)), serving[l].result)
    /\ \A l \in Lanes :
           /\ Replies(l) /\ AtMostOnce(IdServed(l)) /\ IdServed(l) \in DOMAIN dedupe
           => /\ dedupe[IdServed(l)].request = Request(ServedBy(l))
              /\ dedupe[IdServed(l)].result = serving[l].result

AnswerInv == KernelInv /\ OnlyProcessed /\ OneReply /\ AnswersTrue /\ RepeatsAgree

\* An id belongs to commands of one lane.
NoSharedIds ==
    \A r, s \in Requests : r.id = s.id => LaneOf(r.command) = LaneOf(s.command)

InFlight == {"authorize", "reconcile", "record", "emit", "cache"}

\* What a consumer is processing is not in the window.
FlightFresh ==
    \A l \in Lanes : serving[l].step \in InFlight => IdServed(l) \notin DOMAIN dedupe

\* The window is the end of what was processed.
WindowIsTail ==
    /\ Len(order) <= Window /\ Len(order) <= Len(ran)
    /\ Len(order) < Window => Len(order) = Len(ran)
    /\ \A k \in 1 .. Len(order) : order[k] = ran[Len(ran) - Len(order) + k].id
    /\ DOMAIN dedupe = {order[k] : k \in 1 .. Len(order)}

WindowInv == KernelInv /\ FlightFresh /\ WindowIsTail /\ OncePerWindow

\* From the check of the release to the end of the installation the target is
\* a published stable version that is newer than the running one.
Chosen == {"verify", "download", "install"}
Wanted(v) == v \in Published /\ v.prerelease = <<>> /\ IsNewer(v, Current)
TargetWanted ==
    /\ update \in Chosen => Wanted(target)
    /\ installed = Current \/ Wanted(installed)

\* An event has its number from the counter, and the wire only such events.
Events == [number : Nat, world : Nat]
WireNumbered ==
    /\ world \in Nat /\ wire \in Seq(Events)
    /\ \A l \in Lanes : serving[l].event <= sequence
    /\ \A k \in 1 .. Len(wire) : wire[k].number <= sequence

PageTypes ==
    /\ heard \in 0 .. Len(wire) /\ last \in Nat
    /\ timer \in BOOLEAN /\ pending \in BOOLEAN /\ failed \in BOOLEAN
    /\ reading \in [at : {"no", "state", "number", "reply"}, world : Nat, number : Nat]

\* An event that the page has been handed is rendered, or a read is coming
\* that will have its number, or the last read has failed.
HeardIsCovered ==
    \A k \in 1 .. heard :
        \/ wire[k].number <= last
        \/ timer
        \/ reading.at \in {"state", "number"}
        \/ reading.at = "reply" /\ (pending \/ wire[k].number <= reading.number)
        \/ reading.at = "no" /\ failed

PageInv == KernelInv /\ WireNumbered /\ PageTypes /\ HeardIsCovered

-----------------------------------------------------------------------------
(* The types, and each call in its lane.                                   *)

\* What every step does to the calls: it keeps their requests.
CallsKept ==
    /\ DOMAIN calls \subseteq DOMAIN calls'
    /\ \A n \in DOMAIN calls : calls'[n].request = calls[n].request

\* ... and most steps answer none.
NoneAnswered ==
    \A n \in DOMAIN calls' :
        calls'[n].at = "answered" =>
            /\ n \in DOMAIN calls /\ calls[n].at = "answered"
            /\ calls'[n].answer = calls[n].answer

LEMMA AnsweredCalls ==
    ASSUME calls \in Seq(CallRecords), NEW n \in DOMAIN calls, NEW a \in Answers \cup {"none"},
           Answered(n, a)
    PROVE  /\ calls' \in Seq(CallRecords) /\ DOMAIN calls' = DOMAIN calls
           /\ CallsKept
           /\ \A m \in DOMAIN calls : m # n => calls'[m] = calls[m]
           /\ calls'[n].at = "answered" /\ calls'[n].answer = a
<1>1. /\ Len(calls) \in Nat /\ DOMAIN calls = 1 .. Len(calls)
      /\ \A m \in DOMAIN calls : calls[m] \in CallRecords
  OBVIOUS
<1> DEFINE u == [calls[n] EXCEPT !.at = "answered", !.answer = a]
<1>2. u \in CallRecords /\ u.request = calls[n].request
      /\ u.at = "answered" /\ u.answer = a
  BY <1>1 DEF CallRecords, Positions
<1>3. calls' = [calls EXCEPT ![n] = u]
  BY <1>1 DEF Answered, CallRecords
<1> HIDE DEF u
<1>4. /\ DOMAIN calls' = DOMAIN calls /\ calls'[n] = u
      /\ \A m \in DOMAIN calls : m # n => calls'[m] = calls[m]
  BY <1>3
<1>5. calls' \in Seq(CallRecords)
  BY <1>1, <1>2, <1>3
<1> QED
  BY <1>2, <1>4, <1>5 DEF CallsKept

LEMMA MovedCalls ==
    ASSUME calls \in Seq(CallRecords), NEW n \in DOMAIN calls,
           NEW w \in Positions \ {"answered"},
           calls' = [calls EXCEPT ![n].at = w]
    PROVE  /\ calls' \in Seq(CallRecords) /\ DOMAIN calls' = DOMAIN calls
           /\ CallsKept /\ NoneAnswered
<1>1. /\ Len(calls) \in Nat /\ DOMAIN calls = 1 .. Len(calls)
      /\ \A m \in DOMAIN calls : calls[m] \in CallRecords
  OBVIOUS
<1> DEFINE u == [calls[n] EXCEPT !.at = w]
<1>2. u \in CallRecords /\ u.request = calls[n].request /\ u.at = w
  BY <1>1 DEF CallRecords, Positions
<1>3. calls' = [calls EXCEPT ![n] = u]
  BY <1>1 DEF CallRecords
<1> HIDE DEF u
<1>4. /\ DOMAIN calls' = DOMAIN calls /\ calls'[n] = u
      /\ \A m \in DOMAIN calls : m # n => calls'[m] = calls[m]
  BY <1>3
<1>5. calls' \in Seq(CallRecords)
  BY <1>1, <1>2, <1>3
<1> QED
  BY <1>2, <1>4, <1>5 DEF CallsKept, NoneAnswered

LEMMA SubmittedCalls ==
    ASSUME calls \in Seq(CallRecords), lease \in Nat, NEW r \in Requests, Submit(r)
    PROVE  /\ calls' \in Seq(CallRecords) /\ CallsKept /\ NoneAnswered
<1> DEFINE u == [request |-> r, gen |-> lease, at |-> "sending", answer |-> "none"]
<1>1. u \in CallRecords /\ u.at = "sending"
  BY DEF CallRecords, Positions
<1>2. calls' = Append(calls, u)
  BY DEF Submit
<1> HIDE DEF u
<1>3. /\ Len(calls) \in Nat /\ DOMAIN calls = 1 .. Len(calls)
      /\ DOMAIN calls' = 1 .. Len(calls) + 1 /\ calls'[Len(calls) + 1] = u
      /\ \A m \in DOMAIN calls : calls'[m] = calls[m]
      /\ calls' \in Seq(CallRecords)
  BY <1>1, <1>2
<1> QED
  BY <1>1, <1>3 DEF CallsKept, NoneAnswered

LEMMA RequestTyped ==
    ASSUME KernelInv
    PROVE  /\ \A n \in DOMAIN calls : Request(n) \in Requests /\ Request(n).id \in Ids
           /\ \A c : LaneOf(c) \in Lanes
           /\ \A l \in Lanes : ~At(l, "idle") =>
                  /\ ServedBy(l) \in DOMAIN calls
                  /\ Request(ServedBy(l)) \in Requests /\ IdServed(l) \in Ids
<1>1. \A n \in DOMAIN calls : calls[n] \in CallRecords
  BY DEF KernelInv, KernelTypes
<1> QED
  BY <1>1 DEF KernelInv, LanesApart, OfLane, Request, CallRecords, Ids, LaneOf, Lanes,
              IdServed

\* One lane's record changes, to one that serves nothing or the same call.
LEMMA LaneMoves ==
    ASSUME KernelInv, NEW l \in Lanes, NEW u \in LaneRecords,
           u.step # "idle" => u.call = ServedBy(l) /\ ~At(l, "idle"),
           serving' = [serving EXCEPT ![l] = u],
           UNCHANGED queue, CallsKept
    PROVE  LanesApart' /\ serving' \in [Lanes -> LaneRecords]
<1>1. ASSUME NEW n, NEW k, OfLane(n, k) PROVE OfLane(n, k)'
  BY <1>1 DEF OfLane, CallsKept, Request
<1>2. serving'[l] = u /\ \A k \in Lanes \ {l} : serving'[k] = serving[k]
  BY DEF KernelInv, KernelTypes
<1>3. serving' \in [Lanes -> LaneRecords]
  BY DEF KernelInv, KernelTypes
<1>4. ASSUME NEW k \in Lanes, ~At(k, "idle")' PROVE OfLane(ServedBy(k), k)'
  <2>1. ~At(k, "idle") /\ ServedBy(k)' = ServedBy(k)
    BY <1>2, <1>4 DEF At, ServedBy
  <2> QED
    BY <1>1, <2>1 DEF KernelInv, LanesApart, OfLane
<1>5. ASSUME NEW k \in Lanes, NEW i \in DOMAIN queue'[k] PROVE OfLane(queue[k][i], k)'
  BY <1>1, <1>5 DEF KernelInv, LanesApart
<1> QED
  BY <1>3, <1>4, <1>5 DEF LanesApart

\* What a consumer that serves a call does to its own record.
LaneChange(l, u) ==
    /\ u \in LaneRecords
    /\ serving' = [serving EXCEPT ![l] = u]
    /\ u.step # "idle" => u.call = ServedBy(l)

LEMMA LaneSteps ==
    ASSUME KernelInv, NEW l \in Lanes
    PROVE  /\ Lookup(l) =>
                  /\ Remembered(ServedBy(l)) => LaneChange(l, Idle)
                  /\ ~Remembered(ServedBy(l)) =>
                         \E u : LaneChange(l, u) /\ u.step = "authorize"
           /\ Authorize(l) =>
                  \E u : LaneChange(l, u) /\ u.step \in {"reconcile", "record"}
           /\ Reconcile(l) =>
                  \E u : LaneChange(l, u) /\ u.step = "record" /\ u.result \in Results
           /\ Record(l) => \E u : LaneChange(l, u) /\ u.step = "emit"
           /\ Emit(l) => \E u : LaneChange(l, u) /\ u.step = "cache"
           /\ Cache(l) => \E u : LaneChange(l, u) /\ u.step = "reply"
                                 /\ u.result = serving[l].result
           /\ Reply(l) => LaneChange(l, Idle)
<1>1. serving[l] \in LaneRecords /\ serving \in [Lanes -> LaneRecords] /\ sequence \in Nat
  BY DEF KernelInv, KernelTypes
<1>2. Idle \in LaneRecords /\ Idle.step = "idle"
  BY DEF Idle, LaneRecords, Steps
<1>3. ASSUME NEW w \in Steps, NEW r \in Results \cup {"none"}, NEW e \in Nat
      PROVE  [step |-> w, call |-> ServedBy(l), result |-> r, event |-> e] \in LaneRecords
  BY <1>1, <1>3 DEF LaneRecords, ServedBy
<1>4. ASSUME NEW w \in Steps, Proceed(l, w)
      PROVE  \E u : LaneChange(l, u) /\ u.step = w /\ u.result = serving[l].result
  <2> DEFINE u == [step |-> w, call |-> ServedBy(l), result |-> serving[l].result,
                   event |-> serving[l].event]
  <2>0. [serving[l] EXCEPT !.step = w] = u
    BY <1>1 DEF LaneRecords, ServedBy
  <2>1. serving' = [serving EXCEPT ![l] = u]
    BY <1>1, <1>4, <2>0 DEF Proceed
  <2>2. u \in LaneRecords
    BY <1>1, <1>3 DEF LaneRecords
  <2>3. u.step = w /\ u.result = serving[l].result /\ u.call = ServedBy(l)
    OBVIOUS
  <2> HIDE DEF u
  <2> QED
    BY <2>1, <2>2, <2>3 DEF LaneChange
<1>5. ASSUME NEW w \in Steps, NEW r \in Results,
             serving' = [serving EXCEPT ![l].step = w, ![l].result = r]
      PROVE  \E u : LaneChange(l, u) /\ u.step = w /\ u.result = r
  <2> DEFINE u == [serving[l] EXCEPT !.step = w, !.result = r]
  <2>1. serving' = [serving EXCEPT ![l] = u]
    BY <1>1, <1>5
  <2>2. u \in LaneRecords
    BY <1>1, <1>5 DEF LaneRecords
  <2>3. u.step = w /\ u.result = r /\ u.call = ServedBy(l)
    BY <1>1 DEF LaneRecords, ServedBy
  <2> HIDE DEF u
  <2> QED
    BY <2>1, <2>2, <2>3 DEF LaneChange
<1>6. ASSUME serving' = [serving EXCEPT ![l] = Idle] PROVE LaneChange(l, Idle)
  BY <1>2, <1>6 DEF LaneChange
<1>7. Lookup(l) =>
          /\ Remembered(ServedBy(l)) => LaneChange(l, Idle)
          /\ ~Remembered(ServedBy(l)) => \E u : LaneChange(l, u) /\ u.step = "authorize"
  <2>1. "authorize" \in Steps
    BY DEF Steps
  <2> QED
    BY <1>4, <1>6, <2>1 DEF Lookup
<1>8. Authorize(l) => \E u : LaneChange(l, u) /\ u.step \in {"reconcile", "record"}
  <2>1. "reconcile" \in Steps /\ "record" \in Steps /\ "denied" \in Results
    BY DEF Steps, Results
  <2>2. Authorize(l) => \/ Proceed(l, "reconcile")
                        \/ serving' = [serving EXCEPT ![l].step = "record",
                                                      ![l].result = "denied"]
    BY DEF Authorize, Proceed
  <2>3. ASSUME Proceed(l, "reconcile")
        PROVE  \E u : LaneChange(l, u) /\ u.step \in {"reconcile", "record"}
    BY <1>4, <2>1, <2>3
  <2>4. ASSUME serving' = [serving EXCEPT ![l].step = "record", ![l].result = "denied"]
        PROVE  \E u : LaneChange(l, u) /\ u.step \in {"reconcile", "record"}
    BY <1>5, <2>1, <2>4
  <2> QED
    BY <2>2, <2>3, <2>4
<1>9. Reconcile(l) => \E u : LaneChange(l, u) /\ u.step = "record" /\ u.result \in Results
  <2>1. "record" \in Steps /\ "ok" \in Results /\ "failed" \in Results
    BY DEF Steps, Results
  <2> SUFFICES ASSUME Reconcile(l)
               PROVE  \E u : LaneChange(l, u) /\ u.step = "record" /\ u.result \in Results
    OBVIOUS
  <2>2. PICK r \in {"ok", "failed"} :
            serving' = [serving EXCEPT ![l].step = "record", ![l].result = r]
    BY DEF Reconcile
  <2>3. r \in Results
    BY <2>1
  <2>4. \E u : LaneChange(l, u) /\ u.step = "record" /\ u.result = r
    BY <1>5, <2>1, <2>2, <2>3
  <2> QED
    BY <2>3, <2>4
<1>10. Record(l) => \E u : LaneChange(l, u) /\ u.step = "emit"
  <2> SUFFICES ASSUME Record(l) PROVE \E u : LaneChange(l, u) /\ u.step = "emit"
    OBVIOUS
  <2> DEFINE number == sequence + 1
             u == [serving[l] EXCEPT !.step = "emit", !.event = number]
  <2>0. /\ serving' = [serving EXCEPT ![l].step = "emit", ![l].event = number]
        /\ number \in Nat
    BY <1>1 DEF Record
  <2> HIDE DEF number
  <2>1. serving' = [serving EXCEPT ![l] = u]
    BY <1>1, <2>0
  <2>2. u \in LaneRecords
    BY <1>1, <2>0 DEF LaneRecords, Steps
  <2>3. u.step = "emit" /\ u.call = ServedBy(l)
    BY <1>1 DEF LaneRecords, ServedBy
  <2> HIDE DEF u
  <2> QED
    BY <2>1, <2>2, <2>3 DEF LaneChange
<1>11. /\ Emit(l) => \E u : LaneChange(l, u) /\ u.step = "cache"
       /\ Cache(l) => \E u : LaneChange(l, u) /\ u.step = "reply"
                             /\ u.result = serving[l].result
  BY <1>4 DEF Emit, Cache, Steps
<1>12. Reply(l) => LaneChange(l, Idle)
  BY <1>6 DEF Reply
<1> QED
  BY <1>7, <1>8, <1>9, <1>10, <1>11, <1>12

LEMMA CallSteps ==
    ASSUME KernelInv
    PROVE  /\ calls \in Seq(CallRecords) /\ UNCHANGED calls =>
                  calls' \in Seq(CallRecords) /\ CallsKept /\ NoneAnswered
           /\ \A r \in Requests : Submit(r) =>
                  calls' \in Seq(CallRecords) /\ CallsKept /\ NoneAnswered
           /\ \A n \in DOMAIN calls : Send(n) =>
                  calls' \in Seq(CallRecords) /\ CallsKept /\ NoneAnswered
           /\ \A l \in Lanes : Take(l) =>
                  calls' \in Seq(CallRecords) /\ CallsKept /\ NoneAnswered
           /\ \A l \in Lanes : Lookup(l) \/ Reply(l) =>
                  calls' \in Seq(CallRecords) /\ CallsKept
<1>1. calls \in Seq(CallRecords) /\ lease \in Nat
  BY DEF KernelInv, KernelTypes
<1>2. UNCHANGED calls => CallsKept /\ NoneAnswered
  BY DEF CallsKept, NoneAnswered
<1>3. ASSUME NEW n \in DOMAIN calls, Send(n)
      PROVE  calls' \in Seq(CallRecords) /\ CallsKept /\ NoneAnswered
  <2>1. calls' = [calls EXCEPT ![n].at = "queued"]
    BY <1>3 DEF Send
  <2> QED
    BY <1>1, <2>1, MovedCalls DEF Positions
<1>4. ASSUME NEW l \in Lanes, Take(l)
      PROVE  calls' \in Seq(CallRecords) /\ CallsKept /\ NoneAnswered
  <2> DEFINE n == Head(queue[l])
  <2>1. calls' = [calls EXCEPT ![n].at = "serving"]
    BY <1>4 DEF Take
  <2>2. 1 \in DOMAIN queue[l] /\ n = queue[l][1]
    BY <1>4 DEF Take, KernelInv, KernelTypes
  <2>3. n \in DOMAIN calls
    BY <2>2 DEF KernelInv, LanesApart, OfLane
  <2> HIDE DEF n
  <2> QED
    BY <1>1, <2>1, <2>3, MovedCalls DEF Positions
<1>5. ASSUME NEW l \in Lanes, Lookup(l) \/ Reply(l)
      PROVE  calls' \in Seq(CallRecords) /\ CallsKept
  <2>1. ServedBy(l) \in DOMAIN calls
    BY <1>5, RequestTyped DEF Lookup, Reply, At
  <2>2. Remembered(ServedBy(l)) => CachedAnswer(ServedBy(l)) \in Answers \cup {"none"}
    BY DEF KernelInv, KernelTypes, Remembered, CachedAnswer, Answers
  <2>3. serving[l].result \in Answers \cup {"none"}
    BY DEF KernelInv, KernelTypes, LaneRecords, Answers
  <2> QED
    BY <1>1, <1>2, <1>5, <2>1, <2>2, <2>3, AnsweredCalls DEF Lookup, Reply
<1> QED
  BY <1>1, <1>2, <1>3, <1>4, <1>5, SubmittedCalls

\* The steps of a consumer in the middle of a command: they answer nobody.
Middle(l) == Authorize(l) \/ Reconcile(l) \/ Record(l) \/ Emit(l) \/ Cache(l)

\* The window with one id more, and without its oldest.
LEMMA Appended ==
    ASSUME NEW S, NEW s \in Seq(S), NEW x \in S, NEW t, t = Append(s, x)
    PROVE  /\ t \in Seq(S) /\ Len(t) = Len(s) + 1 /\ Len(s) \in Nat
           /\ t[Len(s) + 1] = x /\ \A k \in 1 .. Len(s) : t[k] = s[k]
           /\ Tail(t) \in Seq(S) /\ Len(Tail(t)) = Len(s) /\ Head(t) = t[1]
           /\ \A k \in 1 .. Len(s) : Tail(t)[k] = t[k + 1]
<1>1. /\ t \in Seq(S) /\ Len(t) = Len(s) + 1 /\ Len(s) \in Nat
      /\ t[Len(s) + 1] = x /\ \A k \in 1 .. Len(s) : t[k] = s[k]
  OBVIOUS
<1>2. t # <<>>
  BY <1>1
<1>3. Tail(t) \in Seq(S) /\ Len(Tail(t)) = Len(s) /\ Head(t) = t[1]
  BY <1>1, <1>2
<1>4. \A k \in 1 .. Len(s) : Tail(t)[k] = t[k + 1]
  BY <1>1, <1>2
<1> QED
  BY <1>1, <1>3, <1>4

LEMMA TypedSteps ==
    ASSUME KernelInv, [KernelNext]_vars
    PROVE  /\ epoch' \in Nat /\ lease' \in Nat /\ sequence' \in Nat
           /\ order' \in Seq(Ids) /\ ran' \in Seq(Requests)
           /\ \A i \in DOMAIN dedupe' : dedupe'[i].result \in Results \cup {"none"}
<1>0. \A l \in Lanes : ~At(l, "idle") =>
          Request(ServedBy(l)) \in Requests /\ IdServed(l) \in Ids
  BY RequestTyped
<1> USE DEF KernelInv, KernelTypes
<1>1. ASSUME UNCHANGED <<dedupe, order, ran>> PROVE
          /\ order' \in Seq(Ids) /\ ran' \in Seq(Requests)
          /\ \A i \in DOMAIN dedupe' : dedupe'[i].result \in Results \cup {"none"}
  BY <1>1
<1>2. ASSUME UNCHANGED lsVars PROVE epoch' \in Nat /\ lease' \in Nat
  BY <1>2 DEF lsVars
<1>3. ASSUME NEW l \in Lanes, Cache(l) PROVE
          /\ order' \in Seq(Ids) /\ ran' \in Seq(Requests)
          /\ \A i \in DOMAIN dedupe' : dedupe'[i].result \in Results \cup {"none"}
  <2>1. IdServed(l) \in Ids /\ Request(ServedBy(l)) \in Requests
    BY <1>0, <1>3 DEF Cache, At
  <2> DEFINE ids == Append(order, IdServed(l))
  <2>2. order' \in {ids, Tail(ids)}
    BY <1>3 DEF Cache, IdServed
  <2>3. ids \in Seq(Ids) /\ Tail(ids) \in Seq(Ids)
    BY <2>1, Appended
  <2>7. order' \in Seq(Ids)
    BY <2>2, <2>3
  <2>4. ran' \in Seq(Requests)
    BY <1>3, <2>1 DEF Cache
  <2>5. serving[l].result \in Results \cup {"none"}
    BY DEF LaneRecords
  <2>6. \A i \in DOMAIN dedupe' : dedupe'[i].result \in Results \cup {"none"}
    BY <1>3, <2>5 DEF Cache
  <2> QED
    BY <2>7, <2>4, <2>6
<1>4. ASSUME NEW l \in Lanes, Bookkeeping(l) \/ Reconcile(l), ~Cache(l)
      PROVE  UNCHANGED <<dedupe, order, ran>> /\ sequence' \in Nat
  BY <1>4 DEF Bookkeeping, Take, Lookup, Authorize, Reconcile, Record, Emit, Reply
<1>5. ASSUME NEW l \in Lanes, Bookkeeping(l) \/ Reconcile(l)
      PROVE  UNCHANGED lsVars /\ (Cache(l) => UNCHANGED sequence)
  BY <1>5 DEF Bookkeeping, Take, Lookup, Authorize, Reconcile, Record, Emit, Cache, Reply
<1>6. ASSUME \/ \E r \in Requests : Submit(r)
             \/ \E n \in DOMAIN calls : Send(n)
             \/ UNCHANGED vars
      PROVE  UNCHANGED lsVars /\ UNCHANGED <<dedupe, order, ran, sequence>>
  BY <1>6 DEF Submit, Send, vars, kernelVars
<1>7. ASSUME RuntimeStep
      PROVE  /\ epoch' \in Nat /\ lease' \in Nat
             /\ UNCHANGED <<dedupe, order, ran, sequence>>
  BY <1>7 DEF RuntimeStep, LSNext, Open, Grant, GiveUp, Revoke, kernelVars
<1> QED
  BY <1>1, <1>2, <1>3, <1>4, <1>5, <1>6, <1>7 DEF KernelNext

LEMMA ServingStays ==
    ASSUME KernelInv, UNCHANGED serving, CallsKept, queue' \in [Lanes -> Seq(Nat)],
           \A l \in Lanes : \A k \in DOMAIN queue'[l] :
               \/ \E j \in DOMAIN queue[l] : queue'[l][k] = queue[l][j]
               \/ OfLane(queue'[l][k], l)
    PROVE  LanesApart' /\ serving' \in [Lanes -> LaneRecords]
<1>1. ASSUME NEW n, NEW l, OfLane(n, l) PROVE OfLane(n, l)'
  BY <1>1 DEF OfLane, CallsKept, Request
<1>2. ASSUME NEW n, NEW l, OfLane(n, l)
      PROVE  n \in DOMAIN calls' /\ LaneOf(calls'[n].request.command) = l
  BY <1>1, <1>2 DEF OfLane, Request
<1>3. ASSUME NEW l \in Lanes, NEW k \in DOMAIN queue'[l]
      PROVE  OfLane(queue[l][k], l)'
  BY <1>2, <1>3 DEF KernelInv, LanesApart, OfLane, Request
<1>4. ASSUME NEW l \in Lanes, ~At(l, "idle")' PROVE OfLane(ServedBy(l), l)'
  BY <1>2, <1>4 DEF KernelInv, LanesApart, OfLane, Request, At, ServedBy
<1> QED
  BY <1>3, <1>4 DEF KernelInv, KernelTypes, LanesApart

LEMMA LanesStep ==
    ASSUME KernelInv, [KernelNext]_vars
    PROVE  /\ LanesApart' /\ CallsKept /\ calls' \in Seq(CallRecords)
           /\ queue' \in [Lanes -> Seq(Nat)] /\ serving' \in [Lanes -> LaneRecords]
<1> DEFINE Goal == /\ LanesApart' /\ CallsKept /\ calls' \in Seq(CallRecords)
                   /\ queue' \in [Lanes -> Seq(Nat)] /\ serving' \in [Lanes -> LaneRecords]
<1>0. calls \in Seq(CallRecords) /\ queue \in [Lanes -> Seq(Nat)]
  BY DEF KernelInv, KernelTypes
<1>1. ASSUME UNCHANGED <<queue, serving>>, CallsKept, calls' \in Seq(CallRecords) PROVE Goal
  BY <1>0, <1>1, ServingStays
<1>2. ASSUME NEW r \in Requests, Submit(r) PROVE Goal
  BY <1>1, <1>2, CallSteps DEF Submit
<1>3. ASSUME RuntimeStep \/ UNCHANGED vars PROVE Goal
  <2>1. UNCHANGED <<calls, queue, serving>>
    BY <1>3 DEF RuntimeStep, vars, kernelVars
  <2> QED
    BY <1>0, <1>1, <2>1, CallSteps
<1>4. ASSUME NEW n \in DOMAIN calls, Send(n) PROVE Goal
  <2>1. CallsKept /\ calls' \in Seq(CallRecords) /\ UNCHANGED serving
    BY <1>4, CallSteps DEF Send
  <2> DEFINE m == LaneOf(Request(n).command)
             t == Append(queue[m], n)
  <2>2. m \in Lanes /\ n \in Nat
    BY <1>0, RequestTyped
  <2>3. queue' = [queue EXCEPT ![m] = t]
    BY <1>4 DEF Send
  <2>4. OfLane(n, m)
    BY DEF OfLane
  <2> HIDE DEF m
  <2>5. /\ t \in Seq(Nat) /\ Len(t) = Len(queue[m]) + 1 /\ Len(queue[m]) \in Nat
        /\ t[Len(queue[m]) + 1] = n
        /\ \A k \in 1 .. Len(queue[m]) : t[k] = queue[m][k]
    BY <1>0, <2>2, Appended
  <2> HIDE DEF t
  <2>6. /\ queue' \in [Lanes -> Seq(Nat)] /\ queue'[m] = t
        /\ \A l \in Lanes \ {m} : queue'[l] = queue[l]
    BY <1>0, <2>2, <2>3, <2>5
  <2>7. ASSUME NEW k \in DOMAIN t
        PROVE  (\E j \in DOMAIN queue[m] : t[k] = queue[m][j]) \/ OfLane(t[k], m)
    <3>1. k \in 1 .. Len(queue[m]) \/ k = Len(queue[m]) + 1
      BY <2>5, <2>7
    <3>2. DOMAIN queue[m] = 1 .. Len(queue[m])
      BY <1>0, <2>2
    <3>3. CASE k \in 1 .. Len(queue[m])
      BY <2>5, <3>2, <3>3
    <3>4. CASE k = Len(queue[m]) + 1
      BY <2>4, <2>5, <3>4
    <3> QED
      BY <3>1, <3>3, <3>4
  <2>8. \A l \in Lanes : \A k \in DOMAIN queue'[l] :
            \/ \E j \in DOMAIN queue[l] : queue'[l][k] = queue[l][j]
            \/ OfLane(queue'[l][k], l)
    BY <2>6, <2>7
  <2> QED
    BY <2>1, <2>6, <2>8, ServingStays
<1>5. ASSUME NEW l \in Lanes, Take(l) PROVE Goal
  <2>1. CallsKept /\ calls' \in Seq(CallRecords)
    BY <1>5, CallSteps
  <2> DEFINE n == Head(queue[l])
             u == [Idle EXCEPT !.step = "lookup", !.call = n]
  <2>2. queue[l] \in Seq(Nat) /\ queue[l] # <<>>
    BY <1>0, <1>5 DEF Take
  <2>3. /\ 1 \in DOMAIN queue[l] /\ n = queue[l][1] /\ Tail(queue[l]) \in Seq(Nat)
        /\ \A k \in DOMAIN Tail(queue[l]) :
               k + 1 \in DOMAIN queue[l] /\ Tail(queue[l])[k] = queue[l][k + 1]
    BY <2>2
  <2>4. OfLane(n, l) /\ n \in Nat
    BY <2>2, <2>3 DEF KernelInv, LanesApart
  <2>5. serving' = [serving EXCEPT ![l] = u] /\ queue' = [queue EXCEPT ![l] = Tail(queue[l])]
    BY <1>5 DEF Take
  <2> HIDE DEF n
  <2>6. u \in LaneRecords /\ u.call = n /\ u.step = "lookup"
    BY <2>4 DEF Idle, LaneRecords, Steps, Results
  <2> HIDE DEF u
  <2>7. /\ queue' \in [Lanes -> Seq(Nat)] /\ queue'[l] = Tail(queue[l])
        /\ \A k \in Lanes \ {l} : queue'[k] = queue[k]
    BY <1>0, <2>3, <2>5
  <2>8. /\ serving' \in [Lanes -> LaneRecords] /\ serving'[l] = u
        /\ \A k \in Lanes \ {l} : serving'[k] = serving[k]
    BY <2>5, <2>6 DEF KernelInv, KernelTypes
  <2>9. ASSUME NEW m, NEW k, OfLane(m, k)
        PROVE  m \in DOMAIN calls' /\ LaneOf(calls'[m].request.command) = k
    BY <2>1, <2>9 DEF OfLane, CallsKept, Request
  <2>10. ASSUME NEW k \in Lanes, NEW i \in DOMAIN queue'[k] PROVE OfLane(queue'[k][i], k)
    <3>1. CASE k = l
      <4>1. i \in DOMAIN Tail(queue[l])
        BY <2>7, <2>10, <3>1
      <4>2. queue'[k][i] = queue[l][i + 1] /\ i + 1 \in DOMAIN queue[l]
        BY <2>3, <2>7, <3>1, <4>1
      <4> QED
        BY <3>1, <4>2 DEF KernelInv, LanesApart
    <3>2. CASE k # l
      BY <2>7, <2>10, <3>2 DEF KernelInv, LanesApart
    <3> QED
      BY <3>1, <3>2
  <2>11. ASSUME NEW k \in Lanes, serving'[k].step # "idle" PROVE OfLane(serving'[k].call, k)
    BY <2>4, <2>6, <2>8, <2>11 DEF KernelInv, LanesApart, At, ServedBy
  <2>12. LanesApart'
    BY <2>9, <2>10, <2>11 DEF LanesApart, OfLane, Request, At, ServedBy
  <2> QED
    BY <2>1, <2>7, <2>8, <2>12
<1>6. ASSUME NEW l \in Lanes, Lookup(l) \/ Middle(l) \/ Reply(l) PROVE Goal
  <2>1. \E u : LaneChange(l, u)
    BY <1>6, LaneSteps DEF Lookup, Middle
  <2>2. CallsKept /\ calls' \in Seq(CallRecords)
    <3>1. Middle(l) => UNCHANGED calls
      BY DEF Middle, Authorize, Reconcile, Record, Emit, Cache
    <3> QED
      BY <1>0, <1>6, <3>1, CallSteps
  <2>3. UNCHANGED queue /\ ~At(l, "idle")
    BY <1>6 DEF Middle, Lookup, Authorize, Reconcile, Record, Emit, Cache, Reply, At
  <2>4. LanesApart' /\ serving' \in [Lanes -> LaneRecords]
    BY <2>1, <2>2, <2>3, LaneMoves DEF LaneChange
  <2> QED
    BY <1>0, <2>2, <2>3, <2>4
<1> HIDE DEF Goal
<1>7. Goal
  BY <1>2, <1>3, <1>4, <1>5, <1>6 DEF KernelNext, Bookkeeping, Middle
<1> QED
  BY <1>7 DEF Goal

LEMMA KernelInvInit == Init => KernelInv
<1> SUFFICES ASSUME Init PROVE KernelInv
  OBVIOUS
<1>1. Idle \in LaneRecords /\ Idle.step = "idle"
  BY DEF Idle, LaneRecords, Steps
<1>2. \A l \in Lanes : At(l, "idle") /\ queue[l] = <<>>
  BY <1>1 DEF Init, KernelInit, At
<1> QED
  BY <1>1, <1>2 DEF Init, LSInit, KernelInit, KernelInv, KernelTypes, LanesApart

LEMMA KernelInvStep == KernelInv /\ [KernelNext]_vars => KernelInv' /\ CallsKept
<1> SUFFICES ASSUME KernelInv, [KernelNext]_vars PROVE KernelInv' /\ CallsKept
  OBVIOUS
<1>1. KernelTypes'
  BY LanesStep, TypedSteps DEF KernelTypes
<1> QED
  BY <1>1, LanesStep DEF KernelInv

-----------------------------------------------------------------------------
(* No id a second time within the window.                                  *)

\* What a consumer serves keeps its request through every step.
LEMMA RequestStays ==
    ASSUME KernelInv, CallsKept, NEW l \in Lanes, ~At(l, "idle"),
           ServedBy(l)' = ServedBy(l)
    PROVE  Request(ServedBy(l))' = Request(ServedBy(l)) /\ IdServed(l)' = IdServed(l)
BY DEF KernelInv, LanesApart, OfLane, CallsKept, Request, IdServed, ServedBy

\* Which steps touch the window, and what they leave alone.
LEMMA WindowSteps ==
    ASSUME [KernelNext]_vars
    PROVE  (\E l \in Lanes : Cache(l)) \/ UNCHANGED <<dedupe, order, ran>>
BY DEF KernelNext, Bookkeeping, Submit, Send, Take, Lookup, Authorize, Reconcile, Record,
       Emit, Reply, RuntimeStep, vars, kernelVars

LEMMA CacheStep ==
    ASSUME KernelInv, NEW l \in Lanes, Cache(l), NEW id, id = IdServed(l),
           NEW ids, ids = Append(order, id)
    PROVE  /\ order' = IF Len(ids) > Window THEN Tail(ids) ELSE ids
           /\ DOMAIN dedupe' = (DOMAIN dedupe \cup {id}) \
                                   (IF Len(ids) > Window THEN {Head(ids)} ELSE {})
           /\ \A i \in DOMAIN dedupe' : i # id => dedupe'[i] = dedupe[i]
           /\ id \in DOMAIN dedupe' =>
                  /\ dedupe'[id].request = Request(ServedBy(l))
                  /\ dedupe'[id].result = serving[l].result
           /\ ran' = Append(ran, Request(ServedBy(l)))
           /\ UNCHANGED calls
           /\ serving[l].step = "cache" /\ ~At(l, "idle")
BY DEF Cache, Evict, IdServed, At

LEMMA OneLaneMoves ==
    ASSUME KernelInv, [KernelNext]_vars
    PROVE  \/ UNCHANGED serving
           \/ \E l \in Lanes :
                  /\ Bookkeeping(l) \/ Reconcile(l)
                  /\ \A k \in Lanes \ {l} : serving'[k] = serving[k]
                  /\ Take(l) => serving'[l].step = "lookup"
                  /\ ~Take(l) => \E u : LaneChange(l, u) /\ serving'[l] = u
<1>1. serving \in [Lanes -> LaneRecords]
  BY DEF KernelInv, KernelTypes
<1>2. ASSUME NEW l \in Lanes, NEW u, LaneChange(l, u)
      PROVE  serving'[l] = u /\ \A k \in Lanes \ {l} : serving'[k] = serving[k]
  BY <1>1, <1>2 DEF LaneChange
<1>3. ASSUME NEW l \in Lanes, Take(l)
      PROVE  /\ serving'[l].step = "lookup"
             /\ \A k \in Lanes \ {l} : serving'[k] = serving[k]
  <2> DEFINE n == Head(queue[l])
             u == [Idle EXCEPT !.step = "lookup", !.call = n]
  <2>1. serving' = [serving EXCEPT ![l] = u]
    BY <1>3 DEF Take
  <2> HIDE DEF n
  <2>2. u.step = "lookup"
    BY DEF Idle
  <2> HIDE DEF u
  <2> QED
    BY <1>1, <2>1, <2>2
<1>4. ASSUME NEW l \in Lanes, Bookkeeping(l) \/ Reconcile(l), ~Take(l)
      PROVE  \E u : LaneChange(l, u)
  BY <1>4, LaneSteps DEF Bookkeeping
<1>5. \/ UNCHANGED serving
      \/ \E l \in Lanes : Bookkeeping(l) \/ Reconcile(l)
  BY DEF KernelNext, Submit, Send, RuntimeStep, vars, kernelVars
<1>6. ASSUME NEW l \in Lanes, Bookkeeping(l) \/ Reconcile(l)
      PROVE  /\ \A k \in Lanes \ {l} : serving'[k] = serving[k]
             /\ Take(l) => serving'[l].step = "lookup"
             /\ ~Take(l) => \E u : LaneChange(l, u) /\ serving'[l] = u
  BY <1>2, <1>3, <1>4, <1>6
<1> QED
  BY <1>5, <1>6

\* A command that is being processed is of an id that the window lacks: the
\* other consumer never adds an id of this one.
LEMMA FlightStep ==
    ASSUME NoSharedIds, KernelInv, FlightFresh, [KernelNext]_vars
    PROVE  FlightFresh'
<1>1. CallsKept /\ serving \in [Lanes -> LaneRecords]
  BY KernelInvStep DEF KernelInv, KernelTypes
<1>2. ASSUME NEW k \in Lanes, serving'[k] = serving[k], serving'[k].step \in InFlight
      PROVE  IdServed(k)' \notin DOMAIN dedupe'
  <2>1. ~At(k, "idle") /\ IdServed(k) \notin DOMAIN dedupe
    BY <1>2 DEF At, InFlight, FlightFresh
  <2>2. IdServed(k)' = IdServed(k)
    BY <1>1, <1>2, <2>1, RequestStays DEF ServedBy
  <2>3. CASE UNCHANGED dedupe
    BY <2>1, <2>2, <2>3
  <2>4. ASSUME NEW l \in Lanes, Cache(l) PROVE IdServed(k)' \notin DOMAIN dedupe'
    <3>1. k # l
      <4>1. \E u : LaneChange(l, u) /\ u.step = "reply"
        BY <2>4, LaneSteps
      <4>2. serving'[l].step = "reply"
        BY <1>1, <4>1 DEF LaneChange
      <4> QED
        BY <1>2, <4>2 DEF InFlight
    <3>2. ~At(l, "idle") /\ DOMAIN dedupe' \subseteq DOMAIN dedupe \cup {IdServed(l)}
      BY <2>4 DEF Cache, IdServed, At
    <3>3. OfLane(ServedBy(l), l) /\ OfLane(ServedBy(k), k)
      BY <2>1, <3>2 DEF KernelInv, LanesApart
    <3>4. Request(ServedBy(l)) \in Requests /\ Request(ServedBy(k)) \in Requests
      BY <2>1, <3>2, RequestTyped
    <3>5. IdServed(k) # IdServed(l)
      BY <3>1, <3>3, <3>4 DEF NoSharedIds, OfLane, IdServed
    <3> QED
      BY <2>1, <2>2, <3>2, <3>5
  <2> QED
    BY <2>3, <2>4, WindowSteps
<1>3. CASE UNCHANGED serving
  BY <1>2, <1>3 DEF FlightFresh
<1>4. ASSUME NEW l \in Lanes, Bookkeeping(l) \/ Reconcile(l),
             serving'[l].step \in InFlight,
             ~Take(l), NEW u, LaneChange(l, u), serving'[l] = u
      PROVE  IdServed(l)' \notin DOMAIN dedupe'
  <2>1. serving'[l].call = ServedBy(l) /\ serving'[l].step # "idle"
    BY <1>4 DEF LaneChange, InFlight
  <2>2. ~At(l, "idle")
    BY <1>4 DEF Bookkeeping, Lookup, Authorize, Reconcile, Record, Emit, Cache, Reply, At
  <2>3. IdServed(l)' = IdServed(l)
    BY <1>1, <2>1, <2>2, RequestStays DEF ServedBy
  <2>4. ~Cache(l) /\ ~Reply(l)
    <3>1. Cache(l) => serving'[l].step = "reply"
      BY <1>1, LaneSteps DEF LaneChange
    <3>2. Reply(l) => serving'[l].step = "idle"
      BY <1>1, LaneSteps DEF LaneChange, Idle
    <3> QED
      BY <1>4, <3>1, <3>2 DEF InFlight
  <2>5. UNCHANGED dedupe
    BY <1>4, <2>4 DEF Bookkeeping, Lookup, Authorize, Reconcile, Record, Emit
  <2>6. IdServed(l) \notin DOMAIN dedupe
    <3>1. CASE Lookup(l)
      <4>1. Remembered(ServedBy(l)) => serving'[l].step = "idle"
        BY <1>1, <3>1, LaneSteps DEF LaneChange, Idle
      <4> QED
        BY <2>1, <4>1 DEF Remembered, IdServed
    <3>2. CASE Middle(l)
      BY <3>2 DEF FlightFresh, InFlight, Middle, Authorize, Reconcile, Record, Emit, Cache, At
    <3> QED
      BY <1>4, <2>4, <3>1, <3>2 DEF Bookkeeping, Middle
  <2> QED
    BY <2>3, <2>5, <2>6
<1>5. ASSUME NEW l \in Lanes, Bookkeeping(l) \/ Reconcile(l),
             \A k \in Lanes \ {l} : serving'[k] = serving[k],
             Take(l) => serving'[l].step = "lookup",
             ~Take(l) => \E u : LaneChange(l, u) /\ serving'[l] = u
      PROVE  FlightFresh'
  <2>1. serving'[l].step \in InFlight => IdServed(l)' \notin DOMAIN dedupe'
    BY <1>4, <1>5 DEF InFlight
  <2> QED
    BY <1>2, <1>5, <2>1 DEF FlightFresh
<1> QED
  BY <1>3, <1>5, OneLaneMoves

\* What Cache does to the history and the window, when the id is fresh.
LEMMA TailStep ==
    ASSUME KernelInv, WindowIsTail, OncePerWindow,
           NEW l \in Lanes, Cache(l), IdServed(l) \notin DOMAIN dedupe
    PROVE  WindowIsTail' /\ OncePerWindow'
<1> DEFINE id == IdServed(l)
           r == Request(ServedBy(l))
           N == Len(ran)
           M == Len(order)
           ids == Append(order, id)
           Full == Len(ids) > Window
<1>1. r \in Requests /\ id \in Ids /\ id = r.id
  BY RequestTyped DEF Cache, At, IdServed
<1>2. /\ N \in Nat /\ M \in Nat /\ order \in Seq(Ids) /\ ran \in Seq(Requests)
      /\ DOMAIN ran = 1 .. N
  BY DEF KernelInv, KernelTypes
<1>3. Window \in Nat /\ Window > 0
  BY BoundsAssumption
<1>4. /\ order' = IF Full THEN Tail(ids) ELSE ids
      /\ DOMAIN dedupe' = (DOMAIN dedupe \cup {id}) \ (IF Full THEN {Head(ids)} ELSE {})
      /\ ran' = Append(ran, r)
  BY CacheStep
<1>5. /\ M <= Window /\ M <= N /\ (M < Window => M = N)
      /\ \A k \in 1 .. M : order[k] = ran[N - M + k].id
      /\ DOMAIN dedupe = {order[k] : k \in 1 .. M}
  BY DEF WindowIsTail
<1>6. \A i, j \in 1 .. N : i < j /\ ran[i].id = ran[j].id => j - i > Window
  BY <1>2 DEF OncePerWindow
<1>7. id \notin DOMAIN dedupe
  OBVIOUS
<1> HIDE DEF id, r
<1>8. /\ ids \in Seq(Ids) /\ Len(ids) = M + 1 /\ Head(ids) = ids[1]
      /\ ids[M + 1] = id /\ \A k \in 1 .. M : ids[k] = order[k]
      /\ Len(Tail(ids)) = M /\ \A k \in 1 .. M : Tail(ids)[k] = ids[k + 1]
  BY <1>1, <1>2, Appended
<1>9. /\ ran' \in Seq(Requests) /\ Len(ran') = N + 1 /\ ran'[N + 1] = r
      /\ DOMAIN ran' = 1 .. N + 1
      /\ \A k \in 1 .. N : ran'[k] = ran[k]
  BY <1>1, <1>2, <1>4, Appended
<1> HIDE DEF N, M, ids, Full
<1>10. OncePerWindow'
  <2>1. ASSUME NEW i \in 1 .. N, ran[i].id = id PROVE N + 1 - i > Window
    <3>1. ASSUME i > N - M PROVE FALSE
      <4>1. i - (N - M) \in 1 .. M /\ N - M + (i - (N - M)) = i
        BY <1>2, <1>5, <3>1
      <4>2. order[i - (N - M)] = id
        BY <1>5, <2>1, <4>1
      <4> QED
        BY <1>5, <1>7, <4>1, <4>2
    <3> QED
      BY <1>2, <1>3, <1>5, <3>1
  <2>2. ASSUME NEW i \in 1 .. N + 1, NEW j \in 1 .. N + 1, i < j, ran'[i].id = ran'[j].id
        PROVE  j - i > Window
    <3>1. CASE j \in 1 .. N
      <4>1. i \in 1 .. N
        BY <1>2, <2>2, <3>1
      <4> QED
        BY <1>6, <1>9, <2>2, <3>1, <4>1
    <3>2. CASE j = N + 1
      <4>1. i \in 1 .. N
        BY <1>2, <2>2, <3>2
      <4>2. ran[i].id = id
        BY <1>1, <1>9, <2>2, <3>2, <4>1
      <4> QED
        BY <1>2, <2>1, <3>2, <4>1, <4>2
    <3> QED
      BY <1>2, <3>1, <3>2
  <2> QED
    BY <1>9, <2>2 DEF OncePerWindow
\* The end of the history, one request later.
<1>11. \A k \in 1 .. M + 1 : ids[k] = ran'[N - M + k].id
  <2> SUFFICES ASSUME NEW k \in 1 .. M + 1 PROVE ids[k] = ran'[N - M + k].id
    OBVIOUS
  <2>1. CASE k \in 1 .. M
    <3>1. N - M + k \in 1 .. N
      BY <1>2, <1>5, <2>1
    <3> QED
      BY <1>5, <1>8, <1>9, <2>1, <3>1
  <2>2. CASE k = M + 1
    <3>1. N - M + k = N + 1
      BY <1>2, <2>2
    <3> QED
      BY <1>1, <1>8, <1>9, <2>2, <3>1
  <2> QED
    BY <1>2, <2>1, <2>2
<1>12. DOMAIN dedupe \cup {id} = {ids[k] : k \in 1 .. M + 1}
  <2>1. \A k \in 1 .. M : k \in 1 .. M + 1
    BY <1>2
  <2>2. \A k \in 1 .. M + 1 : k \in 1 .. M \/ k = M + 1
    BY <1>2
  <2>3. M + 1 \in 1 .. M + 1
    BY <1>2
  <2>4. DOMAIN dedupe \cup {id} \subseteq {ids[k] : k \in 1 .. M + 1}
    BY <1>5, <1>8, <2>1, <2>3
  <2>5. {ids[k] : k \in 1 .. M + 1} \subseteq DOMAIN dedupe \cup {id}
    BY <1>5, <1>8, <2>2
  <2> QED
    BY <2>4, <2>5
<1>13. CASE ~Full
  <2>1. order' = ids /\ DOMAIN dedupe' = DOMAIN dedupe \cup {id}
    BY <1>4, <1>13
  <2>2. M + 1 <= Window /\ M = N
    BY <1>2, <1>3, <1>5, <1>8, <1>13 DEF Full
  <2>3. /\ Len(order') <= Window /\ Len(order') <= Len(ran')
        /\ Len(order') < Window => Len(order') = Len(ran')
    BY <1>8, <1>9, <2>1, <2>2
  <2>4. \A k \in 1 .. Len(order') : order'[k] = ran'[Len(ran') - Len(order') + k].id
    <3>1. Len(order') = M + 1 /\ Len(ran') = N + 1 /\ (N + 1) - (M + 1) = N - M
      BY <1>2, <1>8, <1>9, <2>1
    <3> QED
      BY <1>11, <2>1, <3>1
  <2>5. DOMAIN dedupe' = {order'[k] : k \in 1 .. Len(order')}
    BY <1>8, <1>12, <2>1
  <2> QED
    BY <1>10, <2>3, <2>4, <2>5 DEF WindowIsTail
<1>14. CASE Full
  <2>1. order' = Tail(ids) /\ DOMAIN dedupe' = (DOMAIN dedupe \cup {id}) \ {ids[1]}
    BY <1>4, <1>8, <1>14
  <2>2. M = Window
    BY <1>2, <1>3, <1>5, <1>8, <1>14 DEF Full
  <2>3. /\ Len(order') <= Window /\ Len(order') <= Len(ran')
        /\ Len(order') < Window => Len(order') = Len(ran')
    BY <1>2, <1>3, <1>5, <1>8, <1>9, <2>1, <2>2
  <2>4. \A k \in 1 .. Len(order') : order'[k] = ran'[Len(ran') - Len(order') + k].id
    <3> SUFFICES ASSUME NEW k \in 1 .. M
                 PROVE  Tail(ids)[k] = ran'[(N + 1) - M + k].id
      BY <1>8, <1>9, <2>1
    <3>1. k + 1 \in 1 .. M + 1 /\ N - M + (k + 1) = (N + 1) - M + k
      BY <1>2
    <3>2. ids[k + 1] = ran'[N - M + (k + 1)].id
      BY <1>11, <3>1
    <3> QED
      BY <1>8, <3>1, <3>2
  <2>5. \A k \in 2 .. M + 1 : ids[k] # ids[1]
    <3> SUFFICES ASSUME NEW k \in 2 .. M + 1, ids[k] = ids[1] PROVE FALSE
      OBVIOUS
    <3>1. /\ N - M + 1 \in 1 .. N + 1 /\ N - M + k \in 1 .. N + 1
          /\ N - M + 1 < N - M + k /\ 1 \in 1 .. M + 1 /\ k \in 1 .. M + 1
          /\ (N - M + k) - (N - M + 1) <= Window
      BY <1>2, <1>3, <1>5, <2>2
    <3>2. ran'[N - M + 1].id = ran'[N - M + k].id
      BY <1>11, <3>1
    <3>3. \A i, j \in 1 .. N + 1 : i < j /\ ran'[i].id = ran'[j].id => j - i > Window
      BY <1>9, <1>10 DEF OncePerWindow
    <3>4. (N - M + k) - (N - M + 1) > Window
      BY <3>1, <3>2, <3>3
    <3> QED
      BY <1>2, <1>3, <3>1, <3>4
  <2>6. DOMAIN dedupe' = {order'[k] : k \in 1 .. Len(order')}
    <3>1. \A k \in 1 .. M : order'[k] = ids[k + 1] /\ k + 1 \in 2 .. M + 1 /\ k + 1 \in 1 .. M + 1
      BY <1>2, <1>8, <2>1
    <3>2. \A k \in 1 .. M + 1 : k = 1 \/ (k \in 2 .. M + 1 /\ k - 1 \in 1 .. M
                                           /\ (k - 1) + 1 = k)
      BY <1>2
    <3>3. \A k \in 1 .. M : order'[k] \in DOMAIN dedupe'
      BY <1>12, <2>1, <2>5, <3>1
    <3>4. ASSUME NEW i \in DOMAIN dedupe' PROVE \E k \in 1 .. M : i = order'[k]
      <4>1. PICK k \in 1 .. M + 1 : i = ids[k] /\ k # 1
        BY <1>12, <2>1, <3>4
      <4>2. k - 1 \in 1 .. M /\ order'[k - 1] = ids[k]
        BY <3>1, <3>2, <4>1
      <4> QED
        BY <4>1, <4>2
    <3>5. Len(order') = M
      BY <1>8, <2>1
    <3> QED
      BY <3>3, <3>4, <3>5
  <2> QED
    BY <1>10, <2>3, <2>4, <2>6 DEF WindowIsTail
<1> QED
  BY <1>10, <1>13, <1>14

LEMMA WindowInvInit == Init => WindowInv
<1> SUFFICES ASSUME Init PROVE WindowInv
  OBVIOUS
<1>1. KernelInv
  BY KernelInvInit
<1>2. \A l \in Lanes : serving[l].step = "idle"
  BY DEF Init, KernelInit, Idle
<1>3. FlightFresh
  BY <1>2 DEF FlightFresh, InFlight
<1>4. WindowIsTail /\ OncePerWindow
  BY BoundsAssumption DEF Init, KernelInit, WindowIsTail, OncePerWindow
<1> QED
  BY <1>1, <1>3, <1>4 DEF WindowInv

LEMMA WindowInvStep ==
    ASSUME NoSharedIds, WindowInv, [KernelNext]_vars
    PROVE  WindowInv'
<1>1. KernelInv /\ FlightFresh /\ WindowIsTail /\ OncePerWindow
  BY DEF WindowInv
<1>2. KernelInv' /\ FlightFresh'
  BY <1>1, KernelInvStep, FlightStep
<1>3. ASSUME NEW l \in Lanes, Cache(l) PROVE WindowIsTail' /\ OncePerWindow'
  <2>1. IdServed(l) \notin DOMAIN dedupe
    BY <1>1, <1>3 DEF FlightFresh, InFlight, Cache, At
  <2> QED
    BY <1>1, <1>3, <2>1, TailStep
<1>4. CASE UNCHANGED <<dedupe, order, ran>>
  <2>1. order' = order /\ dedupe' = dedupe /\ ran' = ran
    BY <1>4
  <2>2. WindowIsTail'
    BY <1>1, <2>1 DEF WindowIsTail
  <2>3. OncePerWindow'
    BY <1>1, <2>1 DEF OncePerWindow
  <2> QED
    BY <1>2, <2>2, <2>3 DEF WindowInv
<1> QED
  BY <1>2, <1>3, <1>4, WindowSteps DEF WindowInv

\* OncePerWindow of every kernel whose callers never share an id between the
\* two lanes: a double click, a resend or a reused id runs nothing a second
\* time before Window other requests have been processed.
THEOREM KernelOncePerWindow ==
    ASSUME NoSharedIds PROVE Spec => []OncePerWindow
<1>1. Init => WindowInv
  BY WindowInvInit
<1>2. WindowInv /\ [KernelNext]_vars => WindowInv'
  BY WindowInvStep
<1>3. WindowInv => OncePerWindow
  BY DEF WindowInv
<1> QED
  BY <1>1, <1>2, <1>3, PTL DEF Spec

-----------------------------------------------------------------------------
(* One execution, one answer.                                              *)

\* What a step does to the ids processed: they occur for ever, and one that
\* is processed again is no longer unique.
LEMMA HistoryStep ==
    ASSUME KernelInv, [KernelNext]_vars
    PROVE  /\ \A i : Occurs(i) => Occurs(i)'
           /\ \A i : AtMostOnce(i)' => AtMostOnce(i)
           /\ \A l \in Lanes : \A i : Cache(l) /\ i = IdServed(l) =>
                  Occurs(i)' /\ (Occurs(i) => ~AtMostOnce(i)')
<1>1. Len(ran) \in Nat /\ DOMAIN ran = 1 .. Len(ran) /\ ran \in Seq(Requests)
  BY DEF KernelInv, KernelTypes
<1>2. ASSUME UNCHANGED ran
      PROVE  (\A i : Occurs(i) => Occurs(i)') /\ (\A i : AtMostOnce(i)' => AtMostOnce(i))
  BY <1>2 DEF Occurs, AtMostOnce
<1>3. ASSUME NEW l \in Lanes, Cache(l), NEW id, id = IdServed(l)
      PROVE  /\ \A i : Occurs(i) => Occurs(i)'
             /\ \A i : AtMostOnce(i)' => AtMostOnce(i)
             /\ Occurs(id)' /\ (Occurs(id) => ~AtMostOnce(id)')
  <2> DEFINE r == Request(ServedBy(l))
  <2>1. r \in Requests /\ r.id = id /\ ran' = Append(ran, r)
    BY <1>3, RequestTyped DEF Cache, At, IdServed
  <2> HIDE DEF r
  <2>2. /\ DOMAIN ran' = 1 .. Len(ran) + 1 /\ ran'[Len(ran) + 1] = r
        /\ \A k \in DOMAIN ran : k \in DOMAIN ran' /\ ran'[k] = ran[k] /\ k # Len(ran) + 1
        /\ Len(ran) + 1 \in DOMAIN ran'
    BY <1>1, <2>1, Appended
  <2>3. \A i : Occurs(i) => Occurs(i)'
    BY <2>2 DEF Occurs
  <2>4. \A i : AtMostOnce(i)' => AtMostOnce(i)
    BY <2>2 DEF AtMostOnce
  <2>5. Occurs(id)'
    BY <2>1, <2>2 DEF Occurs
  <2>6. Occurs(id) => ~AtMostOnce(id)'
    BY <2>1, <2>2 DEF Occurs, AtMostOnce
  <2> QED
    BY <2>3, <2>4, <2>5, <2>6
<1> QED
  BY <1>2, <1>3, WindowSteps

\* The only call a step answers.
AnswersOnly(n, a) ==
    /\ n \in DOMAIN calls /\ DOMAIN calls' = DOMAIN calls
    /\ calls'[n].at = "answered" /\ calls'[n].answer = a
    /\ \A m \in DOMAIN calls : m # n => calls'[m] = calls[m]

LEMMA AnswerSteps ==
    ASSUME KernelInv, [KernelNext]_vars
    PROVE  \/ NoneAnswered
           \/ \E l \in Lanes :
                  /\ Lookup(l) /\ Remembered(ServedBy(l)) /\ UNCHANGED <<dedupe, ran>>
                  /\ AnswersOnly(ServedBy(l), CachedAnswer(ServedBy(l)))
           \/ \E l \in Lanes :
                  /\ Reply(l) /\ UNCHANGED <<dedupe, ran>>
                  /\ AnswersOnly(ServedBy(l), serving[l].result)
<1>0. calls \in Seq(CallRecords)
  BY DEF KernelInv, KernelTypes
<1>1. ASSUME UNCHANGED calls PROVE NoneAnswered
  BY <1>0, <1>1, CallSteps
<1>2. ASSUME NEW l \in Lanes, Lookup(l), Remembered(ServedBy(l))
      PROVE  AnswersOnly(ServedBy(l), CachedAnswer(ServedBy(l)))
  <2>1. ServedBy(l) \in DOMAIN calls
    BY <1>2, RequestTyped DEF Lookup, At
  <2>2. CachedAnswer(ServedBy(l)) \in Answers \cup {"none"}
    BY <1>2 DEF KernelInv, KernelTypes, Remembered, CachedAnswer, Answers
  <2>3. Answered(ServedBy(l), CachedAnswer(ServedBy(l)))
    BY <1>2 DEF Lookup
  <2> QED
    BY <1>0, <2>1, <2>2, <2>3, AnsweredCalls DEF AnswersOnly
<1>3. ASSUME NEW l \in Lanes, Reply(l) PROVE AnswersOnly(ServedBy(l), serving[l].result)
  <2>1. ServedBy(l) \in DOMAIN calls
    BY <1>3, RequestTyped DEF Reply, At
  <2>2. serving[l].result \in Answers \cup {"none"}
    BY DEF KernelInv, KernelTypes, LaneRecords, Answers
  <2>3. Answered(ServedBy(l), serving[l].result)
    BY <1>3 DEF Reply
  <2> QED
    BY <1>0, <2>1, <2>2, <2>3, AnsweredCalls DEF AnswersOnly
<1>4. ASSUME NEW l \in Lanes, Lookup(l) PROVE UNCHANGED <<dedupe, ran>>
  BY <1>4 DEF Lookup
<1>5. ASSUME NEW l \in Lanes, Lookup(l), ~Remembered(ServedBy(l)) PROVE NoneAnswered
  BY <1>1, <1>5 DEF Lookup
<1>6. ASSUME NEW l \in Lanes, Middle(l) PROVE NoneAnswered
  BY <1>1, <1>6 DEF Middle, Authorize, Reconcile, Record, Emit, Cache
<1>7. ASSUME NEW l \in Lanes, Take(l) PROVE NoneAnswered
  BY <1>7, CallSteps
<1>8. ASSUME (\E r \in Requests : Submit(r)) \/ (\E n \in DOMAIN calls : Send(n))
      PROVE  NoneAnswered
  BY <1>8, CallSteps
<1>9. ASSUME RuntimeStep \/ UNCHANGED vars PROVE NoneAnswered
  BY <1>1, <1>9 DEF RuntimeStep, vars, kernelVars
<1>10. ASSUME NEW l \in Lanes, Reply(l) PROVE UNCHANGED <<dedupe, ran>>
  BY <1>10 DEF Reply
<1> HIDE DEF NoneAnswered
<1> QED
  BY <1>2, <1>3, <1>4, <1>5, <1>6, <1>7, <1>8, <1>9, <1>10
     DEF KernelNext, Bookkeeping, Middle

\* Who is about to reply after a step was so before, or has just cached.
LEMMA ReplySteps ==
    ASSUME KernelInv, [KernelNext]_vars, NEW l \in Lanes, Replies(l)'
    PROVE  /\ (Replies(l) /\ ~Reply(l)) \/ Cache(l)
           /\ serving'[l].result = serving[l].result /\ ServedBy(l)' = ServedBy(l)
           /\ IdServed(l)' = IdServed(l) /\ Request(ServedBy(l))' = Request(ServedBy(l))
           /\ ServedBy(l) \in DOMAIN calls
<1>1. CallsKept /\ serving \in [Lanes -> LaneRecords]
  BY KernelInvStep DEF KernelInv, KernelTypes
<1>2. serving'[l].step = "reply"
  BY DEF Replies, At
<1>3. ~Reply(l)
  BY <1>1, <1>2, LaneSteps DEF LaneChange, Idle
<1>4. CASE serving'[l] = serving[l]
  <2>1. Replies(l) /\ ~At(l, "idle") /\ ServedBy(l)' = ServedBy(l)
    BY <1>2, <1>4 DEF Replies, At, ServedBy
  <2> QED
    BY <1>1, <1>3, <1>4, <2>1, RequestStays, RequestTyped
<1>5. CASE Cache(l)
  <2>1. \E u : LaneChange(l, u) /\ u.step = "reply" /\ u.result = serving[l].result
    BY <1>5, LaneSteps
  <2>2. ServedBy(l)' = ServedBy(l) /\ serving'[l].result = serving[l].result
    BY <1>1, <2>1 DEF LaneChange, ServedBy
  <2>3. ~At(l, "idle")
    BY <1>5 DEF Cache, At
  <2> QED
    BY <1>1, <1>5, <2>2, <2>3, RequestStays, RequestTyped
<1>6. ASSUME serving'[l] # serving[l], ~Cache(l) PROVE FALSE
  <2>1. PICK k \in Lanes :
            /\ Bookkeeping(k) \/ Reconcile(k)
            /\ \A j \in Lanes \ {k} : serving'[j] = serving[j]
            /\ Take(k) => serving'[k].step = "lookup"
    BY <1>6, OneLaneMoves
  <2>2. k = l
    BY <1>6, <2>1
  <2>3. Lookup(l) \/ Authorize(l) \/ Reconcile(l) \/ Record(l) \/ Emit(l)
    BY <1>2, <1>3, <1>6, <2>1, <2>2 DEF Bookkeeping
  <2>4. \E u : /\ LaneChange(l, u)
               /\ u.step \in {"idle", "authorize", "reconcile", "record", "emit", "cache"}
    BY <2>3, LaneSteps DEF Idle
  <2> QED
    BY <1>1, <1>2, <2>4 DEF LaneChange
<1> QED
  BY <1>4, <1>5, <1>6

\* What the window holds after a step it held before, or has just got.
LEMMA RememberSteps ==
    ASSUME KernelInv, [KernelNext]_vars, NEW i \in DOMAIN dedupe'
    PROVE  \/ i \in DOMAIN dedupe /\ dedupe'[i] = dedupe[i]
           \/ \E l \in Lanes :
                  /\ Cache(l) /\ i = IdServed(l)
                  /\ dedupe'[i].request = Request(ServedBy(l))
                  /\ dedupe'[i].result = serving[l].result
<1>1. CASE UNCHANGED dedupe
  BY <1>1
<1>2. ASSUME NEW l \in Lanes, Cache(l)
      PROVE  \/ i \in DOMAIN dedupe /\ dedupe'[i] = dedupe[i]
             \/ /\ i = IdServed(l)
                /\ dedupe'[i].request = Request(ServedBy(l))
                /\ dedupe'[i].result = serving[l].result
  BY <1>2 DEF Cache, IdServed
<1> QED
  BY <1>1, <1>2, WindowSteps

LEMMA ProcessedStep ==
    ASSUME KernelInv, OnlyProcessed, [KernelNext]_vars
    PROVE  OnlyProcessed'
<1>1. CallsKept
  BY KernelInvStep
<1>2. ASSUME NEW i \in DOMAIN dedupe' PROVE Occurs(i)'
  BY HistoryStep, RememberSteps DEF OnlyProcessed
<1>3. ASSUME NEW n \in DOMAIN calls', IsAnswered(n)' PROVE Occurs(Request(n).id)'
  <2> SUFFICES n \in DOMAIN calls /\ Occurs(Request(n).id)
    <3>1. ASSUME n \in DOMAIN calls, NEW i, i = Request(n).id, Occurs(i)
          PROVE  Occurs(Request(n).id)'
      <4>1. Occurs(i)'
        BY <3>1, HistoryStep
      <4> QED
        BY <1>1, <3>1, <4>1 DEF Occurs, CallsKept, Request
    <3> QED
      BY <3>1
  <2>1. CASE NoneAnswered
    BY <1>3, <2>1 DEF NoneAnswered, IsAnswered, OnlyProcessed
  <2>2. ASSUME NEW l \in Lanes, Lookup(l), Remembered(ServedBy(l)),
               AnswersOnly(ServedBy(l), CachedAnswer(ServedBy(l)))
        PROVE  n \in DOMAIN calls /\ Occurs(Request(n).id)
    BY <1>3, <2>2 DEF AnswersOnly, IsAnswered, OnlyProcessed, Remembered
  <2>3. ASSUME NEW l \in Lanes, Reply(l), AnswersOnly(ServedBy(l), serving[l].result)
        PROVE  n \in DOMAIN calls /\ Occurs(Request(n).id)
    <3>1. Occurs(IdServed(l))
      BY <2>3 DEF Reply, Replies, OnlyProcessed
    <3> QED
      BY <1>3, <2>3, <3>1 DEF AnswersOnly, IsAnswered, OnlyProcessed, IdServed
  <2> QED
    BY <2>1, <2>2, <2>3, AnswerSteps
<1>4. ASSUME NEW l \in Lanes, Replies(l)' PROVE Occurs(IdServed(l))'
  <2>1. PICK id : id = IdServed(l)
    OBVIOUS
  <2>2. (Replies(l) \/ Cache(l)) /\ IdServed(l)' = id
    BY <1>4, <2>1, ReplySteps
  <2>3. Occurs(id)'
    BY <2>1, <2>2, HistoryStep DEF OnlyProcessed
  <2> QED
    BY <2>2, <2>3 DEF Occurs
<1> QED
  BY <1>2, <1>3, <1>4 DEF OnlyProcessed

LEMMA OneReplyStep ==
    ASSUME KernelInv, OnlyProcessed, OneReply, [KernelNext]_vars
    PROVE  OneReply'
<1> SUFFICES ASSUME NEW k \in Lanes, NEW l \in Lanes, Replies(k)', Replies(l)',
                    IdServed(k)' = IdServed(l)', AtMostOnce(IdServed(k))'
             PROVE  k = l
  BY DEF OneReply
<1>1. PICK id : id = IdServed(k)
  OBVIOUS
<1>2. /\ (Replies(k) \/ Cache(k)) /\ (Replies(l) \/ Cache(l))
      /\ IdServed(l) = id /\ IdServed(k)' = id
  BY <1>1, ReplySteps
<1>3. AtMostOnce(id)'
  BY <1>2 DEF AtMostOnce
<1>4. AtMostOnce(id) /\ ~(Cache(k) /\ Occurs(id)) /\ ~(Cache(l) /\ Occurs(id))
  BY <1>2, <1>1, <1>3, HistoryStep
<1>5. Replies(k) \/ Replies(l) => Occurs(id)
  BY <1>2, <1>1 DEF OnlyProcessed
<1>6. CASE Replies(k) /\ Replies(l)
  BY <1>2, <1>1, <1>4, <1>6 DEF OneReply
<1>7. CASE Cache(k) /\ Cache(l)
  <2>1. \E u : LaneChange(k, u)
    BY <1>7, LaneSteps
  <2>2. serving[l].step = "cache" /\ serving'[l].step = "reply"
    BY <1>7 DEF Cache, At, Replies
  <2> QED
    BY <2>1, <2>2 DEF LaneChange, KernelInv, KernelTypes
<1> QED
  BY <1>2, <1>4, <1>5, <1>6, <1>7

LEMMA AnswersStep ==
    ASSUME KernelInv, OnlyProcessed, OneReply, AnswersTrue, [KernelNext]_vars
    PROVE  AnswersTrue'
<1>1. CallsKept
  BY KernelInvStep
\* The answers, with the request and its id named before the step.
<1>2. ASSUME NEW n \in DOMAIN calls', IsAnswered(n)', NEW id, id = Request(n)'.id,
             AtMostOnce(id)'
      PROVE  /\ n \in DOMAIN calls /\ Request(n)' = Request(n) /\ id = Request(n).id
             /\ AtMostOnce(id)
             /\ \/ IsAnswered(n) /\ calls'[n].answer = calls[n].answer
                \/ /\ UNCHANGED dedupe /\ Remembered(n)
                   /\ calls'[n].answer = CachedAnswer(n)
                   /\ \A l \in Lanes : ~Cache(l)
                \/ /\ UNCHANGED dedupe /\ \A l \in Lanes : ~Cache(l)
                   /\ \E l \in Lanes : /\ Reply(l) /\ n = ServedBy(l)
                                       /\ calls'[n].answer = serving[l].result
  <2>1. AtMostOnce(id)
    BY <1>2, HistoryStep
  <2>2. CASE NoneAnswered
    BY <1>1, <1>2, <2>1, <2>2 DEF NoneAnswered, IsAnswered, CallsKept, Request
  <2>3. ASSUME NEW k \in Lanes, UNCHANGED ran PROVE ~Cache(k)
    <3>1. Cache(k) => ran' = Append(ran, Request(ServedBy(k)))
                      /\ Request(ServedBy(k)) \in Requests
      BY RequestTyped DEF Cache, At
    <3>2. ran \in Seq(Requests)
      BY DEF KernelInv, KernelTypes
    <3>3. Cache(k) => Len(ran') = Len(ran) + 1 /\ Len(ran) \in Nat
      BY <3>1, <3>2, Appended
    <3> QED
      BY <2>3, <3>3
  <2>4. ASSUME NEW k, AnswersOnly(k, calls'[k].answer)
        PROVE  /\ n \in DOMAIN calls /\ Request(n)' = Request(n)
               /\ n # k => IsAnswered(n) /\ calls'[n].answer = calls[n].answer
    BY <1>1, <1>2, <2>4 DEF AnswersOnly, IsAnswered, CallsKept, Request
  <2>5. ASSUME NEW l \in Lanes, Lookup(l), Remembered(ServedBy(l)),
               UNCHANGED <<dedupe, ran>>,
               AnswersOnly(ServedBy(l), CachedAnswer(ServedBy(l)))
        PROVE  /\ n \in DOMAIN calls /\ Request(n)' = Request(n)
               /\ \/ IsAnswered(n) /\ calls'[n].answer = calls[n].answer
                  \/ /\ UNCHANGED dedupe /\ Remembered(n)
                     /\ calls'[n].answer = CachedAnswer(n)
                     /\ \A k \in Lanes : ~Cache(k)
    BY <2>3, <2>4, <2>5 DEF AnswersOnly
  <2>6. ASSUME NEW l \in Lanes, Reply(l), UNCHANGED <<dedupe, ran>>,
               AnswersOnly(ServedBy(l), serving[l].result)
        PROVE  /\ n \in DOMAIN calls /\ Request(n)' = Request(n)
               /\ \/ IsAnswered(n) /\ calls'[n].answer = calls[n].answer
                  \/ /\ UNCHANGED dedupe /\ \A k \in Lanes : ~Cache(k)
                     /\ Reply(l) /\ n = ServedBy(l)
                     /\ calls'[n].answer = serving[l].result
    BY <2>3, <2>4, <2>6 DEF AnswersOnly
  <2> QED
    BY <1>2, <2>1, <2>2, <2>5, <2>6, AnswerSteps
\* A call with an answer and an execution that ends would be two executions.
<1>3. ASSUME NEW n \in DOMAIN calls, IsAnswered(n), NEW id, id = Request(n).id,
             AtMostOnce(id)', NEW l \in Lanes, Cache(l), id = IdServed(l)
      PROVE  FALSE
  BY <1>3, HistoryStep DEF OnlyProcessed
<1>4. ASSUME NEW n \in DOMAIN calls', IsAnswered(n)', NEW id, id = Request(n)'.id,
             AtMostOnce(id)', id \in DOMAIN dedupe'
      PROVE  calls'[n].answer =
                 IF dedupe'[id].request = Request(n)' THEN dedupe'[id].result ELSE "reused"
  <2>1. n \in DOMAIN calls /\ Request(n)' = Request(n) /\ id = Request(n).id /\ AtMostOnce(id)
    BY <1>2, <1>4
  <2>2. ASSUME NEW l \in Lanes, Cache(l), id = IdServed(l) PROVE FALSE
    <3>1. IsAnswered(n)
      BY <1>2, <1>4, <2>2
    <3> QED
      BY <1>3, <1>4, <2>1, <2>2, <3>1
  <2>3. id \in DOMAIN dedupe /\ dedupe'[id] = dedupe[id]
    BY <1>4, <2>2, RememberSteps
  <2>4. Remembered(n)
    BY <2>1, <2>3 DEF Remembered
  <2>5. calls'[n].answer = CachedAnswer(n)
    <3>1. CASE IsAnswered(n) /\ calls'[n].answer = calls[n].answer
      BY <2>1, <2>4, <3>1 DEF AnswersTrue
    <3>2. ASSUME NEW l \in Lanes, Reply(l), n = ServedBy(l),
                 calls'[n].answer = serving[l].result
          PROVE  calls'[n].answer = CachedAnswer(n)
      <4>1. Replies(l) /\ IdServed(l) = id
        BY <2>1, <3>2 DEF Reply, Replies, IdServed
      <4>2. dedupe[id].request = Request(n) /\ dedupe[id].result = serving[l].result
        BY <2>1, <2>3, <3>2, <4>1 DEF AnswersTrue
      <4> QED
        BY <2>1, <3>2, <4>2 DEF CachedAnswer
    <3> QED
      BY <1>2, <1>4, <3>1, <3>2
  <2> QED
    BY <2>1, <2>3, <2>5 DEF CachedAnswer
<1>5. ASSUME NEW n \in DOMAIN calls', IsAnswered(n)', NEW id, id = Request(n)'.id,
             AtMostOnce(id)', NEW l \in Lanes, Replies(l)', IdServed(l)' = id
      PROVE  calls'[n].answer = AnswerFrom(n, Request(ServedBy(l)), serving[l].result)'
  <2>1. n \in DOMAIN calls /\ Request(n)' = Request(n) /\ id = Request(n).id /\ AtMostOnce(id)
    BY <1>2, <1>5
  <2>2. /\ (Replies(l) /\ ~Reply(l)) \/ Cache(l)
        /\ serving'[l].result = serving[l].result /\ IdServed(l) = id
        /\ Request(ServedBy(l))' = Request(ServedBy(l))
    BY <1>5, ReplySteps
  <2>3. Replies(l) /\ ~Reply(l)
    BY <1>2, <1>3, <1>5, <2>1, <2>2
  <2>4. calls'[n].answer = AnswerFrom(n, Request(ServedBy(l)), serving[l].result)
    <3>1. CASE IsAnswered(n) /\ calls'[n].answer = calls[n].answer
      BY <2>1, <2>2, <2>3, <3>1 DEF AnswersTrue
    <3>2. CASE Remembered(n) /\ calls'[n].answer = CachedAnswer(n)
      <4>1. /\ id \in DOMAIN dedupe
            /\ dedupe[id].request = Request(ServedBy(l))
            /\ dedupe[id].result = serving[l].result
        BY <2>1, <2>2, <2>3, <3>2 DEF AnswersTrue, Remembered
      <4> QED
        BY <2>1, <3>2, <4>1 DEF CachedAnswer, AnswerFrom
    <3>3. ASSUME NEW k \in Lanes, Reply(k), n = ServedBy(k) PROVE FALSE
      <4>1. Replies(k) /\ IdServed(k) = id
        BY <2>1, <3>3 DEF Reply, Replies, IdServed
      <4> QED
        BY <2>1, <2>2, <2>3, <3>3, <4>1 DEF OneReply
    <3> QED
      BY <1>2, <1>5, <3>1, <3>2, <3>3
  <2> QED
    BY <2>1, <2>2, <2>4 DEF AnswerFrom
<1>6. ASSUME NEW l \in Lanes, Replies(l)', NEW id, id = IdServed(l)', AtMostOnce(id)',
             id \in DOMAIN dedupe'
      PROVE  /\ dedupe'[id].request = Request(ServedBy(l))'
             /\ dedupe'[id].result = serving'[l].result
  <2>1. /\ Replies(l) \/ Cache(l)
        /\ serving'[l].result = serving[l].result /\ IdServed(l) = id
        /\ Request(ServedBy(l))' = Request(ServedBy(l))
    BY <1>6, ReplySteps
  <2>2. CASE Cache(l)
    BY <1>6, <2>1, <2>2, CacheStep
  <2>3. CASE Replies(l)
    <3>1. Occurs(id) /\ AtMostOnce(id)
      BY <1>6, <2>1, <2>3, HistoryStep DEF OnlyProcessed
    <3>2. \A k \in Lanes : ~(Cache(k) /\ id = IdServed(k))
      BY <1>6, <3>1, HistoryStep
    <3>3. id \in DOMAIN dedupe /\ dedupe'[id] = dedupe[id]
      BY <1>6, <3>2, RememberSteps
    <3> QED
      BY <2>1, <2>3, <3>1, <3>3 DEF AnswersTrue
  <2> QED
    BY <2>1, <2>2, <2>3
<1>7. \A n, i : (AtMostOnce(Request(n).id)' /\ i = Request(n)'.id) => AtMostOnce(i)'
  BY DEF AtMostOnce
<1>8. \A l, i : (AtMostOnce(IdServed(l))' /\ i = IdServed(l)') => AtMostOnce(i)'
  BY DEF AtMostOnce
<1>9. ASSUME NEW n \in DOMAIN calls', IsAnswered(n)', AtMostOnce(Request(n).id)',
             Remembered(n)'
      PROVE  calls'[n].answer = CachedAnswer(n)'
  BY <1>4, <1>7, <1>9 DEF Remembered, CachedAnswer
<1>10. ASSUME NEW n \in DOMAIN calls', NEW l \in Lanes,
              IsAnswered(n)', AtMostOnce(Request(n).id)', Replies(l)',
              IdServed(l)' = Request(n)'.id
       PROVE  calls'[n].answer = AnswerFrom(n, Request(ServedBy(l)), serving[l].result)'
  BY <1>5, <1>7, <1>10
<1>11. ASSUME NEW l \in Lanes, Replies(l)', AtMostOnce(IdServed(l))',
              IdServed(l)' \in DOMAIN dedupe'
       PROVE  /\ dedupe'[IdServed(l)'].request = Request(ServedBy(l))'
              /\ dedupe'[IdServed(l)'].result = serving'[l].result
  BY <1>6, <1>8, <1>11
<1> QED
  BY <1>9, <1>10, <1>11 DEF AnswersTrue

LEMMA AgreeStep ==
    ASSUME KernelInv, AnswersTrue, AnswersTrue', RepeatsAgree, [KernelNext]_vars
    PROVE  RepeatsAgree'
<1>1. CallsKept
  BY KernelInvStep
<1>2. \A i : AtMostOnce(i)' => AtMostOnce(i)
  BY HistoryStep
<1>3. \A m, n \in DOMAIN calls :
          /\ Request(m) = Request(n) /\ IsAnswered(m) /\ IsAnswered(n)
          /\ AtMostOnce(Request(m).id)
          => calls[m].answer = calls[n].answer
  BY DEF RepeatsAgree, IsAnswered, AtMostOnce
<1> SUFFICES ASSUME NEW m \in DOMAIN calls', NEW n \in DOMAIN calls', NEW r, NEW id,
                    Request(m)' = r, Request(n)' = r, id = r.id,
                    IsAnswered(m)', IsAnswered(n)', AtMostOnce(id)'
             PROVE  calls'[m].answer = calls'[n].answer
  <2>1. ASSUME NEW m \in DOMAIN calls', NEW n \in DOMAIN calls',
               Request(m)' = Request(n)', calls'[m].at = "answered", calls'[n].at = "answered",
               \A i, j \in DOMAIN ran' :
                   ran'[i].id = Request(m)'.id /\ ran'[j].id = Request(m)'.id => i = j
        PROVE  calls'[m].answer = calls'[n].answer
    <3>1. IsAnswered(m)' /\ IsAnswered(n)'
      BY <2>1 DEF IsAnswered
    <3>2. PICK r, id : r = Request(m)' /\ id = r.id
      OBVIOUS
    <3>3. AtMostOnce(id)'
      BY <2>1, <3>2 DEF AtMostOnce
    <3> QED
      BY <2>1, <3>1, <3>2, <3>3
  <2> QED
    BY <2>1 DEF RepeatsAgree
<1>4. AtMostOnce(id)
  BY <1>2
<1>5. CASE NoneAnswered
  <2>1. /\ IsAnswered(m) /\ calls'[m].answer = calls[m].answer /\ Request(m) = r
        /\ IsAnswered(n) /\ calls'[n].answer = calls[n].answer /\ Request(n) = r
    BY <1>1, <1>5 DEF NoneAnswered, IsAnswered, CallsKept, Request
  <2> QED
    BY <1>3, <1>4, <2>1 DEF IsAnswered
\* The answer came out of the window: so did the other, or it could have.
<1>6. ASSUME NEW l \in Lanes, NEW k, k = ServedBy(l), Remembered(k),
             UNCHANGED <<dedupe, ran>>, AnswersOnly(k, CachedAnswer(k))
      PROVE  calls'[m].answer = calls'[n].answer
  <2>1. CASE m # k /\ n # k
    <3>1. /\ IsAnswered(m) /\ calls'[m].answer = calls[m].answer /\ Request(m) = r
          /\ IsAnswered(n) /\ calls'[n].answer = calls[n].answer /\ Request(n) = r
      BY <1>1, <1>6, <2>1 DEF AnswersOnly, IsAnswered, CallsKept, Request
    <3> QED
      BY <1>3, <1>4, <3>1 DEF IsAnswered
  <2>2. CASE m = k \/ n = k
    <3>1. Request(k)' = r /\ Request(k) = r
      BY <1>1, <1>6, <2>2 DEF AnswersOnly, CallsKept, Request
    <3>2. id \in DOMAIN dedupe'
      BY <1>6, <3>1 DEF Remembered
    <3>3. AtMostOnce(Request(m).id)' /\ AtMostOnce(Request(n).id)'
      BY DEF AtMostOnce
    <3>4. Remembered(m)' /\ Remembered(n)'
      BY <3>2 DEF Remembered
    <3>5. calls'[m].answer = CachedAnswer(m)' /\ calls'[n].answer = CachedAnswer(n)'
      BY <3>3, <3>4 DEF AnswersTrue
    <3> QED
      BY <3>5 DEF CachedAnswer
  <2> QED
    BY <2>1, <2>2
\* The answer is that of an execution: so was the other.
<1>7. ASSUME NEW l \in Lanes, Reply(l), NEW k, k = ServedBy(l), UNCHANGED <<dedupe, ran>>,
             AnswersOnly(k, serving[l].result)
      PROVE  calls'[m].answer = calls'[n].answer
  <2>1. ASSUME NEW j \in DOMAIN calls', IsAnswered(j)', Request(j)' = r, j # k, r = Request(k)
        PROVE  calls'[j].answer = serving[l].result
    <3>1. IsAnswered(j) /\ calls'[j].answer = calls[j].answer /\ Request(j) = r
      BY <1>1, <1>7, <2>1 DEF AnswersOnly, IsAnswered, CallsKept, Request
    <3>2. Replies(l) /\ IdServed(l) = id
      BY <1>7, <2>1 DEF Reply, Replies, IdServed
    <3>3. calls[j].answer = AnswerFrom(j, Request(k), serving[l].result)
      BY <1>4, <1>7, <2>1, <3>1, <3>2 DEF AnswersTrue, IsAnswered
    <3> QED
      BY <2>1, <3>1, <3>3 DEF AnswerFrom
  <2>2. CASE m # k /\ n # k
    <3>1. /\ IsAnswered(m) /\ calls'[m].answer = calls[m].answer /\ Request(m) = r
          /\ IsAnswered(n) /\ calls'[n].answer = calls[n].answer /\ Request(n) = r
      BY <1>1, <1>7, <2>2 DEF AnswersOnly, IsAnswered, CallsKept, Request
    <3> QED
      BY <1>3, <1>4, <3>1 DEF IsAnswered
  <2>3. ASSUME m = k \/ n = k PROVE r = Request(k) /\ calls'[k].answer = serving[l].result
    BY <1>1, <1>7, <2>3 DEF AnswersOnly, CallsKept, Request
  <2> QED
    BY <2>1, <2>2, <2>3
<1> QED
  BY <1>5, <1>6, <1>7, AnswerSteps

LEMMA AnswerInvInit == Init => AnswerInv
<1> SUFFICES ASSUME Init PROVE AnswerInv
  OBVIOUS
<1>1. KernelInv
  BY KernelInvInit
<1>2. \A l \in Lanes : ~Replies(l)
  BY DEF Init, KernelInit, Idle, Replies, At
<1>3. DOMAIN calls = {} /\ DOMAIN dedupe = {}
  BY DEF Init, KernelInit
<1> QED
  BY <1>1, <1>2, <1>3 DEF AnswerInv, OnlyProcessed, OneReply, AnswersTrue, RepeatsAgree

\* RepeatsAgree of every kernel: callers that repeat a request are told what
\* the one execution gave, although both consumers run and the window forgets.
THEOREM KernelRepeatsAgree == Spec => []RepeatsAgree
<1>1. Init => AnswerInv
  BY AnswerInvInit
<1>2. AnswerInv /\ [KernelNext]_vars => AnswerInv'
  BY KernelInvStep, ProcessedStep, OneReplyStep, AnswersStep, AgreeStep DEF AnswerInv
<1>3. AnswerInv => RepeatsAgree
  BY DEF AnswerInv
<1> QED
  BY <1>1, <1>2, <1>3, PTL DEF Spec

-----------------------------------------------------------------------------
(* The application beside the kernel.                                      *)

LEMMA UpdaterStepIsKernelStep == UpdaterNext => [KernelNext]_vars
<1> SUFFICES ASSUME UpdaterNext PROVE [KernelNext]_vars
  OBVIOUS
<1>1. \A l \in Lanes : Reconcile(l) \/ Bookkeeping(l) => KernelNext
  BY DEF KernelNext
<1>2. (\E r \in Requests : Submit(r)) \/ (\E n \in DOMAIN calls : Send(n)) \/ RuntimeStep
          => KernelNext
  BY DEF KernelNext
<1>3. \A result, afterwards : Ends(result, afterwards) => KernelNext
  BY <1>1 DEF Ends
<1>4. \A step : Continue(step) => UNCHANGED vars
  BY DEF Continue
<1>5. UpdateStep => KernelNext \/ UNCHANGED vars
  BY <1>3, <1>4 DEF UpdateStep, AdmitUpdate, BeginUpdate, CheckRelease, VerifyManifest,
     DownloadUpdate, InstallUpdate, PrepareRestart, BeginRestart, RestartWhenOver, Restart,
     Fails
<1>6. LeaveStep => UNCHANGED vars
  BY DEF LeaveStep, LeaveWhenIdle, LeaveWhenOverdue, Exit
<1>7. AskExit => UNCHANGED vars
  BY DEF AskExit
<1>8. QuitCommand => KernelNext
  BY <1>1 DEF QuitCommand
<1> QED
  BY <1>1, <1>2, <1>5, <1>6, <1>7, <1>8 DEF UpdaterNext, Running, KernelStep

\* The update, the quit command and the exit beside them do to the kernel what
\* its own commands do: what is proved of every kernel holds in the application.
THEOREM UpdaterRefinesKernel == UpdaterSpec => Spec
<1>1. UpdaterInit => Init
  BY DEF UpdaterInit
<1>2. [UpdaterNext]_updaterVars => [KernelNext]_vars
  BY UpdaterStepIsKernelStep DEF updaterVars
<1> QED
  BY <1>1, <1>2, PTL DEF UpdaterSpec, Spec

\* OncePerWindow in the application, under the same condition on the ids.
THEOREM RunsOncePerWindow ==
    ASSUME NoSharedIds PROVE UpdaterSpec => []OncePerWindow
BY UpdaterRefinesKernel, KernelOncePerWindow

\* RepeatsAgree in the application.
THEOREM RepeatsGetOneAnswer == UpdaterSpec => []RepeatsAgree
BY UpdaterRefinesKernel, KernelRepeatsAgree

-----------------------------------------------------------------------------
(* The comparison of versions.                                             *)

LEMMA LeastOf ==
    ASSUME NEW T \in SUBSET Nat, T # {}
    PROVE  /\ (CHOOSE i \in T : \A j \in T : i <= j) \in T
           /\ \A j \in T : (CHOOSE i \in T : \A k \in T : i <= k) <= j
<1> DEFINE R == OpToRel(<, Nat)
<1>1. \A x, y \in Nat : <<y, x>> \in R <=> y < x
  BY DEF OpToRel
<1>2. IsWellFoundedOn(R, Nat)
  BY NatLessThanWellFounded
<1> HIDE DEF R
<1>3. \E x \in T : \A y \in T : ~ (<<y, x>> \in R)
  <2>1. T \subseteq Nat /\ T # {}
    OBVIOUS
  <2>2. \A S : IsWellFoundedOn(S, Nat) => \E x \in T : \A y \in T : ~ (<<y, x>> \in S)
    BY <2>1, WFMin
  <2> QED
    BY <1>2, <2>2
<1>4. \E i \in T : \A j \in T : i <= j
  <2>1. PICK i \in T : \A j \in T : ~ (<<j, i>> \in R)
    BY <1>3
  <2>2. \A j \in T : j \in Nat /\ i \in Nat /\ ~(j < i)
    BY <1>1, <2>1
  <2>3. \A j \in T : i <= j
    BY <2>2
  <2> QED
    BY <2>1, <2>3
<1> QED
  BY <1>4

\* One identifier against another: a number is before a word, and each kind is
\* in its own order.
LEMMA IdentifiersCompare ==
    ASSUME NEW x \in Identifiers, NEW y \in Identifiers
    PROVE  /\ CompareIdentifiers(x, y) = 0 <=> x = y
           /\ CompareIdentifiers(x, y) = 1 <=>
                  \/ y.numeric /\ ~x.numeric
                  \/ y.numeric = x.numeric /\ y.value < x.value
<1>1. /\ x.numeric \in BOOLEAN /\ y.numeric \in BOOLEAN
      /\ x.value \in Nat /\ y.value \in Nat
      /\ x = y <=> x.numeric = y.numeric /\ x.value = y.value
  BY DEF Identifiers
<1>2. CASE x.numeric = y.numeric
  <2>1. CompareIdentifiers(x, y) = Sign(x.value, y.value)
    BY <1>2 DEF CompareIdentifiers
  <2>2. /\ Sign(x.value, y.value) = 0 <=> x.value = y.value
        /\ Sign(x.value, y.value) = 1 <=> y.value < x.value
    BY <1>1 DEF Sign
  <2> QED
    BY <1>1, <1>2, <2>1, <2>2
<1>3. CASE x.numeric # y.numeric
  <2>1. CompareIdentifiers(x, y) = IF x.numeric THEN -1 ELSE 1
    BY <1>3 DEF CompareIdentifiers
  <2> QED
    BY <1>1, <1>3, <2>1
<1> QED
  BY <1>2, <1>3

\* Two lists of identifiers of which none is empty.
LEMMA PrereleasesCompare ==
    ASSUME NEW a \in Seq(Identifiers), NEW b \in Seq(Identifiers), a # <<>>, b # <<>>
    PROVE  ComparePrerelease(a, b) = 1 <=> Before(b, a)
<1> DEFINE common == 1 .. (IF Len(a) < Len(b) THEN Len(a) ELSE Len(b))
           differs == {i \in common : CompareIdentifiers(a[i], b[i]) # 0}
           Lower(i) == \/ b[i].numeric /\ ~a[i].numeric
                       \/ b[i].numeric = a[i].numeric /\ b[i].value < a[i].value
           least == CHOOSE i \in differs : \A j \in differs : i <= j
<1>1. /\ Len(a) \in Nat /\ Len(b) \in Nat
      /\ DOMAIN a = 1 .. Len(a) /\ DOMAIN b = 1 .. Len(b)
      /\ \A i : i \in common <=> i \in DOMAIN a /\ i \in DOMAIN b
      /\ \A i \in DOMAIN a : a[i] \in Identifiers
      /\ \A i \in DOMAIN b : b[i] \in Identifiers
  OBVIOUS
<1>2. ASSUME NEW i \in common
      PROVE  /\ i \in differs <=> a[i] # b[i]
             /\ CompareIdentifiers(a[i], b[i]) = 1 <=> Lower(i)
  BY <1>1, <1>2, IdentifiersCompare
<1>3. ASSUME NEW i \in common, a[i] = b[i] PROVE ~Lower(i)
  <2>1. a[i].value \in Nat
    BY <1>1, <1>3 DEF Identifiers
  <2> QED
    BY <1>3, <2>1
<1>4. ComparePrerelease(a, b) =
          IF differs = {} THEN Sign(Len(a), Len(b)) ELSE CompareIdentifiers(a[least], b[least])
  BY DEF ComparePrerelease
<1>5. Before(b, a) <=> \E i \in DOMAIN a :
                           /\ i <= Len(b) + 1 /\ \A j \in 1 .. i - 1 : b[j] = a[j]
                           /\ i <= Len(b) => Lower(i)
  BY DEF Before
<1>6. differs \in SUBSET Nat /\ differs \subseteq common
  BY <1>1
<1> HIDE DEF differs, common, Lower, least
<1>7. CASE differs = {}
  <2>1. ComparePrerelease(a, b) = 1 <=> Len(b) < Len(a)
    BY <1>1, <1>4, <1>7 DEF Sign
  <2>2. \A i \in common : a[i] = b[i] /\ ~Lower(i)
    BY <1>2, <1>3, <1>7
  <2>3. ASSUME Len(b) < Len(a) PROVE Before(b, a)
    <3>1. /\ Len(b) + 1 \in DOMAIN a /\ Len(b) + 1 <= Len(b) + 1 /\ ~(Len(b) + 1 <= Len(b))
          /\ \A j \in 1 .. (Len(b) + 1) - 1 : j \in common
      BY <1>1, <2>3
    <3>2. \A j \in 1 .. (Len(b) + 1) - 1 : b[j] = a[j]
      BY <2>2, <3>1
    <3> QED
      BY <1>5, <3>1, <3>2
  <2>4. ASSUME Before(b, a) PROVE Len(b) < Len(a)
    <3>1. PICK i \in DOMAIN a : i <= Len(b) + 1 /\ (i <= Len(b) => Lower(i))
      BY <1>5, <2>4
    <3>2. ~(i <= Len(b))
      BY <1>1, <2>2, <3>1
    <3> QED
      BY <1>1, <3>1, <3>2
  <2> QED
    BY <2>1, <2>3, <2>4
<1>8. CASE differs # {}
  <2>1. least \in differs /\ \A j \in differs : least <= j
    BY <1>6, <1>8, LeastOf DEF least
  <2>2. least \in common /\ least \in DOMAIN a /\ least \in DOMAIN b /\ least \in Nat
    BY <1>1, <1>6, <2>1
  <2>3. ComparePrerelease(a, b) = 1 <=> Lower(least)
    BY <1>2, <1>4, <1>8, <2>2
  <2>4. \A j \in 1 .. least - 1 : b[j] = a[j]
    <3> SUFFICES ASSUME NEW j \in 1 .. least - 1 PROVE b[j] = a[j]
      OBVIOUS
    <3>1. j \in common /\ ~(least <= j)
      BY <1>1, <2>2
    <3> QED
      BY <1>2, <2>1, <3>1
  <2>5. ASSUME Lower(least) PROVE Before(b, a)
    <3>1. least <= Len(b) + 1
      BY <1>1, <2>2
    <3> QED
      BY <1>5, <2>2, <2>4, <2>5, <3>1
  <2>6. ASSUME Before(b, a) PROVE Lower(least)
    <3>1. PICK i \in DOMAIN a : /\ i <= Len(b) + 1 /\ \A j \in 1 .. i - 1 : b[j] = a[j]
                                /\ i <= Len(b) => Lower(i)
      BY <1>5, <2>6
    <3>2. i \in Nat /\ i <= least
      <4>1. i \in Nat
        BY <1>1, <3>1
      <4>2. ASSUME least < i PROVE FALSE
        <5>1. least \in 1 .. i - 1
          BY <1>1, <2>2, <4>1, <4>2
        <5>2. b[least] = a[least]
          BY <3>1, <5>1
        <5> QED
          BY <1>2, <2>1, <2>2, <5>2
      <4> QED
        BY <2>2, <4>1, <4>2
    <3>3. i <= Len(b) /\ i \in common
      BY <1>1, <2>2, <3>1, <3>2
    <3>4. a[i] # b[i]
      BY <1>3, <3>1, <3>3
    <3>5. least <= i
      BY <1>2, <2>1, <3>3, <3>4
    <3>6. i = least
      BY <2>2, <3>2, <3>5
    <3> QED
      BY <3>1, <3>3, <3>6
  <2> QED
    BY <2>3, <2>5, <2>6
<1> QED
  BY <1>7, <1>8

\* compare_versions against the precedence of semver.org, for versions of any
\* length: a version is newer exactly when the other one precedes it.
THEOREM ComparesByPrecedence ==
    ASSUME NEW a \in Versions, NEW b \in Versions
    PROVE  IsNewer(a, b) <=> Precedes(b, a)
<1> DEFINE differs == {i \in 1 .. 3 : a.core[i] # b.core[i]}
           least == CHOOSE i \in differs : \A j \in differs : i <= j
<1>1. /\ a.core \in Nat \X Nat \X Nat /\ b.core \in Nat \X Nat \X Nat
      /\ a.prerelease \in Seq(Identifiers) /\ b.prerelease \in Seq(Identifiers)
  BY DEF Versions
<1>2. /\ \A i \in 1 .. 3 : a.core[i] \in Nat /\ b.core[i] \in Nat
      /\ (\A i \in 1 .. 3 : a.core[i] = b.core[i]) <=> a.core = b.core
  BY <1>1
<1>3. CompareVersions(a, b) =
          IF differs = {} THEN ComparePrerelease(a.prerelease, b.prerelease)
          ELSE Sign(a.core[least], b.core[least])
  BY DEF CompareVersions
<1>4. differs \in SUBSET Nat /\ \A i : i \in differs <=> i \in 1 .. 3 /\ a.core[i] # b.core[i]
  OBVIOUS
<1> HIDE DEF differs, least
<1>5. CASE differs = {}
  <2>1. a.core = b.core /\ \A i \in 1 .. 3 : a.core[i] = b.core[i]
    BY <1>2, <1>4, <1>5
  <2>2. Precedes(b, a) <=> /\ b.prerelease # <<>>
                           /\ a.prerelease = <<>> \/ Before(b.prerelease, a.prerelease)
    BY <1>2, <2>1 DEF Precedes
  <2>3. IsNewer(a, b) <=> ComparePrerelease(a.prerelease, b.prerelease) = 1
    BY <1>3, <1>5 DEF IsNewer
  <2>4. CASE a.prerelease # <<>> /\ b.prerelease # <<>>
    BY <1>1, <2>2, <2>3, <2>4, PrereleasesCompare
  <2>5. CASE a.prerelease = <<>> \/ b.prerelease = <<>>
    <3>1. ComparePrerelease(a.prerelease, b.prerelease)
              = Sign(Len(b.prerelease), Len(a.prerelease))
      BY <2>5 DEF ComparePrerelease
    <3>2. /\ Len(a.prerelease) \in Nat /\ a.prerelease = <<>> <=> Len(a.prerelease) = 0
          /\ Len(b.prerelease) \in Nat /\ b.prerelease = <<>> <=> Len(b.prerelease) = 0
      BY <1>1
    <3>3. a.prerelease = <<>> => ~Before(b.prerelease, a.prerelease)
      BY DEF Before
    <3> QED
      BY <2>2, <2>3, <2>5, <3>1, <3>2, <3>3 DEF Sign
  <2> QED
    BY <2>4, <2>5
<1>6. CASE differs # {}
  <2>1. least \in differs /\ \A j \in differs : least <= j
    BY <1>4, <1>6, LeastOf DEF least
  <2>2. least \in 1 .. 3 /\ a.core[least] # b.core[least]
    BY <1>4, <2>1
  <2>3. IsNewer(a, b) <=> b.core[least] < a.core[least]
    BY <1>2, <1>3, <1>6, <2>2 DEF IsNewer, Sign
  <2>4. a.core # b.core
    BY <2>2
  <2>5. \A j \in 1 .. least - 1 : b.core[j] = a.core[j]
    <3> SUFFICES ASSUME NEW j \in 1 .. least - 1 PROVE b.core[j] = a.core[j]
      OBVIOUS
    <3>1. j \in 1 .. 3 /\ ~(least <= j)
      BY <2>2
    <3> QED
      BY <1>4, <2>1, <3>1
  <2>6. ASSUME NEW i \in 1 .. 3, b.core[i] < a.core[i],
               \A j \in 1 .. i - 1 : b.core[j] = a.core[j]
        PROVE  i = least
    <3>1. i \in differs
      BY <1>2, <1>4, <2>6
    <3>2. ~(least < i)
      BY <2>2, <2>6
    <3> QED
      BY <2>1, <2>2, <3>1, <3>2
  <2>7. Precedes(b, a) <=> \E i \in 1 .. 3 : /\ b.core[i] < a.core[i]
                                             /\ \A j \in 1 .. i - 1 : b.core[j] = a.core[j]
    BY <2>4 DEF Precedes
  <2> QED
    BY <2>2, <2>3, <2>5, <2>6, <2>7
<1> QED
  BY <1>5, <1>6

-----------------------------------------------------------------------------
(* What an update puts in place.                                           *)

LEMMA TargetStep == TargetWanted /\ [UpdaterNext]_updaterVars => TargetWanted'
<1> SUFFICES ASSUME TargetWanted, [UpdaterNext]_updaterVars PROVE TargetWanted'
  OBVIOUS
<1>1. ASSUME UNCHANGED <<target, installed>>, update' \notin Chosen \/ UNCHANGED update
      PROVE  TargetWanted'
  BY <1>1 DEF TargetWanted, Wanted
<1>2. ASSUME NEW result, NEW afterwards, Ends(result, afterwards) PROVE TargetWanted'
  <2>1. UNCHANGED <<target, installed>> /\ update' \notin Chosen
    BY <1>2 DEF Ends, Chosen
  <2> QED
    BY <1>1, <2>1
<1>3. CASE Fails
  BY <1>2, <1>3 DEF Fails
<1>4. CASE AdmitUpdate
  <2>1. update' \notin Chosen \/ Ends("failed", phase)
    BY <1>4 DEF AdmitUpdate, Continue, Chosen
  <2> QED
    BY <1>1, <1>2, <1>4, <2>1 DEF AdmitUpdate
<1>5. CASE BeginUpdate
  <2>1. update' \notin Chosen \/ Ends("failed", phase)
    BY <1>5 DEF BeginUpdate, Continue, Chosen
  <2> QED
    BY <1>1, <1>2, <1>5, <2>1 DEF BeginUpdate
<1>6. CASE CheckRelease
  <2>1. ASSUME NEW latest \in Published, latest.prerelease = <<>>, IsNewer(latest, Current),
               target' = latest, UNCHANGED installed
        PROVE  TargetWanted'
    BY <2>1 DEF TargetWanted, Wanted
  <2> QED
    BY <1>2, <1>3, <1>6, <2>1 DEF CheckRelease
<1>7. CASE VerifyManifest
  <2>1. ASSUME NEW manifest \in Published, MayInstall(manifest), target' = manifest,
               UNCHANGED installed
        PROVE  TargetWanted'
    <3>1. Wanted(target) /\ target' = target
      BY <1>7, <2>1 DEF VerifyManifest, TargetWanted, Chosen, MayInstall
    <3> QED
      BY <2>1, <3>1 DEF TargetWanted, Wanted
  <2> QED
    BY <1>3, <1>7, <2>1 DEF VerifyManifest
<1>8. CASE DownloadUpdate
  <2>1. Wanted(target)
    BY <1>8 DEF DownloadUpdate, TargetWanted, Chosen
  <2>2. CASE UNCHANGED <<target, installed>>
    BY <2>1, <2>2 DEF TargetWanted, Wanted
  <2> QED
    BY <1>3, <1>8, <2>2 DEF DownloadUpdate
<1>9. CASE InstallUpdate
  <2>1. Wanted(target)
    BY <1>9 DEF InstallUpdate, TargetWanted, Chosen
  <2>2. CASE UNCHANGED target /\ installed' = target
    BY <2>1, <2>2 DEF TargetWanted, Wanted
  <2> QED
    BY <1>3, <1>9, <2>2 DEF InstallUpdate
<1>10. CASE PrepareRestart \/ BeginRestart \/ RestartWhenOver \/ Restart
  BY <1>1, <1>10 DEF PrepareRestart, BeginRestart, RestartWhenOver, Restart, Continue, Chosen
<1>11. CASE LeaveStep \/ AskExit \/ QuitCommand
  BY <1>1, <1>11 DEF LeaveStep, LeaveWhenIdle, LeaveWhenOverdue, Exit, AskExit, QuitCommand,
                     RequestExit
<1>12. CASE UNCHANGED updateVars
  BY <1>1, <1>12 DEF updateVars
<1>13. UNCHANGED updaterVars => UNCHANGED updateVars
  BY DEF updaterVars
<1>14. UpdateStep => TargetWanted'
  BY <1>4, <1>5, <1>6, <1>7, <1>8, <1>9, <1>10 DEF UpdateStep
<1> HIDE DEF TargetWanted
<1> QED
  BY <1>11, <1>12, <1>13, <1>14 DEF UpdaterNext, Running, KernelStep

\* InstalledIsNewer for every release and every manifest, published in any
\* order: nothing but a newer stable version is ever put in place.
THEOREM OnlyNewerIsInstalled == UpdaterSpec => []InstalledIsNewer
<1>1. UpdaterInit => TargetWanted
  BY DEF UpdaterInit, TargetWanted, Chosen
<1>2. TargetWanted /\ [UpdaterNext]_updaterVars => TargetWanted'
  BY TargetStep
<1>3. TargetWanted => InstalledIsNewer
  BY ComparesByPrecedence, VersionsAssumption
     DEF TargetWanted, Wanted, InstalledIsNewer
<1> QED
  BY <1>1, <1>2, <1>3, PTL DEF UpdaterSpec

-----------------------------------------------------------------------------
(* The page that listens to the kernel.                                    *)

\* The number a consumer holds is that of its last event.
LEMMA EventStep ==
    ASSUME KernelInv, NEW l \in Lanes, Bookkeeping(l) \/ Reconcile(l)
    PROVE  /\ \A k \in Lanes \ {l} : serving'[k] = serving[k]
           /\ Record(l) => serving'[l].event = sequence + 1
           /\ ~Record(l) => serving'[l].event \in {0, serving[l].event}
<1>1. serving[l] \in LaneRecords /\ serving \in [Lanes -> LaneRecords] /\ sequence \in Nat
  BY DEF KernelInv, KernelTypes
<1>2. ASSUME NEW u, serving' = [serving EXCEPT ![l] = u]
      PROVE  serving'[l] = u /\ \A k \in Lanes \ {l} : serving'[k] = serving[k]
  BY <1>1, <1>2
<1>3. ASSUME NEW w, Proceed(l, w)
      PROVE  /\ \A k \in Lanes \ {l} : serving'[k] = serving[k]
             /\ serving'[l].event = serving[l].event
  <2> DEFINE u == [serving[l] EXCEPT !.step = w]
  <2>1. serving' = [serving EXCEPT ![l] = u]
    BY <1>1, <1>3 DEF Proceed
  <2>2. u.event = serving[l].event
    BY <1>1 DEF LaneRecords
  <2> HIDE DEF u
  <2> QED
    BY <1>2, <2>1, <2>2
<1>4. ASSUME NEW w, NEW r, serving' = [serving EXCEPT ![l].step = w, ![l].result = r]
      PROVE  /\ \A k \in Lanes \ {l} : serving'[k] = serving[k]
             /\ serving'[l].event = serving[l].event
  <2> DEFINE u == [serving[l] EXCEPT !.step = w, !.result = r]
  <2>1. serving' = [serving EXCEPT ![l] = u]
    BY <1>1, <1>4
  <2>2. u.event = serving[l].event
    BY <1>1 DEF LaneRecords
  <2> HIDE DEF u
  <2> QED
    BY <1>2, <2>1, <2>2
<1>5. ASSUME serving' = [serving EXCEPT ![l] = Idle]
      PROVE  (\A k \in Lanes \ {l} : serving'[k] = serving[k]) /\ serving'[l].event = 0
  BY <1>2, <1>5 DEF Idle
<1>6. ASSUME Take(l)
      PROVE  (\A k \in Lanes \ {l} : serving'[k] = serving[k]) /\ serving'[l].event = 0
  <2> DEFINE n == Head(queue[l])
             u == [Idle EXCEPT !.step = "lookup", !.call = n]
  <2>1. serving' = [serving EXCEPT ![l] = u]
    BY <1>6 DEF Take
  <2> HIDE DEF n
  <2>2. u.event = 0
    BY DEF Idle
  <2> HIDE DEF u
  <2> QED
    BY <1>2, <2>1, <2>2
<1>7. ASSUME Record(l)
      PROVE  /\ \A k \in Lanes \ {l} : serving'[k] = serving[k]
             /\ serving'[l].event = sequence + 1
  <2> DEFINE number == sequence + 1
             u == [serving[l] EXCEPT !.step = "emit", !.event = number]
  <2>1. serving' = [serving EXCEPT ![l].step = "emit", ![l].event = number]
    BY <1>7 DEF Record
  <2>2. number = sequence + 1
    OBVIOUS
  <2> HIDE DEF number
  <2>3. serving' = [serving EXCEPT ![l] = u]
    BY <1>1, <2>1
  <2>4. u.event = number
    BY <1>1 DEF LaneRecords
  <2> HIDE DEF u
  <2> QED
    BY <1>2, <2>2, <2>3, <2>4
<1>8. ASSUME Authorize(l)
      PROVE  /\ \A k \in Lanes \ {l} : serving'[k] = serving[k]
             /\ serving'[l].event = serving[l].event
  <2>1. \/ Proceed(l, "reconcile")
        \/ serving' = [serving EXCEPT ![l].step = "record", ![l].result = "denied"]
    BY <1>8 DEF Authorize, Proceed
  <2>2. CASE Proceed(l, "reconcile")
    BY <1>3, <2>2
  <2>3. CASE serving' = [serving EXCEPT ![l].step = "record", ![l].result = "denied"]
    BY <1>4, <2>3
  <2> QED
    BY <2>1, <2>2, <2>3
<1>9. ASSUME Reconcile(l)
      PROVE  /\ \A k \in Lanes \ {l} : serving'[k] = serving[k]
             /\ serving'[l].event = serving[l].event
  <2>1. PICK r : serving' = [serving EXCEPT ![l].step = "record", ![l].result = r]
    BY <1>9 DEF Reconcile
  <2> QED
    BY <1>4, <2>1
<1>10. ASSUME Lookup(l) \/ Emit(l) \/ Cache(l) \/ Reply(l)
       PROVE  /\ \A k \in Lanes \ {l} : serving'[k] = serving[k]
              /\ serving'[l].event \in {0, serving[l].event}
  <2>1. (\E w : Proceed(l, w)) \/ serving' = [serving EXCEPT ![l] = Idle]
    BY <1>10 DEF Lookup, Emit, Cache, Reply
  <2> QED
    BY <1>3, <1>5, <2>1
<1> QED
  BY <1>6, <1>7, <1>8, <1>9, <1>10 DEF Bookkeeping

LEMMA NumbersTyped ==
    ASSUME KernelInv, WireNumbered
    PROVE  /\ world \in Nat /\ wire \in Seq(Events) /\ sequence \in Nat
           /\ Len(wire) \in Nat /\ DOMAIN wire = 1 .. Len(wire)
           /\ \A k \in 1 .. Len(wire) : wire[k].number \in Nat /\ wire[k].number <= sequence
           /\ \A k \in Lanes : serving[k].event \in Nat /\ serving[k].event <= sequence
<1>1. world \in Nat /\ wire \in Seq(Events) /\ sequence \in Nat
  BY DEF KernelInv, KernelTypes, WireNumbered
<1>2. \A k \in 1 .. Len(wire) : wire[k].number \in Nat
  <2>1. \A k \in 1 .. Len(wire) : wire[k] \in Events
    BY <1>1
  <2> QED
    BY <2>1 DEF Events
<1>3. \A k \in Lanes : serving[k].event \in Nat
  BY DEF KernelInv, KernelTypes, LaneRecords
<1>4. Len(wire) \in Nat /\ DOMAIN wire = 1 .. Len(wire)
  BY <1>1
<1> QED
  BY <1>1, <1>2, <1>3, <1>4 DEF WireNumbered

\* The wire grows at its end only, by an event with a number already given.
LEMMA WireStep ==
    ASSUME KernelInv, WireNumbered, [KernelNext]_vars
    PROVE  /\ WireNumbered' /\ Len(wire) \in Nat /\ Len(wire') \in Nat
           /\ Len(wire) <= Len(wire')
           /\ \A k \in 1 .. Len(wire) : wire'[k] = wire[k]
<1>1. /\ world \in Nat /\ wire \in Seq(Events) /\ sequence \in Nat
      /\ Len(wire) \in Nat /\ DOMAIN wire = 1 .. Len(wire)
      /\ \A k \in 1 .. Len(wire) : wire[k].number \in Nat /\ wire[k].number <= sequence
      /\ \A k \in Lanes : serving[k].event \in Nat /\ serving[k].event <= sequence
  BY NumbersTyped
<1>2. ASSUME UNCHANGED <<sequence, world, wire, serving>>
      PROVE  /\ WireNumbered' /\ Len(wire) <= Len(wire') /\ Len(wire') \in Nat
             /\ \A k \in 1 .. Len(wire) : wire'[k] = wire[k]
  BY <1>1, <1>2 DEF WireNumbered
<1>3. ASSUME NEW l \in Lanes, Bookkeeping(l) \/ Reconcile(l)
      PROVE  /\ WireNumbered' /\ Len(wire) <= Len(wire') /\ Len(wire') \in Nat
             /\ \A k \in 1 .. Len(wire) : wire'[k] = wire[k]
  <2>1. sequence' \in Nat /\ sequence <= sequence' /\ (Record(l) => sequence' = sequence + 1)
    BY <1>1, <1>3 DEF Bookkeeping, Take, Lookup, Authorize, Reconcile, Record, Emit, Cache,
                      Reply
  <2>2. \A k \in Lanes : serving'[k].event <= sequence'
    <3> SUFFICES ASSUME NEW k \in Lanes PROVE serving'[k].event <= sequence'
      OBVIOUS
    <3>1. CASE k # l
      <4>1. serving'[k] = serving[k]
        BY <1>3, <3>1, EventStep
      <4> QED
        BY <1>1, <2>1, <4>1
    <3>2. CASE k = l /\ Record(l)
      <4>1. serving'[k].event = sequence + 1
        BY <1>3, <3>2, EventStep
      <4> QED
        BY <1>1, <2>1, <3>2, <4>1
    <3>3. CASE k = l /\ ~Record(l)
      <4>1. serving'[k].event \in {0, serving[k].event}
        BY <1>3, <3>3, EventStep
      <4> QED
        BY <1>1, <2>1, <4>1
    <3> QED
      BY <3>1, <3>2, <3>3
  <2>3. world' \in Nat
    BY <1>1, <1>3 DEF Bookkeeping, Take, Lookup, Authorize, Reconcile, Record, Emit, Cache,
                      Reply
  <2>4. CASE UNCHANGED wire
    <3>1. \A k \in 1 .. Len(wire) : wire'[k].number <= sequence'
      BY <1>1, <2>1, <2>4
    <3> QED
      BY <1>1, <2>2, <2>3, <2>4, <3>1 DEF WireNumbered
  <2>5. CASE wire' = Append(wire, [number |-> serving[l].event, world |-> world])
    <3> DEFINE e == [number |-> serving[l].event, world |-> world]
    <3>1. e \in Events /\ e.number = serving[l].event
      BY <1>1 DEF Events
    <3>2. wire' = Append(wire, e)
      BY <2>5
    <3> HIDE DEF e
    <3>3. /\ wire' \in Seq(Events) /\ Len(wire') = Len(wire) + 1
          /\ wire'[Len(wire) + 1] = e /\ \A k \in 1 .. Len(wire) : wire'[k] = wire[k]
      BY <1>1, <3>1, <3>2, Appended
    <3>4. ASSUME NEW k \in 1 .. Len(wire') PROVE wire'[k].number <= sequence'
      <4>1. k \in 1 .. Len(wire) \/ k = Len(wire) + 1
        BY <1>1, <3>3
      <4>2. CASE k \in 1 .. Len(wire)
        BY <1>1, <2>1, <3>3, <4>2
      <4>3. CASE k = Len(wire) + 1
        BY <1>1, <2>1, <3>1, <3>3, <4>3
      <4> QED
        BY <4>1, <4>2, <4>3
    <3> QED
      BY <1>1, <2>2, <2>3, <3>3, <3>4 DEF WireNumbered
  <2>6. UNCHANGED wire \/ wire' = Append(wire, [number |-> serving[l].event, world |-> world])
    BY <1>3 DEF Bookkeeping, Take, Lookup, Authorize, Reconcile, Record, Emit, Cache, Reply
  <2> QED
    BY <2>4, <2>5, <2>6
<1>4. \/ UNCHANGED <<sequence, world, wire, serving>>
      \/ \E l \in Lanes : Bookkeeping(l) \/ Reconcile(l)
  BY DEF KernelNext, Submit, Send, RuntimeStep, vars, kernelVars
<1> QED
  BY <1>1, <1>2, <1>3, <1>4

LEMMA PageInvStep == PageInv /\ [PageNext]_allVars => PageInv'
<1> SUFFICES ASSUME PageInv, [PageNext]_allVars PROVE PageInv'
  OBVIOUS
<1>1. /\ KernelInv /\ WireNumbered /\ PageTypes /\ HeardIsCovered
      /\ Len(wire) \in Nat /\ heard \in Nat /\ heard <= Len(wire)
      /\ last \in Nat /\ sequence \in Nat
      /\ \A k \in 1 .. Len(wire) : wire[k].number \in Nat /\ wire[k].number <= sequence
  <2>1. KernelInv /\ WireNumbered /\ PageTypes /\ HeardIsCovered
    BY DEF PageInv
  <2>2. /\ Len(wire) \in Nat /\ sequence \in Nat
        /\ \A k \in 1 .. Len(wire) : wire[k].number \in Nat /\ wire[k].number <= sequence
    BY <2>1, NumbersTyped
  <2> QED
    BY <2>1, <2>2 DEF PageTypes
<1>2. ASSUME [KernelNext]_vars, UNCHANGED pageVars PROVE PageInv'
  <2>1. KernelInv' /\ WireNumbered' /\ Len(wire) <= Len(wire') /\ Len(wire') \in Nat
        /\ \A k \in 1 .. Len(wire) : wire'[k] = wire[k]
    BY <1>1, <1>2, KernelInvStep, WireStep
  <2>2. PageTypes'
    BY <1>1, <1>2, <2>1 DEF PageTypes, pageVars
  <2>3. HeardIsCovered'
    <3> SUFFICES ASSUME NEW k \in 1 .. heard
                 PROVE  \/ wire[k].number <= last
                        \/ timer
                        \/ reading.at \in {"state", "number"}
                        \/ reading.at = "reply" /\ (pending \/ wire[k].number <= reading.number)
                        \/ reading.at = "no" /\ failed
      <4>1. \A k \in 1 .. heard : wire'[k] = wire[k]
        BY <1>1, <2>1
      <4> QED
        BY <1>2, <4>1 DEF HeardIsCovered, pageVars
    <3> QED
      BY <1>1 DEF HeardIsCovered
  <2> QED
    BY <2>1, <2>2, <2>3 DEF PageInv
<1>3. ASSUME PageStep \/ AskRefresh, UNCHANGED vars PROVE PageInv'
  <2>1. KernelInv' /\ WireNumbered' /\ UNCHANGED <<wire, sequence>>
    <3>1. UNCHANGED <<wire, sequence>>
      BY <1>3 DEF vars, kernelVars
    <3> QED
      BY <1>1, <1>3, <3>1, KernelInvStep, WireStep
  <2> DEFINE Covered(k) ==
                 \/ wire[k].number <= last
                 \/ timer
                 \/ reading.at \in {"state", "number"}
                 \/ reading.at = "reply" /\ (pending \/ wire[k].number <= reading.number)
                 \/ reading.at = "no" /\ failed
  <2>2. \A k \in 1 .. heard : Covered(k)
    BY <1>1 DEF HeardIsCovered
  <2>3. reading \in [at : {"no", "state", "number", "reply"}, world : Nat, number : Nat]
    BY <1>1 DEF PageTypes
  <2>4. world \in Nat
    BY <1>1 DEF WireNumbered
  <2>5. CASE Hear
    <3>1. PageTypes'
      BY <1>1, <2>1, <2>5 DEF Hear, PageTypes
    <3>2. ASSUME NEW k \in 1 .. heard' PROVE Covered(k)'
      <4>1. k \in 1 .. heard \/ k = heard + 1
        BY <1>1, <2>5, <3>2 DEF Hear
      <4>2. CASE k \in 1 .. heard
        BY <2>1, <2>2, <2>5, <4>2 DEF Hear
      <4>3. CASE k = heard + 1
        <5>1. wire[k].number \in Nat
          BY <1>1, <2>5, <4>3 DEF Hear
        <5>2. wire[k].number <= last \/ wire[k].number > last
          BY <1>1, <5>1
        <5>3. UNCHANGED last /\ (wire[k].number > last => timer')
          BY <2>5, <4>3 DEF Hear
        <5> QED
          BY <2>1, <5>2, <5>3
      <4> QED
        BY <4>1, <4>2, <4>3
    <3> QED
      BY <2>1, <3>1, <3>2 DEF PageInv, HeardIsCovered
  <2>6. CASE TimerFires \/ AskRefresh
    <3>1. /\ UNCHANGED <<heard, last>> /\ timer' \in BOOLEAN /\ failed' \in BOOLEAN
          /\ \/ reading.at # "no" /\ UNCHANGED reading /\ pending' = TRUE
             \/ reading.at = "no" /\ UNCHANGED pending
                /\ reading' = [NotReading EXCEPT !.at = "state"]
      BY <1>1, <2>6 DEF TimerFires, AskRefresh, Refresh, PageTypes
    <3>2. CASE reading.at # "no" /\ UNCHANGED reading /\ pending' = TRUE
      <4>1. PageTypes'
        BY <1>1, <2>1, <3>1, <3>2 DEF PageTypes
      <4>2. \A k \in 1 .. heard' : Covered(k)'
        BY <2>3, <3>1, <3>2
      <4> QED
        BY <2>1, <4>1, <4>2 DEF PageInv, HeardIsCovered
    <3>3. CASE reading.at = "no" /\ UNCHANGED pending
               /\ reading' = [NotReading EXCEPT !.at = "state"]
      <4>1. /\ reading'.at = "state"
            /\ reading' \in [at : {"no", "state", "number", "reply"}, world : Nat, number : Nat]
        BY <3>3 DEF NotReading
      <4>2. PageTypes'
        BY <1>1, <2>1, <3>1, <3>3, <4>1 DEF PageTypes
      <4>3. \A k \in 1 .. heard' : Covered(k)'
        BY <4>1
      <4> QED
        BY <2>1, <4>2, <4>3 DEF PageInv, HeardIsCovered
    <3> QED
      BY <3>1, <3>2, <3>3
  <2>7. CASE ReadState
    <3> DEFINE u == [reading EXCEPT !.at = "number", !.world = world]
    <3>1. /\ u \in [at : {"no", "state", "number", "reply"}, world : Nat, number : Nat]
          /\ u.at = "number"
      BY <2>3, <2>4
    <3>2. reading' = u /\ UNCHANGED <<heard, last, timer, pending, failed>>
      BY <2>7 DEF ReadState
    <3> HIDE DEF u
    <3>3. PageTypes'
      BY <1>1, <2>1, <3>1, <3>2 DEF PageTypes
    <3>4. \A k \in 1 .. heard' : Covered(k)'
      BY <3>1, <3>2
    <3> QED
      BY <2>1, <3>3, <3>4 DEF PageInv, HeardIsCovered
  <2>8. CASE ReadNumber
    <3> DEFINE u == [reading EXCEPT !.at = "reply", !.number = sequence]
    <3>1. /\ u \in [at : {"no", "state", "number", "reply"}, world : Nat, number : Nat]
          /\ u.at = "reply" /\ u.number = sequence
      BY <1>1, <2>3
    <3>2. reading' = u /\ UNCHANGED <<heard, last, timer, pending, failed>>
      BY <2>8 DEF ReadNumber
    <3> HIDE DEF u
    <3>3. PageTypes'
      BY <1>1, <2>1, <3>1, <3>2 DEF PageTypes
    <3>4. ASSUME NEW k \in 1 .. heard' PROVE Covered(k)'
      <4>1. wire[k].number <= sequence
        BY <1>1, <3>2, <3>4
      <4> QED
        BY <2>1, <3>1, <3>2, <4>1
    <3> QED
      BY <2>1, <3>3, <3>4 DEF PageInv, HeardIsCovered
  <2>9. CASE Render
    <3>1. /\ reading.at = "reply" /\ reading.number \in Nat /\ last' \in Nat
          /\ last <= last' /\ reading.number <= last'
          /\ heard' = heard /\ pending' = FALSE /\ timer' = (timer \/ pending)
          /\ reading' = NotReading /\ failed' = FALSE
      BY <1>1, <2>3, <2>9 DEF Render, ReadEnds
    <3>2. PageTypes'
      BY <1>1, <2>1, <3>1 DEF PageTypes, NotReading
    <3>3. ASSUME NEW k \in 1 .. heard' PROVE Covered(k)'
      <4>1. wire[k].number \in Nat /\ Covered(k)
        BY <1>1, <2>2, <3>1, <3>3
      <4>2. wire[k].number <= last' \/ timer \/ pending
        BY <1>1, <3>1, <4>1
      <4> QED
        BY <2>1, <3>1, <4>2
    <3> QED
      BY <2>1, <3>2, <3>3 DEF PageInv, HeardIsCovered
  <2>10. CASE ReadFails
    <3>1. /\ UNCHANGED <<heard, last>> /\ pending' = FALSE
          /\ timer' = (timer \/ pending) /\ failed' = (failed \/ ~pending)
          /\ reading' = NotReading
      BY <2>10 DEF ReadFails, ReadEnds
    <3>2. NotReading \in [at : {"no", "state", "number", "reply"}, world : Nat, number : Nat]
          /\ NotReading.at = "no"
      BY DEF NotReading
    <3>3. PageTypes'
      BY <1>1, <2>1, <3>1, <3>2 DEF PageTypes
    <3>4. reading'.at = "no" /\ (timer' \/ failed')
      BY <1>1, <3>1, <3>2 DEF PageTypes
    <3>5. \A k \in 1 .. heard' : Covered(k)'
      BY <3>4
    <3> QED
      BY <2>1, <3>3, <3>5 DEF PageInv, HeardIsCovered
  <2> QED
    BY <1>3, <2>5, <2>6, <2>7, <2>8, <2>9, <2>10 DEF PageStep, ReadStep
<1>4. \/ [KernelNext]_vars /\ UNCHANGED pageVars
      \/ (PageStep \/ AskRefresh) /\ UNCHANGED vars
  BY DEF PageNext, allVars
<1> QED
  BY <1>2, <1>3, <1>4

\* QuietPageIsCurrent for any requests and any number of them: a page that
\* has nothing to do and shows no failed read has rendered every number it
\* has been handed, although events arrive, refreshes are asked for and reads
\* fail at every point of a read.
THEOREM QuietPageStaysCurrent == PageSpec => []QuietPageIsCurrent
<1>1. PageInit => PageInv
  <2> SUFFICES ASSUME PageInit PROVE PageInv
    OBVIOUS
  <2>1. KernelInv
    BY KernelInvInit DEF PageInit
  <2>2. WireNumbered
    <3>1. wire = <<>> /\ sequence = 0 /\ world = 0 /\ \A l \in Lanes : serving[l].event = 0
      BY DEF PageInit, Init, KernelInit, Idle
    <3> QED
      BY <3>1 DEF WireNumbered
  <2>3. /\ heard = 0 /\ last = 0 /\ timer = FALSE /\ pending = FALSE
        /\ failed = FALSE /\ reading = NotReading /\ Len(wire) = 0
    BY DEF PageInit, Init, KernelInit
  <2>4. PageTypes
    <3>1. NotReading \in [at : {"no", "state", "number", "reply"}, world : Nat, number : Nat]
      BY DEF NotReading
    <3>2. heard \in 0 .. Len(wire)
      BY <2>3
    <3> QED
      BY <2>3, <3>1, <3>2 DEF PageTypes
  <2>5. HeardIsCovered
    BY <2>3 DEF HeardIsCovered
  <2> QED
    BY <2>1, <2>2, <2>4, <2>5 DEF PageInv
<1>2. PageInv /\ [PageNext]_allVars => PageInv'
  BY PageInvStep
<1>3. PageInv => QuietPageIsCurrent
  <2> SUFFICES ASSUME PageInv, heard = Len(wire), ~timer, reading.at = "no",
                      ~failed, NEW k \in DOMAIN wire
               PROVE  wire[k].number <= last
    BY DEF QuietPageIsCurrent
  <2>1. k \in 1 .. heard
    BY DEF PageInv, WireNumbered
  <2> QED
    BY <2>1 DEF PageInv, HeardIsCovered
<1> QED
  BY <1>1, <1>2, <1>3, PTL DEF PageSpec
=============================================================================
