----------------------------- MODULE HostKernel -----------------------------
(***************************************************************************)
(* The Host Kernel of the Tauri host (host_kernel.rs, reconciler.rs,       *)
(* capability_broker.rs, bridge.rs): the path that every business command  *)
(* of a WebView, the menu, the tray and a second launch takes.             *)
(*                                                                         *)
(* A command waits in one of two bounded queues; each queue has one        *)
(* consumer, and the two run concurrently.  A consumer looks the request   *)
(* id up in the shared dedupe window, authorises and runs the command      *)
(* without holding a lock, numbers and emits an event, caches the answer   *)
(* and replies.  One action is one of these steps.                         *)
(*                                                                         *)
(* The Runtime beneath is the LeaseService.  What a command does to the    *)
(* state that a snapshot shows is one tick of `world'.  The revision       *)
(* counter and the operation id only decorate events and are left out.     *)
(***************************************************************************)
EXTENDS LeaseService, Sequences

CONSTANTS
    Requests,    \* [subject, id, command] records that callers may send
    MaxCalls,    \* bound: calls ever made
    MaxEpoch,    \* bound: Runtime generations
    Window,      \* DEDUPE_WINDOW, 256 in the code
    Capacity     \* places of each queue, 128 and 64 in the code

Fast == {"activate", "refresh", "show_gateway", "show_diagnostics"}
Slow == {"restart", "safe_mode", "clear_quarantine", "report_failure",
         "install_update", "quit"}
Commands == Fast \cup Slow

\* Subjects of the host itself: native menu, tray and desktop shell.
Native == {"native_menu", "tray", "desktop_shell"}
Subjects == Native \cup {"harness_web", "diagnostics", "mobile"}

ASSUME RequestsAssumption ==
    \A r \in Requests : r.subject \in Subjects /\ r.command \in Commands
ASSUME BoundsAssumption ==
    /\ MaxCalls \in Nat /\ MaxEpoch \in Nat /\ Window \in Nat \ {0}
    /\ Capacity \in Nat \ {0}

Lanes == {"fast", "slow"}
Ids == {r.id : r \in Requests}
Results == {"ok", "failed", "denied"}
Answers == Results \cup {"reused"}
None == 0

VARIABLES
    calls,     \* what callers have asked for, in the order of asking
    queue,     \* of each lane: calls waiting
    serving,   \* of each lane: what its consumer is doing
    dedupe,    \* id |-> request and result, for the ids in the window
    order,     \* dedupe_order
    sequence,  \* event_sequence
    world,     \* version of the state that a snapshot shows
    wire,      \* events in the order the WebViews get them
    ran        \* history: requests whose command was processed

kernelVars == <<calls, queue, serving, dedupe, order, sequence, world, wire, ran>>
vars == <<lsVars, kernelVars>>

LaneOf_one_queue(c) == "slow"

\* is_fast_command.
LaneOf(c) == IF c \in Fast THEN "fast" ELSE "slow"

Idle == [step |-> "idle", call |-> 0, result |-> "none", event |-> 0]
Steps == {"idle", "lookup", "authorize", "reconcile", "record", "emit",
          "cache", "reply"}

CallNumbers == 1 .. MaxCalls
Request(n) == calls[n].request

TypeOK ==
    /\ calls \in Seq([request : Requests, gen : 0 .. MaxEpoch,
                      at : {"sending", "queued", "serving", "answered"},
                      answer : Answers \cup {"none"}])
    /\ Len(calls) <= MaxCalls
    /\ \A l \in Lanes :
           /\ queue[l] \in Seq(CallNumbers) /\ Len(queue[l]) <= Capacity
           /\ serving[l] \in [step : Steps, call : 0 .. MaxCalls,
                              result : Results \cup {"none"},
                              event : 0 .. MaxCalls]
    /\ \A i \in DOMAIN dedupe :
           /\ dedupe[i] \in [request : Requests, result : Results]
           /\ i \in {order[k] : k \in DOMAIN order}
    /\ Len(order) <= Window
    /\ sequence \in 0 .. MaxCalls /\ world \in 0 .. MaxCalls
    /\ Len(wire) <= sequence

KernelInit ==
    /\ calls = <<>>
    /\ queue = [l \in Lanes |-> <<>>]
    /\ serving = [l \in Lanes |-> Idle]
    /\ dedupe = <<>> /\ order = <<>>
    /\ sequence = 0 /\ world = 0
    /\ wire = <<>> /\ ran = <<>>

Init == LSInit /\ KernelInit

At(l, where) == serving[l].step = where
ServedBy(l) == serving[l].call
Proceed(l, where) == serving' = [serving EXCEPT ![l].step = where]
Answered(n, answer) ==
    calls' = [calls EXCEPT ![n].at = "answered", ![n].answer = answer]

-----------------------------------------------------------------------------
(* Callers.                                                                *)

\* host_execute and execute_native.  The page of the Harness window is only
\* let in while its origin is the one of the current lease; the local pages
\* and the host are not tied to a generation.
Submit(r) ==
    /\ Len(calls) < MaxCalls
    /\ r.subject = "harness_web" => lease # None
    /\ calls' = Append(calls, [request |-> r, gen |-> lease,
                               at |-> "sending", answer |-> "none"])
    /\ UNCHANGED <<lsVars, queue, serving, dedupe, order, sequence, world,
                   wire, ran>>

\* HostKernelHandle::execute waits for a place in the queue.
Send(n) ==
    /\ n \in DOMAIN calls /\ calls[n].at = "sending"
    /\ LET l == LaneOf(Request(n).command)
       IN  /\ Len(queue[l]) < Capacity
           /\ queue' = [queue EXCEPT ![l] = Append(@, n)]
    /\ calls' = [calls EXCEPT ![n].at = "queued"]
    /\ UNCHANGED <<lsVars, serving, dedupe, order, sequence, world, wire, ran>>

-----------------------------------------------------------------------------
(* A consumer: kernel_slow_loop and kernel_fast_loop.                      *)

Take(l) ==
    /\ At(l, "idle") /\ queue[l] # <<>>
    /\ serving' = [serving EXCEPT ![l] =
                      [Idle EXCEPT !.step = "lookup", !.call = Head(queue[l])]]
    /\ calls' = [calls EXCEPT ![Head(queue[l])].at = "serving"]
    /\ queue' = [queue EXCEPT ![l] = Tail(@)]
    /\ UNCHANGED <<lsVars, dedupe, order, sequence, world, wire, ran>>

\* A request in the window: its command and its subject tell a repetition
\* from a reused id.
Remembered(n) == Request(n).id \in DOMAIN dedupe
CachedAnswer(n) ==
    LET entry == dedupe[Request(n).id]
    IN  IF entry.request = Request(n) THEN entry.result ELSE "reused"

Lookup_always_ok(l) ==
    /\ At(l, "lookup")
    /\ IF Remembered(ServedBy(l))
       THEN /\ Answered(ServedBy(l), "ok")
            /\ serving' = [serving EXCEPT ![l] = Idle]
       ELSE Proceed(l, "authorize") /\ UNCHANGED calls
    /\ UNCHANGED <<lsVars, queue, dedupe, order, sequence, world, wire, ran>>

\* Phase 1, one critical section of the shared state.
Lookup(l) ==
    /\ At(l, "lookup")
    /\ IF Remembered(ServedBy(l))
       THEN /\ Answered(ServedBy(l), CachedAnswer(ServedBy(l)))
            /\ serving' = [serving EXCEPT ![l] = Idle]
       ELSE Proceed(l, "authorize") /\ UNCHANGED calls
    /\ UNCHANGED <<lsVars, queue, dedupe, order, sequence, world, wire, ran>>

\* capability_broker::authorize as authorize_local asks it: generation and
\* origin of the question are those of the lease it is compared with.
Allowed(r) ==
    CASE r.subject = "harness_web" ->
           lease # None /\ r.command \notin {"clear_quarantine", "install_update", "quit"}
      [] r.command = "report_failure" -> FALSE
      [] r.subject \in Native -> TRUE
      [] r.subject = "diagnostics" -> r.command \notin {"activate", "refresh"}
      [] OTHER -> r.command = "show_gateway"

Authorize(l) ==
    /\ At(l, "authorize")
    /\ serving' =
           IF Allowed(Request(ServedBy(l)))
           THEN [serving EXCEPT ![l].step = "reconcile"]
           ELSE [serving EXCEPT ![l].step = "record", ![l].result = "denied"]
    /\ UNCHANGED <<lsVars, calls, queue, dedupe, order, sequence, world, wire, ran>>

\* reconcile_command: a command that fails may have changed something, too.
Reconcile(l) ==
    /\ At(l, "reconcile")
    /\ \E result \in {"ok", "failed"} :
           /\ serving' = [serving EXCEPT ![l].step = "record", ![l].result = result]
           /\ world' \in {world + 1} \cup (IF result = "failed" THEN {world} ELSE {})
    /\ UNCHANGED <<lsVars, calls, queue, dedupe, order, sequence, wire, ran>>

\* record_event numbers the event under the lock ...
Record(l) ==
    /\ At(l, "record")
    /\ sequence' = sequence + 1
    /\ serving' = [serving EXCEPT ![l].step = "emit", ![l].event = sequence + 1]
    /\ UNCHANGED <<lsVars, calls, queue, dedupe, order, world, wire, ran>>

\* ... and emits it after unlocking; an emit that fails is only logged.
Emit(l) ==
    /\ At(l, "emit")
    /\ wire' \in {wire, Append(wire, [number |-> serving[l].event, world |-> world])}
    /\ Proceed(l, "cache")
    /\ UNCHANGED <<lsVars, calls, queue, dedupe, order, sequence, world, ran>>

Evict_too_early(ids) == Len(ids) >= Window

\* The window is full: the oldest id has to go.
Evict(ids) == Len(ids) > Window

\* Phase 3, one critical section of the shared state.
Cache(l) ==
    /\ At(l, "cache")
    /\ LET r == Request(ServedBy(l))
           ids == Append(order, r.id)
           entries == [i \in DOMAIN dedupe \cup {r.id} |->
                          IF i = r.id THEN [request |-> r, result |-> serving[l].result]
                                      ELSE dedupe[i]]
       IN  /\ order' = IF Evict(ids) THEN Tail(ids) ELSE ids
           /\ dedupe' = [i \in DOMAIN entries \
                               (IF Evict(ids) THEN {Head(ids)} ELSE {}) |-> entries[i]]
           /\ ran' = Append(ran, r)
    /\ Proceed(l, "reply")
    /\ UNCHANGED <<lsVars, calls, queue, sequence, world, wire>>

Reply(l) ==
    /\ At(l, "reply")
    /\ Answered(ServedBy(l), serving[l].result)
    /\ serving' = [serving EXCEPT ![l] = Idle]
    /\ UNCHANGED <<lsVars, queue, dedupe, order, sequence, world, wire, ran>>

-----------------------------------------------------------------------------

\* Everything a consumer does except waiting for the command itself.
Bookkeeping(l) ==
    \/ Take(l) \/ Lookup(l) \/ Authorize(l)
    \/ Record(l) \/ Emit(l) \/ Cache(l) \/ Reply(l)

\* A start, stop or death of the Runtime, commanded or not.
RuntimeStep == LSNext /\ epoch' <= MaxEpoch /\ UNCHANGED kernelVars

KernelNext ==
    \/ \E r \in Requests : Submit(r)
    \/ \E n \in DOMAIN calls : Send(n)
    \/ \E l \in Lanes : Bookkeeping(l) \/ Reconcile(l)
    \/ RuntimeStep

Spec == Init /\ [][KernelNext]_vars

-----------------------------------------------------------------------------
(* Safety.                                                                 *)

\* No request id is processed a second time before Window other requests
\* have been: a double click, a resend or a reused id runs nothing twice.
\* It needs that an id is never shared by commands of both lanes.
OncePerWindow ==
    \A i, j \in DOMAIN ran :
        i < j /\ ran[i].id = ran[j].id => j - i > Window

\* Callers that repeat a request are told what the one execution gave.
RepeatsAgree ==
    \A m, n \in DOMAIN calls :
        /\ Request(m) = Request(n)
        /\ calls[m].at = "answered" /\ calls[n].at = "answered"
        /\ \A i, j \in DOMAIN ran :
               ran[i].id = Request(m).id /\ ran[j].id = Request(m).id => i = j
        => calls[m].answer = calls[n].answer

-----------------------------------------------------------------------------
(* What the repository says of the kernel and interleavings refute.        *)

\* "Ordered events": WebViews get the events by ascending number.
EventsInOrder ==
    \A i, j \in DOMAIN wire : i < j => wire[i].number < wire[j].number

\* A request id is not accepted for a second command while it is remembered.
ReusedIdIsRefused ==
    \A i, j \in DOMAIN ran :
        i < j /\ j - i <= Window /\ ran[i].id = ran[j].id
            => ran[i].command = ran[j].command

\* "Every dispatch must verify that the Runtime generation has not changed":
\* a command of the Harness page runs only under the lease its page was
\* admitted with.
DispatchChecksGeneration ==
    [][\A l \in Lanes :
           /\ serving[l].step = "authorize" /\ serving'[l].step = "reconcile"
           /\ Request(ServedBy(l)).subject = "harness_web"
           => calls[ServedBy(l)].gen = lease]_vars
=============================================================================
