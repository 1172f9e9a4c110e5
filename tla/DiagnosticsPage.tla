-------------------------- MODULE DiagnosticsPage --------------------------
(***************************************************************************)
(* The settings and diagnostics page (apps/tauri/web/settings.js) beside   *)
(* the Host Kernel.  The page does not poll: it shows a snapshot, listens  *)
(* for host events and reads the next snapshot when an event is newer than *)
(* the one it shows.  host_snapshot (bridge.rs) reads the state and the    *)
(* event number one after the other.                                       *)
(*                                                                         *)
(* Of what the page shows only the version counts.  The commands it sends  *)
(* itself go through the kernel like any other and end in a refresh.       *)
(***************************************************************************)
EXTENDS HostKernel

CONSTANT MaxAsks   \* bound: refreshes asked for by the user

VARIABLES
    heard,     \* events of the wire that the page has been handed
    last,      \* lastSequence
    shown,     \* version that is shown
    timer,     \* eventRefreshTimer is armed
    reading,   \* the snapshot in flight, snapshotRefreshPromise
    pending,   \* snapshotRefreshPending
    failed,    \* the last read has failed and no other one is asked for
    asks,      \* refreshes asked for so far
    wanted     \* history: version at the time of the last one

pageVars == <<heard, last, shown, timer, reading, pending, failed, asks,
              wanted>>
allVars == <<vars, pageVars>>

NotReading == [at |-> "no", world |-> 0, number |-> 0]

PageInit ==
    /\ Init
    /\ heard = 0 /\ last = 0 /\ shown = 0
    /\ timer = FALSE /\ reading = NotReading /\ pending = FALSE
    /\ failed = FALSE /\ asks = 0 /\ wanted = 0

-----------------------------------------------------------------------------

Hear_deaf_while_reading ==
    /\ heard < Len(wire)
    /\ heard' = heard + 1
    /\ timer' = (timer \/ (wire[heard + 1].number > last /\ reading.at = "no"))
    /\ UNCHANGED <<last, shown, reading, pending, failed, asks, wanted>>

\* The listener.  The delay of the timer does not matter.
Hear ==
    /\ heard < Len(wire)
    /\ heard' = heard + 1
    /\ timer' = (timer \/ wire[heard + 1].number > last)
    /\ UNCHANGED <<last, shown, reading, pending, failed, asks, wanted>>

Refresh_dropping_requests ==
    IF reading.at # "no"
    THEN UNCHANGED <<reading, pending>>
    ELSE reading' = [NotReading EXCEPT !.at = "state"] /\ UNCHANGED pending

\* refresh() joins the read in flight and asks for another one after it.
Refresh ==
    IF reading.at # "no"
    THEN pending' = TRUE /\ UNCHANGED reading
    ELSE reading' = [NotReading EXCEPT !.at = "state"] /\ UNCHANGED pending

TimerFires ==
    /\ timer /\ timer' = FALSE
    /\ Refresh
    /\ UNCHANGED <<heard, last, shown, failed, asks, wanted>>

\* The first load, the button, and the end of a command of the page itself.
AskRefresh ==
    /\ asks < MaxAsks /\ asks' = asks + 1
    /\ wanted' = world /\ failed' = FALSE
    /\ Refresh
    /\ UNCHANGED <<heard, last, shown, timer>>

\* host_snapshot: ReadOnlySnapshot::collect, then the kernel's public state.
ReadState ==
    /\ reading.at = "state"
    /\ reading' = [reading EXCEPT !.at = "number", !.world = world]
    /\ UNCHANGED <<heard, last, shown, timer, pending, failed, asks, wanted>>

ReadNumber ==
    /\ reading.at = "number"
    /\ reading' = [reading EXCEPT !.at = "reply", !.number = sequence]
    /\ UNCHANGED <<heard, last, shown, timer, pending, failed, asks, wanted>>

\* The finally block of refresh.
ReadEnds ==
    /\ reading' = NotReading
    /\ pending' = FALSE
    /\ timer' = (timer \/ pending)
    /\ UNCHANGED <<heard, asks, wanted>>

\* render
Render ==
    /\ reading.at = "reply"
    /\ IF reading.number < last
       THEN UNCHANGED <<last, shown>>
       ELSE last' = reading.number /\ shown' = reading.world
    /\ failed' = FALSE
    /\ ReadEnds

\* The catch branch of refresh: the page shows the error and keeps the rest.
\* Nothing is read again unless a refresh has been asked for meanwhile.
ReadFails ==
    /\ reading.at # "no"
    /\ failed' = (failed \/ ~pending)
    /\ UNCHANGED <<last, shown>>
    /\ ReadEnds

ReadStep == ReadState \/ ReadNumber \/ Render \/ ReadFails

PageStep == Hear \/ TimerFires \/ ReadStep

PageNext ==
    \/ KernelNext /\ UNCHANGED pageVars
    \/ (PageStep \/ AskRefresh) /\ UNCHANGED vars

\* The page's event loop and the IPC keep running.
PageSpec ==
    /\ PageInit /\ [][PageNext]_allVars
    /\ \A step \in {1, 2, 3} :
           WF_allVars(/\ UNCHANGED vars
                      /\ CASE step = 1 -> Hear
                           [] step = 2 -> TimerFires
                           [] OTHER -> ReadStep)

-----------------------------------------------------------------------------

\* A refresh that is asked for shows the state of that moment or a later one
\* in the end, also when it is joined with a read that had begun before and
\* that fails; only when a later read fails the page shows an error instead.
AskedRefreshShows ==
    \A w \in 1 .. MaxCalls : wanted = w ~> shown >= w \/ failed

\* The page is never more up to date than it believes: if the events it has
\* been handed leave it quiet and it shows no failed read, it has rendered
\* their numbers.
QuietPageIsCurrent ==
    /\ heard = Len(wire) /\ ~timer /\ reading.at = "no" /\ ~failed
    => \A k \in DOMAIN wire : wire[k].number <= last

-----------------------------------------------------------------------------
(* What the repository says of snapshots and interleavings refute.         *)

\* "The snapshot is the current truth": after an event the page comes to
\* show the state the event was sent for.
PageCatchesUp ==
    \A k \in 1 .. MaxCalls :
        Len(wire) >= k ~> (Len(wire) >= k /\ shown >= wire[k].world)
=============================================================================
