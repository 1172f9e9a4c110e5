--------------------------- MODULE GatewaySessions ---------------------------
(***************************************************************************)
(* The inside of one Native Gateway server (gateway_host/connection.rs,    *)
(* handler.rs and server.rs): the accept loop, one thread per connection,  *)
(* the registry of pairing code, connect tickets and sessions, and the     *)
(* stop that has to end all of it.                                         *)
(*                                                                         *)
(* Time is a removal: every reader of the registry prunes it first, under  *)
(* the same lock, so an expired entry and a removed one are the same.  A   *)
(* session is named by the number of its pairing, and so is its one        *)
(* connect ticket.  All clients share one address, hence one rate limit.   *)
(***************************************************************************)
EXTENDS Integers, FiniteSets

CONSTANTS
    Conns,        \* client connections, each made once
    NoConn,       \* the accept loop is not busy with a connection
    MaxActive,    \* MAX_GATEWAY_CONNECTIONS
    MaxAttempts,  \* pair requests of an address within the rate window
    MaxCodes,     \* bound on pairing codes
    MaxSessions   \* bound on sessions

ASSUME NoConnIsNone == NoConn \notin Conns
ASSUME LimitsArePositive ==
    /\ MaxActive \in Nat \ {0} /\ MaxAttempts \in Nat \ {0}
    /\ MaxCodes \in Nat \ {0} /\ MaxSessions \in Nat \ {0}

Codes == 1..MaxCodes
Sessions == 1..MaxSessions
Sides == {"client", "upstream"}

VARIABLES
    \* connections
    stop,       \* the stop flag of the server
    stopper,    \* where NativeGateway::stop is
    loop,       \* where the accept loop is
    accepting,  \* the connection it is busy with
    active,     \* active_connections
    streams,    \* connection_streams: the sides registered of each connection
    shut,       \* the sides whose socket has been shut down
    pc,         \* where each connection's thread is
    asks,       \* the session a proxied request belongs to
    boot,       \* that request is sent to the launch URL
    \* registry
    pairing,    \* the pairing code, 0 when there is none
    lastCode, lastSession,
    tickets, sessions, bootstrapped,
    attempts,
    \* history
    pairedBy,   \* the code each session was paired with
    launched    \* sessions whose launch request was written to the Runtime

connVars == <<stop, stopper, loop, accepting, active, streams, shut>>
reqVars == <<asks, boot>>
regVars == <<pairing, lastCode, lastSession, tickets, sessions, bootstrapped, attempts>>
history == <<pairedBy, launched>>
vars == <<connVars, pc, reqVars, regVars, history>>

Init ==
    /\ stop = FALSE /\ stopper = "idle" /\ loop = "run" /\ accepting = NoConn
    /\ active = 0
    /\ streams = [c \in Conns |-> {}] /\ shut = [c \in Conns |-> {}]
    /\ pc = [c \in Conns |-> "new"]
    /\ asks = [c \in Conns |-> 0] /\ boot = [c \in Conns |-> FALSE]
    /\ pairing = 0 /\ lastCode = 0 /\ lastSession = 0
    /\ tickets = {} /\ sessions = {} /\ bootstrapped = {} /\ attempts = 0
    /\ pairedBy = [s \in Sessions |-> 0] /\ launched = {}

Goto(c, l) == pc' = [pc EXCEPT ![c] = l]
----------------------------------------------------------------------------
(* gateway_accept_loop                                                     *)

\* A connection is accepted and counted, or turned away at the limit.
Accept(c) ==
    /\ loop = "run" /\ accepting = NoConn /\ ~stop
    /\ pc[c] = "new"
    /\ IF active >= MaxActive
       THEN Goto(c, "gone") /\ UNCHANGED <<active, accepting>>
       ELSE active' = active + 1 /\ accepting' = c /\ Goto(c, "counted")
    /\ UNCHANGED <<stop, stopper, loop, streams, shut, reqVars, regVars, history>>

\* register_connection_stream: nothing is registered once stop is set.
Register(c, side) ==
    IF stop
    THEN shut' = [shut EXCEPT ![c] = @ \union {side}] /\ UNCHANGED streams
    ELSE streams' = [streams EXCEPT ![c] = @ \union {side}] /\ UNCHANGED shut

\* Mutant: a connection that meets the stop is not counted out.
RegisterClient_without_uncount ==
    /\ accepting # NoConn
    /\ pc[accepting] = "counted"
    /\ Register(accepting, "client")
    /\ IF stop
       THEN Goto(accepting, "gone") /\ accepting' = NoConn
       ELSE Goto(accepting, "registered") /\ UNCHANGED accepting
    /\ UNCHANGED <<stop, stopper, loop, active, reqVars, regVars, history>>

RegisterClient ==
    /\ accepting # NoConn
    /\ pc[accepting] = "counted"
    /\ Register(accepting, "client")
    /\ IF stop
       THEN active' = active - 1 /\ Goto(accepting, "gone") /\ accepting' = NoConn
       ELSE Goto(accepting, "registered") /\ UNCHANGED <<active, accepting>>
    /\ UNCHANGED <<stop, stopper, loop, reqVars, regVars, history>>

\* The worker thread is spawned, or its creation fails and is undone.
SpawnWorker ==
    /\ accepting # NoConn
    /\ pc[accepting] = "registered"
    /\ \/ Goto(accepting, "reading") /\ UNCHANGED <<active, streams>>
       \/ /\ Goto(accepting, "gone")
          /\ streams' = [streams EXCEPT ![accepting] = {}]
          /\ active' = active - 1
    /\ accepting' = NoConn
    /\ UNCHANGED <<stop, stopper, loop, shut, reqVars, regVars, history>>

\* shutdown_active_connections
ShutdownAll ==
    /\ shut' = [c \in Conns |-> shut[c] \union streams[c]]
    /\ streams' = [c \in Conns |-> {}]

\* Mutant: the workers are dropped instead of joined.
WorkersEnded_without_join == TRUE

\* join_connection_workers returns when every worker has ended.
WorkersEnded == \A c \in Conns : pc[c] \in {"new", "gone"}

LoopSees ==
    /\ loop = "run" /\ stop /\ accepting = NoConn
    /\ loop' = "join"
    /\ ShutdownAll
    /\ UNCHANGED <<stop, stopper, accepting, active, pc, reqVars, regVars, history>>

LoopJoins ==
    /\ loop = "join" /\ WorkersEnded
    /\ loop' = "done"
    /\ UNCHANGED <<stop, stopper, accepting, active, streams, shut, pc, reqVars, regVars, history>>
----------------------------------------------------------------------------
(* NativeGateway::stop                                                     *)

SetStop ==
    /\ stopper = "idle"
    /\ stop' = TRUE
    /\ stopper' = "joining"
    /\ UNCHANGED <<loop, accepting, active, streams, shut, pc, reqVars, regVars, history>>

\* The accept loop is joined, then everything once more.
FinishStop ==
    /\ stopper = "joining" /\ loop = "done" /\ WorkersEnded
    /\ stopper' = "done"
    /\ ShutdownAll
    /\ UNCHANGED <<stop, loop, accepting, active, pc, reqVars, regVars, history>>
----------------------------------------------------------------------------
(* handle_connection, on the thread of a connection.                       *)

\* The request is read, or refused, or does not come within the timeout.
ReadRequest(c) ==
    /\ pc[c] = "reading"
    /\ \/ Goto(c, "leaving") /\ UNCHANGED asks
       \/ Goto(c, "pair") /\ UNCHANGED asks
       \/ \E s \in Sessions, l \in {"connect", "check"} :
             asks' = [asks EXCEPT ![c] = s] /\ Goto(c, l)
    /\ UNCHANGED <<connVars, boot, regVars, history>>

\* handle_pair, under the registry lock: one attempt of the address, and for
\* the current code a session with its ticket (MaxSessions is a bound).
Pair(c) ==
    /\ pc[c] = "pair"
    /\ Goto(c, "leaving")
    /\ IF attempts >= MaxAttempts
       THEN UNCHANGED <<regVars, history>>
       ELSE /\ attempts' = attempts + 1
            /\ \E code \in Codes :
                 IF pairing # code \/ lastSession = MaxSessions
                 THEN UNCHANGED <<pairing, lastSession, tickets, sessions, pairedBy>>
                 ELSE /\ pairing' = 0
                      /\ lastSession' = lastSession + 1
                      /\ sessions' = sessions \union {lastSession'}
                      /\ tickets' = tickets \union {lastSession'}
                      /\ pairedBy' = [pairedBy EXCEPT ![lastSession'] = code]
            /\ UNCHANGED <<lastCode, bootstrapped, launched>>
    /\ UNCHANGED <<connVars, reqVars>>

\* handle_connect: the ticket is used up whatever comes of it.
Connect(c) ==
    /\ pc[c] = "connect"
    /\ Goto(c, "leaving")
    /\ tickets' = tickets \ {asks[c]}
    /\ UNCHANGED <<connVars, reqVars, pairing, lastCode, lastSession, sessions,
                   bootstrapped, attempts, history>>

\* Mutant: the flag is set when it is read.
CheckSession_marking_early(c) ==
    /\ pc[c] = "check"
    /\ boot' = [boot EXCEPT ![c] = asks[c] \in sessions \ bootstrapped]
    /\ bootstrapped' = bootstrapped \union ({asks[c]} \intersect sessions)
    /\ Goto(c, IF asks[c] \in sessions THEN "dial" ELSE "leaving")
    /\ UNCHANGED <<connVars, asks, pairing, lastCode, lastSession, tickets, sessions,
                   attempts, history>>

\* proxy_authenticated, first registry lock: the session and its flag.
CheckSession(c) ==
    /\ pc[c] = "check"
    /\ boot' = [boot EXCEPT ![c] = asks[c] \in sessions \ bootstrapped]
    /\ Goto(c, IF asks[c] \in sessions THEN "dial" ELSE "leaving")
    /\ UNCHANGED <<connVars, asks, regVars, history>>

\* connect_upstream, which may fail.
Dial(c) ==
    /\ pc[c] = "dial"
    /\ Goto(c, "register") \/ Goto(c, "leaving")
    /\ UNCHANGED <<connVars, reqVars, regVars, history>>

\* Mutant: the Runtime's side is registered without looking at stop.
RegisterUpstream_after_stop(c) ==
    /\ pc[c] = "register"
    /\ streams' = [streams EXCEPT ![c] = @ \union {"upstream"}]
    /\ Goto(c, "send")
    /\ UNCHANGED <<stop, stopper, loop, accepting, active, shut, reqVars, regVars, history>>

RegisterUpstream(c) ==
    /\ pc[c] = "register"
    /\ Register(c, "upstream")
    /\ Goto(c, IF stop THEN "leaving" ELSE "send")
    /\ UNCHANGED <<stop, stopper, loop, accepting, active, reqVars, regVars, history>>

\* The request is written to the Runtime, or cannot be.
Send(c) ==
    /\ pc[c] = "send"
    /\ \/ Goto(c, "leaving") /\ UNCHANGED launched
       \/ /\ "upstream" \notin shut[c]
          /\ launched' = IF boot[c] THEN launched \union {asks[c]} ELSE launched
          /\ Goto(c, "mark")
    /\ UNCHANGED <<connVars, reqVars, regVars, pairedBy>>

\* Second registry lock: the session may be gone by now.
Mark(c) ==
    /\ pc[c] = "mark"
    /\ bootstrapped' = IF boot[c] /\ asks[c] \in sessions
                       THEN bootstrapped \union {asks[c]} ELSE bootstrapped
    /\ Goto(c, "copy")
    /\ UNCHANGED <<connVars, reqVars, pairing, lastCode, lastSession, tickets, sessions,
                   attempts, history>>

\* The copying ends when the Runtime's side ends, by itself or because it was
\* shut down.
CopyEnds(c) ==
    /\ pc[c] = "copy"
    /\ Goto(c, "leaving")
    /\ UNCHANGED <<connVars, reqVars, regVars, history>>

\* ActiveConnectionGuard::drop, in its two steps.
Deregister(c) ==
    /\ pc[c] = "leaving"
    /\ streams' = [streams EXCEPT ![c] = {}]
    /\ Goto(c, "uncount")
    /\ UNCHANGED <<stop, stopper, loop, accepting, active, shut, reqVars, regVars, history>>

Uncount(c) ==
    /\ pc[c] = "uncount"
    /\ active' = active - 1
    /\ Goto(c, "gone")
    /\ UNCHANGED <<stop, stopper, loop, accepting, streams, shut, reqVars, regVars, history>>
----------------------------------------------------------------------------
(* The registry's other writers: commands, which need the server in the    *)
(* Gateway actor (the stop takes it out first), and time.                  *)

\* gateway_host_create_pairing
CreatePairing ==
    /\ stopper = "idle"
    /\ lastCode < MaxCodes
    /\ lastCode' = lastCode + 1
    /\ pairing' = lastCode + 1
    /\ UNCHANGED <<connVars, pc, reqVars, lastSession, tickets, sessions, bootstrapped,
                   attempts, history>>

\* gateway_host_revoke
Revoke(s) ==
    /\ stopper = "idle"
    /\ s \in sessions
    /\ sessions' = sessions \ {s}
    /\ tickets' = tickets \ {s}
    /\ bootstrapped' = bootstrapped \ {s}
    /\ UNCHANGED <<connVars, pc, reqVars, pairing, lastCode, lastSession, attempts, history>>

\* gateway_host_revoke_all
RevokeAll ==
    /\ stopper = "idle"
    /\ pairing' = 0 /\ sessions' = {} /\ tickets' = {} /\ bootstrapped' = {}
    /\ UNCHANGED <<connVars, pc, reqVars, lastCode, lastSession, attempts, history>>

\* prune_registry: what has expired goes; a session outlives its ticket.
Expire ==
    /\ \/ /\ pairing' = 0
          /\ UNCHANGED <<tickets, sessions, bootstrapped, attempts>>
       \/ /\ \E s \in tickets : tickets' = tickets \ {s}
          /\ UNCHANGED <<pairing, sessions, bootstrapped, attempts>>
       \/ /\ \E s \in sessions \ tickets :
                sessions' = sessions \ {s} /\ bootstrapped' = bootstrapped \ {s}
          /\ UNCHANGED <<pairing, tickets, attempts>>
       \/ /\ attempts > 0 /\ attempts' = attempts - 1
          /\ UNCHANGED <<pairing, tickets, sessions, bootstrapped>>
    /\ UNCHANGED <<connVars, pc, reqVars, lastCode, lastSession, history>>
----------------------------------------------------------------------------
\* Steps of a connection's thread that come to an end in bounded time.
BoundedSteps(c) ==
    \/ ReadRequest(c) \/ Pair(c) \/ Connect(c) \/ CheckSession(c) \/ Dial(c)
    \/ RegisterUpstream(c) \/ Mark(c) \/ Deregister(c) \/ Uncount(c)
\* Steps that wait for the Runtime, with no timeout.
WaitingSteps(c) == Send(c) \/ CopyEnds(c)

LoopSteps == RegisterClient \/ SpawnWorker \/ LoopSees \/ LoopJoins

Next ==
    \/ \E c \in Conns : Accept(c) \/ BoundedSteps(c) \/ WaitingSteps(c)
    \/ LoopSteps \/ SetStop \/ FinishStop
    \/ CreatePairing \/ RevokeAll \/ Expire
    \/ \E s \in Sessions : Revoke(s)

Spec == Init /\ [][Next]_vars

\* Threads are scheduled; a blocked write or read of the Runtime's side only
\* returns for certain once that side has been shut down.
Fairness ==
    /\ WF_vars(LoopSteps) /\ WF_vars(FinishStop)
    /\ \A c \in Conns : /\ WF_vars(BoundedSteps(c))
                        /\ WF_vars("upstream" \in shut[c] /\ WaitingSteps(c))
FairSpec == Spec /\ Fairness
----------------------------------------------------------------------------
Labels == {"new", "counted", "registered", "reading", "pair", "connect", "check",
    "dial", "register", "send", "mark", "copy", "leaving", "uncount", "gone"}

TypeOK ==
    /\ stop \in BOOLEAN
    /\ stopper \in {"idle", "joining", "done"}
    /\ loop \in {"run", "join", "done"}
    /\ accepting \in Conns \union {NoConn}
    /\ active \in 0..MaxActive
    /\ streams \in [Conns -> SUBSET Sides] /\ shut \in [Conns -> SUBSET Sides]
    /\ pc \in [Conns -> Labels]
    /\ asks \in [Conns -> Sessions \union {0}] /\ boot \in [Conns -> BOOLEAN]
    /\ pairing \in Codes \union {0}
    /\ lastCode \in 0..MaxCodes /\ lastSession \in 0..MaxSessions
    /\ tickets \subseteq Sessions /\ sessions \subseteq Sessions
    /\ bootstrapped \subseteq Sessions /\ launched \subseteq Sessions
    /\ attempts \in 0..MaxAttempts
    /\ pairedBy \in [Sessions -> Codes \union {0}]

\* The counter that refuses connections counts the connections being served, on
\* every path that gives one up: it neither drifts up, which would refuse
\* everybody in the end, nor down.
ActiveIsExact == active = Cardinality({c \in Conns : pc[c] \notin {"new", "gone"}})

\* When NativeGateway::stop returns no thread of the server is left, and the
\* table of sockets holds none of a connection that is gone at any time.
StoppedIsQuiet ==
    /\ stopper = "done" => \A c \in Conns : pc[c] \in {"new", "gone"} /\ streams[c] = {}
    /\ \A c \in Conns : pc[c] \in {"new", "gone"} => streams[c] = {}

\* A ticket leads to a session that exists, whatever was revoked or expired.
TicketsNameSessions == tickets \subseteq sessions

\* A pairing code makes one session, even when two clients send it at once.
CodesPairOnce ==
    \A r, s \in Sessions : pairedBy[r] # 0 /\ pairedBy[r] = pairedBy[s] => r = s

\* A session counts as bootstrapped only after a launch request of it has been
\* written to the Runtime: a failed dial or a stop in between leaves it to the
\* next request.
BootstrappedWasLaunched == bootstrapped \subseteq launched

\* However pairing, exchange, launch, revocation and expiry cross, all three.
SessionsAreSound == TicketsNameSessions /\ CodesPairOnce /\ BootstrappedWasLaunched

\* The stop always comes to its end, although proxied connections wait for the
\* Runtime without a timeout: otherwise the lifecycle mutex stays taken.
StopCompletes == stopper = "joining" ~> stopper = "done"
=============================================================================
