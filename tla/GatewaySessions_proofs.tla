----------------------- MODULE GatewaySessions_proofs -----------------------
(***************************************************************************)
(* Proofs about GatewaySessions for any set of connections, any limit on   *)
(* active ones, any rate limit and any number of codes and sessions.       *)
(***************************************************************************)
EXTENDS GatewaySessions, FiniteSetTheorems, TLAPS

\* The connections a thread of the server is busy with.
Served == {c \in Conns : pc[c] \notin {"new", "gone"}}

\* The types, without the range of the counter, which is proved from what it
\* counts.
ConnTypes ==
    /\ stop \in BOOLEAN
    /\ stopper \in {"idle", "joining", "done"}
    /\ loop \in {"run", "join", "done"}
    /\ accepting \in Conns \union {NoConn}
    /\ streams \in [Conns -> SUBSET Sides] /\ shut \in [Conns -> SUBSET Sides]
    /\ pc \in [Conns -> Labels]
    /\ asks \in [Conns -> Sessions \union {0}] /\ boot \in [Conns -> BOOLEAN]

RegTypes ==
    /\ pairing \in Codes \union {0}
    /\ lastCode \in 0..MaxCodes /\ lastSession \in 0..MaxSessions
    /\ tickets \subseteq Sessions /\ sessions \subseteq Sessions
    /\ bootstrapped \subseteq Sessions /\ launched \subseteq Sessions
    /\ attempts \in 0..MaxAttempts
    /\ pairedBy \in [Sessions -> Codes \union {0}]

\* A thread that serves a request of a session knows which.
AskTyped ==
    \A c \in Conns :
        pc[c] \in {"connect", "check", "dial", "register", "send", "mark"} =>
            asks[c] \in Sessions

TypeButActive == ConnTypes /\ RegTypes /\ AskTyped

\* A connection is in the hands of the accept loop or of its own thread, and
\* the loop has at most one, only while it runs.
AcceptShape ==
    /\ accepting # NoConn => loop = "run" /\ pc[accepting] \in {"counted", "registered"}
    /\ \A c \in Conns : pc[c] \in {"counted", "registered"} => accepting = c

\* A side of a connection is in the table of sockets only between its
\* registration and its removal.
StreamShape ==
    \A c \in Conns : pc[c] \in {"new", "counted", "uncount", "gone"} => streams[c] = {}

\* The stop flag comes first; the loop ends with its workers, for good.
StopShape ==
    /\ stop <=> stopper # "idle"
    /\ loop # "run" => stop
    /\ loop = "done" => WorkersEnded
    /\ stopper = "done" => loop = "done"

CountInv == IsFiniteSet(Served) /\ ActiveIsExact /\ active <= MaxActive

ServerInv == TypeButActive /\ AcceptShape /\ StreamShape /\ StopShape

-----------------------------------------------------------------------------
(* The types.                                                              *)

LEMMA AskStep ==
    ASSUME ConnTypes, AskTyped, [Next]_vars
    PROVE  AskTyped'
<1> USE DEF ConnTypes, AskTyped, Goto, reqVars
<1>1. ASSUME UNCHANGED asks, UNCHANGED pc PROVE AskTyped'
  BY <1>1
<1>2. ASSUME NEW c \in Conns, ReadRequest(c) PROVE AskTyped'
  BY <1>2 DEF ReadRequest
<1>3. ASSUME NEW c \in Conns,
             \/ CheckSession(c) \/ Dial(c) \/ RegisterUpstream(c) \/ Send(c) \/ Mark(c)
             \/ Accept(c) \/ Pair(c) \/ Connect(c) \/ CopyEnds(c) \/ Deregister(c)
             \/ Uncount(c)
      PROVE  AskTyped'
  BY <1>3 DEF CheckSession, Dial, RegisterUpstream, Send, Mark, Accept, Pair, Connect,
              CopyEnds, Deregister, Uncount
<1>4. CASE RegisterClient \/ SpawnWorker
  BY <1>4 DEF RegisterClient, SpawnWorker
<1>5. CASE LoopSees \/ LoopJoins \/ SetStop \/ FinishStop
  BY <1>1, <1>5 DEF LoopSees, LoopJoins, SetStop, FinishStop
<1>6. CASE CreatePairing \/ RevokeAll \/ Expire \/ \E s \in Sessions : Revoke(s)
  BY <1>1, <1>6 DEF CreatePairing, RevokeAll, Expire, Revoke
<1>7. CASE UNCHANGED vars
  BY <1>1, <1>7 DEF vars
<1> HIDE DEF AskTyped
<1> QED
  BY ZenonT(60), <1>2, <1>3, <1>4, <1>5, <1>6, <1>7
     DEF Next, BoundedSteps, WaitingSteps, LoopSteps

LEMMA StepTypes ==
    ASSUME TypeButActive, [Next]_vars
    PROVE  TypeButActive'
<1> USE DEF TypeButActive, Goto
<1>a. AskTyped'
  BY AskStep
<1>1. ASSUME UNCHANGED regVars, UNCHANGED history, ConnTypes' PROVE TypeButActive'
  BY <1>a, <1>1 DEF RegTypes, regVars, history
<1>2. ASSUME UNCHANGED connVars, UNCHANGED reqVars,
             pc' \in [Conns -> Labels], RegTypes'
      PROVE  TypeButActive'
  BY <1>a, <1>2 DEF ConnTypes, connVars, reqVars
<1>3. ASSUME NEW c \in Conns,
             Accept(c) \/ ReadRequest(c) \/ CheckSession(c) \/ Dial(c) \/ CopyEnds(c)
      PROVE  TypeButActive'
  <2>1. UNCHANGED regVars /\ UNCHANGED history
    BY <1>3 DEF Accept, ReadRequest, CheckSession, Dial, CopyEnds
  <2>2. CASE Accept(c)
    BY <1>1, <2>1, <2>2 DEF Accept, ConnTypes, reqVars, Labels
  <2>3. CASE ReadRequest(c)
    <3>1. pc' \in [Conns -> Labels]
      BY <2>3 DEF ReadRequest, ConnTypes, Labels
    <3>2. asks' \in [Conns -> Sessions \union {0}]
      BY <2>3 DEF ReadRequest, ConnTypes
    <3> QED
      BY <1>1, <2>1, <2>3, <3>1, <3>2 DEF ReadRequest, ConnTypes, connVars
  <2>4. CASE CheckSession(c)
    <3>1. pc' \in [Conns -> Labels]
      BY <2>4 DEF CheckSession, ConnTypes, Labels
    <3>2. boot' \in [Conns -> BOOLEAN]
      BY <2>4 DEF CheckSession, ConnTypes
    <3> QED
      BY <1>1, <2>1, <2>4, <3>1, <3>2 DEF CheckSession, ConnTypes, connVars
  <2>5. CASE Dial(c) \/ CopyEnds(c)
    <3>1. pc' \in [Conns -> Labels]
      BY <2>5 DEF Dial, CopyEnds, ConnTypes, Labels
    <3> QED
      BY <1>1, <2>1, <2>5, <3>1 DEF Dial, CopyEnds, ConnTypes, connVars, reqVars
  <2> QED
    BY <1>3, <2>2, <2>3, <2>4, <2>5
<1>4. ASSUME NEW c \in Conns, RegisterUpstream(c) \/ Deregister(c) \/ Uncount(c)
      PROVE  TypeButActive'
  <2>1. pc' \in [Conns -> Labels]
    BY <1>4 DEF RegisterUpstream, Deregister, Uncount, ConnTypes, Labels
  <2>2. streams' \in [Conns -> SUBSET Sides] /\ shut' \in [Conns -> SUBSET Sides]
    BY <1>4 DEF RegisterUpstream, Register, Deregister, Uncount, ConnTypes, Sides
  <2> QED
    BY <1>1, <1>4, <2>1, <2>2
       DEF RegisterUpstream, Deregister, Uncount, ConnTypes, reqVars
<1>5. ASSUME NEW c \in Conns, Pair(c) PROVE TypeButActive'
  <2>1. pc' \in [Conns -> Labels]
    BY <1>5 DEF Pair, ConnTypes, Labels
  <2>2. attempts' \in 0 .. MaxAttempts
    BY <1>5, LimitsArePositive DEF Pair, RegTypes, regVars
  <2>3. ASSUME lastSession # MaxSessions PROVE lastSession + 1 \in Sessions
    BY <2>3, LimitsArePositive DEF RegTypes, Sessions
  <2>4. lastSession' \in 0 .. MaxSessions
    BY <1>5, LimitsArePositive DEF Pair, RegTypes, regVars
  <2>5. tickets' \subseteq Sessions /\ sessions' \subseteq Sessions
    BY <1>5, <2>3 DEF Pair, RegTypes, regVars
  <2>6. pairedBy' \in [Sessions -> Codes \union {0}]
    BY <1>5, <2>3 DEF Pair, RegTypes, regVars, history
  <2>7. /\ pairing' \in Codes \union {0}
        /\ UNCHANGED <<lastCode, bootstrapped, launched>>
    BY <1>5 DEF Pair, RegTypes, regVars, history
  <2> QED
    BY <1>2, <1>5, <2>1, <2>2, <2>4, <2>5, <2>6, <2>7 DEF Pair, RegTypes
<1>6. ASSUME NEW c \in Conns, Connect(c) \/ Send(c) \/ Mark(c) PROVE TypeButActive'
  <2>1. pc' \in [Conns -> Labels]
    BY <1>6 DEF Connect, Send, Mark, ConnTypes, Labels
  <2>2. launched' \subseteq Sessions
    BY <1>6 DEF Connect, Send, Mark, AskTyped, RegTypes, history
  <2>3. tickets' \subseteq Sessions /\ bootstrapped' \subseteq Sessions
    BY <1>6 DEF Connect, Send, Mark, RegTypes, regVars
  <2> QED
    BY <1>2, <1>6, <2>1, <2>2, <2>3 DEF Connect, Send, Mark, RegTypes, regVars, history
<1>7. CASE RegisterClient \/ SpawnWorker
  <2>1. accepting \in Conns
    BY <1>7 DEF RegisterClient, SpawnWorker, ConnTypes
  <2>2. pc' \in [Conns -> Labels] /\ accepting' \in Conns \union {NoConn}
    BY <1>7, <2>1 DEF RegisterClient, SpawnWorker, ConnTypes, Labels
  <2>3. streams' \in [Conns -> SUBSET Sides] /\ shut' \in [Conns -> SUBSET Sides]
    BY <1>7, <2>1 DEF RegisterClient, SpawnWorker, Register, ConnTypes, Sides
  <2> QED
    BY <1>1, <1>7, <2>2, <2>3 DEF RegisterClient, SpawnWorker, ConnTypes, reqVars
<1>8. CASE LoopSees \/ LoopJoins \/ SetStop \/ FinishStop
  <2>1. streams' \in [Conns -> SUBSET Sides] /\ shut' \in [Conns -> SUBSET Sides]
    BY <1>8 DEF LoopSees, LoopJoins, SetStop, FinishStop, ShutdownAll, ConnTypes
  <2> QED
    BY <1>1, <1>8, <2>1 DEF LoopSees, LoopJoins, SetStop, FinishStop, ConnTypes, reqVars
<1>9. CASE CreatePairing \/ RevokeAll \/ Expire \/ \E s \in Sessions : Revoke(s)
  <2>1. RegTypes'
    BY <1>9, LimitsArePositive
       DEF CreatePairing, RevokeAll, Expire, Revoke, RegTypes, Codes, history
  <2> QED
    BY <1>2, <1>9, <2>1 DEF CreatePairing, RevokeAll, Expire, Revoke, ConnTypes
<1>10. CASE UNCHANGED vars
  BY <1>a, <1>10 DEF vars, ConnTypes, RegTypes, connVars, reqVars, regVars, history
<1> HIDE DEF TypeButActive
<1> QED
  BY ZenonT(60), <1>3, <1>4, <1>5, <1>6, <1>7, <1>8, <1>9, <1>10
     DEF Next, BoundedSteps, WaitingSteps, LoopSteps

-----------------------------------------------------------------------------
(* The connections, their sockets and the stop.                            *)

\* What a step does to one connection at most: the others stay where they are.
OnlyMoves(c) == \A d \in Conns \ {c} : pc'[d] = pc[d]

LEMMA ShapeStep ==
    ASSUME ServerInv, [Next]_vars
    PROVE  AcceptShape' /\ StreamShape' /\ StopShape'
<1> USE NoConnIsNone
<1> DEFINE Shapes == AcceptShape /\ StreamShape /\ StopShape
<1> USE DEF ServerInv, TypeButActive, ConnTypes, AcceptShape, StreamShape, StopShape,
            WorkersEnded,
            connVars, Goto
<1>1. ASSUME NEW c \in Conns, Accept(c) PROVE Shapes'
  BY <1>1 DEF Accept
<1>2. ASSUME NEW c \in Conns,
             \/ ReadRequest(c) \/ Pair(c) \/ Connect(c) \/ CheckSession(c) \/ Dial(c)
             \/ Send(c) \/ Mark(c) \/ CopyEnds(c)
      PROVE  Shapes'
  <2>1. /\ UNCHANGED connVars /\ OnlyMoves(c)
        /\ pc[c] \notin {"new", "gone", "counted", "registered"}
        /\ pc'[c] \notin {"new", "gone", "counted", "registered", "uncount"}
    BY <1>2 DEF ReadRequest, Pair, Connect, CheckSession, Dial, Send, Mark, CopyEnds,
                OnlyMoves
  <2> QED
    BY <2>1 DEF OnlyMoves
<1>3. ASSUME NEW c \in Conns, RegisterUpstream(c) PROVE Shapes'
  BY <1>3 DEF RegisterUpstream, Register
<1>4. ASSUME NEW c \in Conns, Deregister(c) \/ Uncount(c) PROVE Shapes'
  BY <1>4 DEF Deregister, Uncount
<1>5. CASE RegisterClient
  BY <1>5 DEF RegisterClient, Register
<1>6. CASE SpawnWorker
  BY <1>6 DEF SpawnWorker
<1>7. CASE LoopSees \/ LoopJoins \/ SetStop \/ FinishStop
  BY <1>7 DEF LoopSees, LoopJoins, SetStop, FinishStop, ShutdownAll
<1>8. CASE CreatePairing \/ RevokeAll \/ Expire \/ \E s \in Sessions : Revoke(s)
  BY <1>8 DEF CreatePairing, RevokeAll, Expire, Revoke
<1>9. CASE UNCHANGED vars
  BY <1>9 DEF vars
<1> QED
  BY <1>1, <1>2, <1>3, <1>4, <1>5, <1>6, <1>7, <1>8, <1>9
     DEF Next, BoundedSteps, WaitingSteps, LoopSteps

LEMMA ServerInvariance == Spec => []ServerInv
<1>1. ASSUME Init PROVE ServerInv
  <2>1. ConnTypes
    BY <1>1 DEF Init, ConnTypes, Labels, Sides
  <2>2. RegTypes /\ AskTyped
    BY <1>1, LimitsArePositive DEF Init, RegTypes, AskTyped
  <2>3. AcceptShape /\ StreamShape /\ StopShape
    BY <1>1 DEF Init, AcceptShape, StreamShape, StopShape
  <2> QED
    BY <2>1, <2>2, <2>3 DEF ServerInv, TypeButActive
<1>2. ServerInv /\ [Next]_vars => ServerInv'
  BY StepTypes, ShapeStep DEF ServerInv
<1> QED
  BY <1>1, <1>2, PTL DEF Spec

\* When the stop has returned the server has no thread and no socket left,
\* whatever connections were doing when it began.
THEOREM StopLeavesNothing == Spec => []StoppedIsQuiet
<1>1. ServerInv => StoppedIsQuiet
  BY DEF ServerInv, StopShape, StreamShape, WorkersEnded, StoppedIsQuiet
<1> QED
  BY ServerInvariance, <1>1, PTL

-----------------------------------------------------------------------------
(* The counter.                                                            *)

\* The three ways a step can change the connections served and their number.
CountStays == Served' = Served /\ active' = active
CountsUp ==
    \E c \in Conns \ Served : /\ Served' = Served \cup {c}
                              /\ active' = active + 1 /\ active < MaxActive
CountsDown ==
    \E c \in Served : Served' = Served \ {c} /\ active' = active - 1

LEMMA CountMoves ==
    ASSUME ServerInv, CountInv, [Next]_vars
    PROVE  CountStays \/ CountsUp \/ CountsDown
<1> USE NoConnIsNone, LimitsArePositive
<1> DEFINE Moves == CountStays \/ CountsUp \/ CountsDown
<1>t. /\ pc \in [Conns -> Labels] /\ accepting \in Conns \cup {NoConn}
      /\ active \in Nat /\ MaxActive \in Nat
      /\ accepting # NoConn => accepting \in Conns
  BY FS_CardinalityType DEF ServerInv, TypeButActive, ConnTypes, RegTypes, CountInv, ActiveIsExact, Served
<1> USE <1>t DEF Served, Goto, connVars
<1>1. ASSUME NEW c \in Conns, Accept(c) PROVE Moves
  <2>1. CASE active >= MaxActive
    BY <1>1, <2>1 DEF Accept, CountStays
  <2>2. CASE active < MaxActive
    <3>1. Served' = Served \cup {c} /\ c \notin Served /\ active' = active + 1
      BY <1>1, <2>2 DEF Accept
    <3> QED
      BY <2>2, <3>1 DEF CountsUp
  <2> QED
    BY <2>1, <2>2
<1>2. ASSUME NEW c \in Conns,
             \/ ReadRequest(c) \/ Pair(c) \/ Connect(c) \/ CheckSession(c) \/ Dial(c)
             \/ Send(c) \/ Mark(c) \/ CopyEnds(c) \/ RegisterUpstream(c) \/ Deregister(c)
      PROVE  Moves
  <2>1. /\ active' = active /\ OnlyMoves(c)
        /\ pc[c] \notin {"new", "gone"} /\ pc'[c] \notin {"new", "gone"}
    BY <1>2 DEF ReadRequest, Pair, Connect, CheckSession, Dial, Send, Mark, CopyEnds,
                RegisterUpstream, Deregister, OnlyMoves
  <2> QED
    BY <2>1 DEF OnlyMoves, CountStays
<1>3. ASSUME NEW c \in Conns, Uncount(c) PROVE Moves
  BY <1>3 DEF Uncount, CountsDown
<1>4. CASE RegisterClient
  <2>1. CASE stop
    BY <1>4, <2>1 DEF RegisterClient, CountsDown
  <2>2. CASE ~stop
    BY <1>4, <2>2 DEF RegisterClient, CountStays
  <2> QED
    BY <2>1, <2>2
<1>5. CASE SpawnWorker
  <2>1. CASE Goto(accepting, "reading") /\ active' = active
    BY <1>5, <2>1 DEF SpawnWorker, CountStays
  <2>2. CASE Goto(accepting, "gone") /\ active' = active - 1
    BY <1>5, <2>2 DEF SpawnWorker, CountsDown
  <2> QED
    BY <1>5, <2>1, <2>2 DEF SpawnWorker
<1>6. CASE LoopSees \/ LoopJoins \/ SetStop \/ FinishStop
  BY <1>6 DEF LoopSees, LoopJoins, SetStop, FinishStop, CountStays
<1>7. CASE CreatePairing \/ RevokeAll \/ Expire \/ \E s \in Sessions : Revoke(s)
  BY <1>7 DEF CreatePairing, RevokeAll, Expire, Revoke, CountStays
<1>8. CASE UNCHANGED vars
  BY <1>8 DEF vars, CountStays
<1> QED
  BY <1>1, <1>2, <1>3, <1>4, <1>5, <1>6, <1>7, <1>8
     DEF Next, BoundedSteps, WaitingSteps, LoopSteps

LEMMA CountInvStep ==
    ASSUME ServerInv, CountInv, [Next]_vars
    PROVE  CountInv'
<1> USE LimitsArePositive
<1>1. IsFiniteSet(Served) /\ active = Cardinality(Served) /\ active \in Nat
  BY FS_CardinalityType DEF CountInv, ActiveIsExact, Served
<1>2. CASE CountStays
  BY <1>1, <1>2 DEF CountInv, CountStays, ActiveIsExact, Served
<1>3. ASSUME NEW c \in Conns \ Served, Served' = Served \cup {c},
             active' = active + 1, active < MaxActive
      PROVE  CountInv'
  <2>1. IsFiniteSet(Served') /\ Cardinality(Served') = Cardinality(Served) + 1
    BY <1>1, <1>3, FS_AddElement
  <2> QED
    BY <1>1, <1>3, <2>1 DEF CountInv, ActiveIsExact, Served
<1>4. ASSUME NEW c \in Served, Served' = Served \ {c}, active' = active - 1
      PROVE  CountInv'
  <2>1. IsFiniteSet(Served') /\ Cardinality(Served') = Cardinality(Served) - 1
    BY <1>1, <1>4, FS_RemoveElement
  <2> QED
    BY <1>1, <1>4, <2>1 DEF CountInv, ActiveIsExact, Served
<1> QED
  BY <1>2, <1>3, <1>4, CountMoves DEF CountsUp, CountsDown

LEMMA CountInvariance == Spec => []CountInv
<1>1. Init => CountInv
  <2> SUFFICES ASSUME Init PROVE CountInv
    OBVIOUS
  <2>1. Served = {}
    BY DEF Init, Served
  <2> QED
    BY <2>1, FS_EmptySet, LimitsArePositive DEF Init, CountInv, ActiveIsExact, Served
<1>2. ServerInv /\ CountInv /\ [Next]_vars => CountInv'
  BY CountInvStep
<1> QED
  BY <1>1, <1>2, ServerInvariance, PTL DEF Spec

\* The counter that refuses connections is exact on every path that accepts,
\* serves, fails or gives up a connection, for any number of connections.
THEOREM CounterIsExact == Spec => []ActiveIsExact
<1>1. CountInv => ActiveIsExact
  BY DEF CountInv
<1> QED
  BY CountInvariance, <1>1, PTL

\* Every variable keeps its type; the counter never leaves 0 .. MaxActive, so
\* its atomic subtraction does not wrap.
THEOREM TypeCorrect == Spec => []TypeOK
<1>1. ServerInv /\ CountInv => TypeOK
  BY FS_CardinalityType, LimitsArePositive
     DEF ServerInv, TypeButActive, ConnTypes, RegTypes, CountInv, ActiveIsExact, Served, TypeOK
<1> QED
  BY ServerInvariance, CountInvariance, <1>1, PTL

-----------------------------------------------------------------------------
(* The registry.                                                           *)

\* The current code has paired nobody, and codes are handed out in order.
CodesFresh ==
    /\ pairing <= lastCode
    /\ \A s \in Sessions : /\ pairedBy[s] <= lastCode
                           /\ pairing # 0 => pairedBy[s] # pairing

\* Between the two registry locks the launch request has been written.
LaunchShape == \A c \in Conns : pc[c] = "mark" /\ boot[c] => asks[c] \in launched

RegistryInv == SessionsAreSound /\ CodesFresh /\ LaunchShape

LEMMA RegistryStep ==
    ASSUME TypeButActive, RegistryInv, [Next]_vars
    PROVE  RegistryInv'
<1> USE DEF TypeButActive, RegistryInv, SessionsAreSound, TicketsNameSessions,
            CodesPairOnce, BootstrappedWasLaunched, CodesFresh, LaunchShape, Goto
<1>1. ASSUME sessions' = sessions, tickets' \subseteq tickets,
             bootstrapped' \subseteq bootstrapped, launched \subseteq launched',
             UNCHANGED <<pairing, lastCode, pairedBy>>,
             \A d \in Conns : pc'[d] = "mark" =>
                pc[d] = "mark" /\ asks'[d] = asks[d] /\ boot'[d] = boot[d]
      PROVE  RegistryInv'
  BY <1>1
<1>2. ASSUME NEW c \in Conns, Pair(c) PROVE RegistryInv'
  <2>1. \A d \in Conns : pc'[d] = "mark" =>
           pc[d] = "mark" /\ asks'[d] = asks[d] /\ boot'[d] = boot[d]
    BY <1>2 DEF Pair, ConnTypes, reqVars
  <2>2. UNCHANGED <<lastCode, bootstrapped, launched>>
    BY <1>2 DEF Pair, regVars, history
  <2>3. CASE UNCHANGED <<pairing, tickets, sessions, pairedBy>>
    BY <1>1, <2>1, <2>2, <2>3
  <2>4. ASSUME NEW code \in Codes, pairing = code,
               pairing' = 0, sessions' = sessions \union {lastSession'},
               tickets' = tickets \union {lastSession'},
               pairedBy' = [pairedBy EXCEPT ![lastSession'] = code]
        PROVE  RegistryInv'
    <3>1. \A s \in Sessions : pairedBy'[s] \in {code, pairedBy[s]}
      BY <2>4 DEF RegTypes
    <3>2. \A s \in Sessions : s # lastSession' => pairedBy'[s] = pairedBy[s]
      BY <2>4 DEF RegTypes
    <3>3. code # 0 /\ code <= lastCode
      BY <2>4 DEF Codes
    <3>4. CodesPairOnce'
      BY <2>4, <3>1, <3>2, <3>3
    <3>5. CodesFresh'
      BY <2>2, <2>4, <3>1, <3>3 DEF RegTypes
    <3> QED
      BY <2>1, <2>2, <2>4, <3>4, <3>5
  <2>5. \/ UNCHANGED <<pairing, tickets, sessions, pairedBy>>
        \/ \E code \in Codes :
              /\ pairing = code
              /\ pairing' = 0 /\ sessions' = sessions \union {lastSession'}
              /\ tickets' = tickets \union {lastSession'}
              /\ pairedBy' = [pairedBy EXCEPT ![lastSession'] = code]
    BY <1>2 DEF Pair, regVars, history
  <2> QED
    BY <2>3, <2>4, <2>5
<1>3. ASSUME NEW c \in Conns,
             \/ ReadRequest(c) \/ Connect(c) \/ CheckSession(c) \/ Accept(c) \/ Dial(c)
             \/ RegisterUpstream(c) \/ CopyEnds(c) \/ Deregister(c) \/ Uncount(c)
      PROVE  RegistryInv'
  <2>1. /\ sessions' = sessions /\ tickets' \subseteq tickets
        /\ UNCHANGED <<bootstrapped, launched, pairing, lastCode, pairedBy>>
    BY <1>3 DEF ReadRequest, Connect, CheckSession, Accept, Dial, RegisterUpstream,
                CopyEnds, Deregister, Uncount, regVars, history
  <2>2. \A d \in Conns : pc'[d] = "mark" =>
           pc[d] = "mark" /\ asks'[d] = asks[d] /\ boot'[d] = boot[d]
    BY <1>3 DEF ReadRequest, Connect, CheckSession, Accept, Dial, RegisterUpstream,
                CopyEnds, Deregister, Uncount, reqVars, ConnTypes
  <2> QED
    BY <1>1, <2>1, <2>2
<1>4. ASSUME NEW c \in Conns, Send(c) PROVE RegistryInv'
  <2>1. UNCHANGED regVars /\ pairedBy' = pairedBy /\ launched \subseteq launched'
    BY <1>4 DEF Send, history
  <2>2. LaunchShape'
    BY <1>4, <2>1 DEF Send, reqVars, ConnTypes
  <2> QED
    BY <2>1, <2>2 DEF regVars
<1>5. ASSUME NEW c \in Conns, Mark(c) PROVE RegistryInv'
  <2>1. UNCHANGED <<pairing, lastCode, tickets, sessions, pairedBy, launched>>
    BY <1>5 DEF Mark, history
  <2>2. BootstrappedWasLaunched'
    BY <1>5, <2>1 DEF Mark
  <2>3. LaunchShape'
    BY <1>5, <2>1 DEF Mark, reqVars, ConnTypes
  <2> QED
    BY <2>1, <2>2, <2>3
<1>6. CASE RegisterClient \/ SpawnWorker
  BY <1>1, <1>6 DEF RegisterClient, SpawnWorker, reqVars, regVars, history, ConnTypes
<1>7. CASE LoopSees \/ LoopJoins \/ SetStop \/ FinishStop \/ UNCHANGED vars
  BY <1>1, <1>7 DEF LoopSees, LoopJoins, SetStop, FinishStop, vars, reqVars, regVars,
                    history
<1>8. CASE CreatePairing
  <2>1. CodesFresh'
    BY <1>8 DEF CreatePairing, RegTypes, Codes, history
  <2> QED
    BY <1>8, <2>1 DEF CreatePairing, reqVars, history
<1>9. CASE RevokeAll \/ Expire \/ \E s \in Sessions : Revoke(s)
  <2>1. /\ pairing' \in {0, pairing} /\ UNCHANGED <<lastCode, pairedBy, launched>>
        /\ bootstrapped' \subseteq bootstrapped
        /\ UNCHANGED <<pc, reqVars>>
    BY <1>9 DEF RevokeAll, Expire, Revoke, history
  <2>2. CodesFresh'
    BY <2>1 DEF RegTypes
  <2>3. TicketsNameSessions'
    BY <1>9 DEF RevokeAll, Expire, Revoke
  <2> QED
    BY <2>1, <2>2, <2>3 DEF reqVars
<1> HIDE DEF RegistryInv
<1> QED
  BY ZenonT(60), <1>2, <1>3, <1>4, <1>5, <1>6, <1>7, <1>8, <1>9
     DEF Next, BoundedSteps, WaitingSteps, LoopSteps

\* However pairing, exchange, launch, revocation and expiry cross: a ticket
\* names a session, a code pairs one session, and only a session whose launch
\* request was written counts as bootstrapped.
THEOREM SessionsStaySound == Spec => []SessionsAreSound
<1>1. Init => RegistryInv
  BY DEF Init, RegistryInv, SessionsAreSound, TicketsNameSessions, CodesPairOnce,
         BootstrappedWasLaunched, CodesFresh, LaunchShape
<1>2. ServerInv /\ RegistryInv /\ [Next]_vars => RegistryInv'
  BY RegistryStep DEF ServerInv
<1>3. RegistryInv => SessionsAreSound
  BY DEF RegistryInv
<1> QED
  BY <1>1, <1>2, <1>3, ServerInvariance, PTL DEF Spec
=============================================================================
