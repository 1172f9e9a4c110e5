---------------------- MODULE GatewayLifecycle_proofs ----------------------
(* What is proved of GatewayLifecycle for any number of restarting threads *)
(* and of generations (gateway_host/lifecycle.rs and commands.rs).         *)
EXTENDS GatewayLifecycle, TLAPS

-----------------------------------------------------------------------------
(* The invariant.                                                          *)

StopLabels == {"take", "begin_stop", "join", "settle"}
Holding == {"begin_stop", "join", "settle", "begin_start"}
StartLabels == {"spawn", "recheck", "give_up", "publish"}
PassLabels == {"pass1", "pass1_settle", "wait", "pass2", "pass2_settle", "exited"}

\* The lifecycle mutex excludes the threads that stop or begin a start.
SerialHeld == \A t \in Threads : serial = t <=> pc[t] \in Holding

\* Where a thread may go after the stop and the look it is in.
Continuations ==
    /\ back[Main] \in {"idle", "revoke", "begin_start", "probed"}
    /\ \A t \in Restarters : back[t] \in {"idle", "revoke"}
    /\ back[Exit] \in {"idle", "pass1", "pass2"}
    /\ resume \in {"idle", "start", "recheck", "verify"}

\* Each kind of thread keeps to its own procedures.
OwnProcedures ==
    /\ \A t \in Restarters :
          pc[t] \in StopLabels \union {"idle", "revoke", "settle_runtime"}
    /\ pc[Main] \notin PassLabels
    /\ pc[Exit] \in StopLabels \union PassLabels \union {"idle"}
    /\ quitting <=> pc[Exit] # "idle"
    /\ quitting <=> back[Exit] # "idle"

\* Between begin_stop and the end of the serial section there is no server.
NoneWhileStopping ==
    \A t \in Threads :
        /\ pc[t] \in {"join", "settle", "begin_start"} => server = NoServer
        /\ joining[t] # 0 => pc[t] = "join"

\* The main thread has a start in flight exactly while cmd.gw names it.
InStart ==
    \/ pc[Main] \in StartLabels
    \/ /\ resume = "recheck"
       /\ \/ pc[Main] \in {"probe", "probed"}
          \/ pc[Main] \in StopLabels /\ back[Main] = "probed"
StartNamed ==
    /\ InStart <=> cmd.gw # 0
    /\ cmd.gw # 0 => cmd.gw = generation

\* A start that has not begun its generation yet still has one left.
BeforeBegin ==
    \/ pc[Main] \in {"start", "begin_start"}
    \/ resume = "start" /\ pc[Main] \in {"probe", "probed"}
    \/ /\ pc[Main] \in StopLabels
       /\ back[Main] = "begin_start" \/ (back[Main] = "probed" /\ resume = "start")
RoomLeft == BeforeBegin => generation < MaxGateway

\* Ports are bound by generations that have begun.
ListeningBegun ==
    /\ \A g \in listening : g <= generation
    /\ pc[Main] \in {"spawn", "give_up"} => cmd.gw \notin listening

\* After begin_stop of the first pass nothing is on its way to be published.
PastStop ==
    \/ Drained
    \/ back[Exit] = "pass1" /\ pc[Exit] \in {"join", "settle"}
NothingToPublish ==
    PastStop => /\ server = NoServer
                /\ ~(phase = "Starting" /\ pc[Main] = "publish")

\* EveryServerOwned, without the set of what is being joined.
OwnedBySomeone ==
    \A g \in listening :
        g = server.gw \/ g = cmd.gw \/ \E t \in Threads : joining[t] = g

IInv == /\ TypeOK /\ SerialHeld /\ Continuations /\ OwnProcedures
        /\ NoneWhileStopping /\ StartNamed /\ ListeningBegun
        /\ RoomLeft /\ NothingToPublish /\ OwnedBySomeone /\ ReadyMeansNewestServer

-----------------------------------------------------------------------------
(* One lemma per action.  The constants and what is only plumbing are used *)
(* everywhere.                                                             *)
USE ThreadsDiffer, NobodyIsNoThread, BoundsArePositive
USE DEF Threads, NoServer, Goto, gwVars, runtime, lsVars

LEMMA TakeSerialStep == ASSUME IInv, NEW t \in Threads, TakeSerial(t) PROVE IInv'
BY SMTT(60) DEF TakeSerial, IInv, TypeOK, SerialHeld, Continuations, OwnProcedures,
     NoneWhileStopping, StartNamed, InStart, RoomLeft, BeforeBegin,
     ListeningBegun, NothingToPublish, PastStop, Drained, OwnedBySomeone,
     ReadyMeansNewestServer, StopLabels, Holding, StartLabels, PassLabels,
     Servers, Phases, Labels

LEMMA BeginStopStep == ASSUME IInv, NEW t \in Threads, BeginStop(t) PROVE IInv'
BY SMTT(60) DEF BeginStop, IInv, TypeOK, SerialHeld, Continuations, OwnProcedures,
     NoneWhileStopping, StartNamed, InStart, RoomLeft, BeforeBegin,
     ListeningBegun, NothingToPublish, PastStop, Drained, OwnedBySomeone,
     ReadyMeansNewestServer, StopLabels, Holding, StartLabels, PassLabels,
     Servers, Phases, Labels

LEMMA JoinStep == ASSUME IInv, NEW t \in Threads, Join(t) PROVE IInv'
<1> USE DEF IInv, Join
<1>1. TypeOK'
  <2>1. open' \in BOOLEAN /\ alive' \in BOOLEAN /\ quitting' \in BOOLEAN
    BY DEF TypeOK
  <2>2. pc' \in [Threads -> Labels] /\ back' \in [Threads -> Labels] /\ resume' \in Labels
    BY SMTT(60) DEF TypeOK, Continuations, Labels
  <2>3. server' \in Servers /\ joining' \in [Threads -> 0..MaxGateway]
    BY SMTT(60) DEF TypeOK, Servers
  <2>4. listening' \subseteq 1..MaxGateway
    <3>1. listening' \subseteq listening
      OBVIOUS
    <3> QED
      BY <3>1, Zenon DEF TypeOK
  <2>5. cmd' \in [lease : 0..MaxRuntime, seen : 0..MaxRuntime, gw : 0..MaxGateway]
    BY SMTT(60) DEF TypeOK, Servers
  <2>6. epoch' \in 0..MaxRuntime /\ lease' \in 0..MaxRuntime /\ generation' \in 0..MaxGateway
    BY SMTT(60) DEF TypeOK
  <2>7. phase' \in Phases /\ serial' \in Threads \union {NoThread}
    BY SMTT(60) DEF TypeOK, Phases
  <2> QED
    BY <2>1, <2>2, <2>3, <2>4, <2>5, <2>6, <2>7, Zenon DEF TypeOK
<1>2. SerialHeld'
  BY SMTT(60) DEF TypeOK, SerialHeld, Continuations, OwnProcedures, Holding, StopLabels,
      PassLabels
<1>3. Continuations'
  BY SMTT(60) DEF TypeOK, Continuations
<1>4. OwnProcedures'
  BY SMTT(60) DEF TypeOK, Continuations, OwnProcedures, StopLabels, PassLabels
<1>5. NoneWhileStopping'
  BY SMTT(60) DEF TypeOK, SerialHeld, NoneWhileStopping, OwnProcedures,
      ReadyMeansNewestServer, Holding, StopLabels, PassLabels
<1>6. StartNamed'
  BY SMTT(60) DEF TypeOK, StartNamed, InStart, Continuations, OwnProcedures, StartLabels,
      StopLabels, PassLabels
<1>7. ListeningBegun'
  BY SMTT(60) DEF TypeOK, ListeningBegun, StartNamed, InStart, StartLabels, StopLabels
<1>8. NothingToPublish'
  BY SMTT(60) DEF TypeOK, NothingToPublish, PastStop, Drained, OwnProcedures,
      Continuations, PassLabels, StopLabels
<1>9. OwnedBySomeone'
  BY SMTT(60) DEF TypeOK, OwnedBySomeone, NoneWhileStopping, StartNamed, InStart,
      ListeningBegun, ReadyMeansNewestServer, StartLabels, StopLabels
<1>10. ReadyMeansNewestServer'
  BY SMTT(60) DEF TypeOK, ReadyMeansNewestServer, NoneWhileStopping, StartNamed, InStart,
      StartLabels, StopLabels
<1>11. RoomLeft'
  BY SMTT(60) DEF TypeOK, RoomLeft, BeforeBegin, Continuations, OwnProcedures, StopLabels,
      PassLabels
<1> QED
  BY <1>1, <1>2, <1>3, <1>4, <1>5, <1>6, <1>7, <1>8, <1>9, <1>10, <1>11

LEMMA SettleStep == ASSUME IInv, NEW t \in Threads, Settle(t) PROVE IInv'
BY SMTT(60) DEF Settle, IInv, TypeOK, SerialHeld, Continuations, OwnProcedures,
     NoneWhileStopping, StartNamed, InStart, RoomLeft, BeforeBegin,
     ListeningBegun, NothingToPublish, PastStop, Drained, OwnedBySomeone,
     ReadyMeansNewestServer, StopLabels, Holding, StartLabels, PassLabels,
     Servers, Phases, Labels

LEMMA ProbeStep == ASSUME IInv, Probe PROVE IInv'
BY SMTT(60) DEF Probe, CallStop, IInv, TypeOK, SerialHeld, Continuations, OwnProcedures,
     NoneWhileStopping, StartNamed, InStart, RoomLeft, BeforeBegin,
     ListeningBegun, NothingToPublish, PastStop, Drained, OwnedBySomeone,
     ReadyMeansNewestServer, StopLabels, Holding, StartLabels, PassLabels,
     Servers, Phases, Labels

LEMMA ProbedStep == ASSUME IInv, Probed PROVE IInv'
BY SMTT(60) DEF Probed, IInv, TypeOK, SerialHeld, Continuations, OwnProcedures,
     NoneWhileStopping, StartNamed, InStart, RoomLeft, BeforeBegin,
     ListeningBegun, NothingToPublish, PastStop, Drained, OwnedBySomeone,
     ReadyMeansNewestServer, StopLabels, Holding, StartLabels, PassLabels,
     Servers, Phases, Labels

LEMMA StartCheckStep == ASSUME IInv, StartCheck PROVE IInv'
BY SMTT(60) DEF StartCheck, Transitioning, IInv, TypeOK, SerialHeld, Continuations,
     OwnProcedures, NoneWhileStopping, StartNamed, InStart, RoomLeft,
     BeforeBegin, ListeningBegun, NothingToPublish, PastStop, Drained,
     OwnedBySomeone, ReadyMeansNewestServer, StopLabels, Holding, StartLabels,
     PassLabels, Servers, Phases, Labels

LEMMA BeginStartStep == ASSUME IInv, BeginStart PROVE IInv'
<1> USE DEF IInv, BeginStart
<1>1. TypeOK'
  <2>1. open' \in BOOLEAN /\ alive' \in BOOLEAN /\ quitting' \in BOOLEAN
    BY DEF TypeOK
  <2>2. pc' \in [Threads -> Labels] /\ back' \in [Threads -> Labels] /\ resume' \in Labels
    BY SMTT(60) DEF TypeOK, Continuations, Labels
  <2>3. server' \in Servers /\ joining' \in [Threads -> 0..MaxGateway]
    BY SMTT(60) DEF TypeOK, Servers
  <2>4. listening' \subseteq 1..MaxGateway
    BY SMTT(60) DEF TypeOK
  <2>5. cmd' \in [lease : 0..MaxRuntime, seen : 0..MaxRuntime, gw : 0..MaxGateway]
    BY SMTT(60) DEF TypeOK, RoomLeft, BeforeBegin
  <2>6. epoch' \in 0..MaxRuntime /\ lease' \in 0..MaxRuntime /\ generation' \in 0..MaxGateway
    BY SMTT(60) DEF TypeOK, RoomLeft, BeforeBegin
  <2>7. phase' \in Phases /\ serial' \in Threads \union {NoThread}
    BY SMTT(60) DEF TypeOK, Phases
  <2> QED
    BY <2>1, <2>2, <2>3, <2>4, <2>5, <2>6, <2>7, Zenon DEF TypeOK
<1>2. SerialHeld'
  BY SMTT(60) DEF TypeOK, SerialHeld, Continuations, OwnProcedures, Holding, StopLabels,
      PassLabels
<1>3. Continuations'
  BY SMTT(60) DEF TypeOK, Continuations
<1>4. OwnProcedures'
  BY SMTT(60) DEF TypeOK, Continuations, OwnProcedures, StopLabels, PassLabels
<1>5. NoneWhileStopping'
  BY SMTT(60) DEF TypeOK, SerialHeld, NoneWhileStopping, OwnProcedures,
      ReadyMeansNewestServer, Holding, StopLabels, PassLabels
<1>6. StartNamed'
  BY SMTT(60) DEF TypeOK, StartNamed, InStart, Continuations, OwnProcedures, StartLabels,
      StopLabels, PassLabels
<1>7. ListeningBegun'
  BY SMTT(60) DEF TypeOK, ListeningBegun, StartNamed, InStart, StartLabels, StopLabels
<1>8. NothingToPublish'
  BY SMTT(60) DEF TypeOK, NothingToPublish, PastStop, Drained, OwnProcedures,
      Continuations, PassLabels, StopLabels
<1>9. OwnedBySomeone'
  BY SMTT(60) DEF TypeOK, OwnedBySomeone, NoneWhileStopping, StartNamed, InStart,
      ListeningBegun, ReadyMeansNewestServer, StartLabels, StopLabels
<1>10. ReadyMeansNewestServer'
  BY SMTT(60) DEF TypeOK, ReadyMeansNewestServer, NoneWhileStopping, StartNamed, InStart,
      StartLabels, StopLabels
<1>11. RoomLeft'
  BY SMTT(60) DEF TypeOK, RoomLeft, BeforeBegin, Continuations, OwnProcedures, StopLabels,
      PassLabels
<1> QED
  BY <1>1, <1>2, <1>3, <1>4, <1>5, <1>6, <1>7, <1>8, <1>9, <1>10, <1>11

LEMMA SpawnStep == ASSUME IInv, Spawn PROVE IInv'
<1> USE DEF IInv, Spawn, EndStart, Fail, CallLiveLease
<1>1. TypeOK'
  <2>1. open' \in BOOLEAN /\ alive' \in BOOLEAN /\ quitting' \in BOOLEAN
    BY DEF TypeOK
  <2>2. pc' \in [Threads -> Labels] /\ back' \in [Threads -> Labels] /\ resume' \in Labels
    BY SMTT(60) DEF TypeOK, Continuations, Labels
  <2>3. server' \in Servers /\ joining' \in [Threads -> 0..MaxGateway]
    BY SMTT(60) DEF TypeOK, Servers
  <2>4. listening' \subseteq 1..MaxGateway
    <3>1. cmd.gw \in 1..MaxGateway
      BY DEF TypeOK, StartNamed, InStart, StartLabels
    <3>2. listening' \subseteq listening \union {cmd.gw}
      OBVIOUS
    <3> QED
      BY <3>1, <3>2, Zenon DEF TypeOK
  <2>5. cmd' \in [lease : 0..MaxRuntime, seen : 0..MaxRuntime, gw : 0..MaxGateway]
    BY SMTT(60) DEF TypeOK, Servers
  <2>6. epoch' \in 0..MaxRuntime /\ lease' \in 0..MaxRuntime /\ generation' \in 0..MaxGateway
    BY SMTT(60) DEF TypeOK
  <2>7. phase' \in Phases /\ serial' \in Threads \union {NoThread}
    BY SMTT(60) DEF TypeOK, Phases
  <2> QED
    BY <2>1, <2>2, <2>3, <2>4, <2>5, <2>6, <2>7, Zenon DEF TypeOK
<1>2. SerialHeld'
  BY SMTT(60) DEF TypeOK, SerialHeld, Continuations, OwnProcedures, Holding, StopLabels,
      PassLabels
<1>3. Continuations'
  BY SMTT(60) DEF TypeOK, Continuations
<1>4. OwnProcedures'
  BY SMTT(60) DEF TypeOK, Continuations, OwnProcedures, StopLabels, PassLabels
<1>5. NoneWhileStopping'
  BY SMTT(60) DEF TypeOK, SerialHeld, NoneWhileStopping, OwnProcedures,
      ReadyMeansNewestServer, Holding, StopLabels, PassLabels
<1>6. StartNamed'
  BY SMTT(60) DEF TypeOK, StartNamed, InStart, Continuations, OwnProcedures, StartLabels,
      StopLabels, PassLabels
<1>7. ListeningBegun'
  BY SMTT(60) DEF TypeOK, ListeningBegun, StartNamed, InStart, StartLabels, StopLabels
<1>8. NothingToPublish'
  BY SMTT(60) DEF TypeOK, NothingToPublish, PastStop, Drained, OwnProcedures,
      Continuations, PassLabels, StopLabels
<1>9. OwnedBySomeone'
  BY SMTT(60) DEF TypeOK, OwnedBySomeone, NoneWhileStopping, StartNamed, InStart,
      ListeningBegun, ReadyMeansNewestServer, StartLabels, StopLabels
<1>10. ReadyMeansNewestServer'
  BY SMTT(60) DEF TypeOK, ReadyMeansNewestServer, NoneWhileStopping, StartNamed, InStart,
      StartLabels, StopLabels
<1>11. RoomLeft'
  BY SMTT(60) DEF TypeOK, RoomLeft, BeforeBegin, Continuations, OwnProcedures, StopLabels,
      PassLabels
<1> QED
  BY <1>1, <1>2, <1>3, <1>4, <1>5, <1>6, <1>7, <1>8, <1>9, <1>10, <1>11

LEMMA RecheckStep == ASSUME IInv, Recheck PROVE IInv'
<1> USE DEF IInv
<1>0. /\ \/ pc' = [pc EXCEPT ![Main] = "give_up"] /\ listening' = listening \ {cmd.gw}
         \/ pc' = [pc EXCEPT ![Main] = "publish"] /\ listening' = listening
      /\ UNCHANGED <<server, cmd, joining, generation>>
  BY DEF Recheck
<1>1. TypeOK'
  <2>1. open' \in BOOLEAN /\ alive' \in BOOLEAN /\ quitting' \in BOOLEAN
    BY DEF Recheck, TypeOK
  <2>2. pc' \in [Threads -> Labels] /\ back' \in [Threads -> Labels] /\ resume' \in Labels
    BY SMTT(60) DEF Recheck, TypeOK, Continuations, Labels
  <2>3. server' \in Servers /\ joining' \in [Threads -> 0..MaxGateway]
    BY SMTT(60) DEF Recheck, TypeOK, Servers
  <2>4. listening' \subseteq 1..MaxGateway
    <3>1. listening' \subseteq listening
      BY <1>0
    <3> QED
      BY <3>1, Zenon DEF Recheck, TypeOK
  <2>5. cmd' \in [lease : 0..MaxRuntime, seen : 0..MaxRuntime, gw : 0..MaxGateway]
    BY SMTT(60) DEF Recheck, TypeOK, Servers
  <2>6. epoch' \in 0..MaxRuntime /\ lease' \in 0..MaxRuntime /\ generation' \in 0..MaxGateway
    BY SMTT(60) DEF Recheck, TypeOK
  <2>7. phase' \in Phases /\ serial' \in Threads \union {NoThread}
    BY SMTT(60) DEF Recheck, TypeOK, Phases
  <2> QED
    BY <2>1, <2>2, <2>3, <2>4, <2>5, <2>6, <2>7, Zenon DEF Recheck, TypeOK
<1>2. SerialHeld'
  BY SMTT(60) DEF Recheck, TypeOK, SerialHeld, Continuations, OwnProcedures, Holding, StopLabels,
      PassLabels
<1>3. Continuations'
  BY SMTT(60) DEF Recheck, TypeOK, Continuations
<1>4. OwnProcedures'
  BY SMTT(60) DEF Recheck, TypeOK, Continuations, OwnProcedures, StopLabels, PassLabels
<1>5. NoneWhileStopping'
  BY SMTT(60) DEF Recheck, TypeOK, SerialHeld, NoneWhileStopping, OwnProcedures,
      ReadyMeansNewestServer, Holding, StopLabels, PassLabels
<1>6. StartNamed'
  BY SMTT(60) DEF Recheck, TypeOK, StartNamed, InStart, Continuations, OwnProcedures, StartLabels,
      StopLabels, PassLabels
<1>7. ListeningBegun'
  <2>1. CASE pc' = [pc EXCEPT ![Main] = "give_up"] /\ listening' = listening \ {cmd.gw}
    BY <1>0, <2>1, SMTT(60) DEF TypeOK, ListeningBegun, StartNamed, InStart, StartLabels
  <2>2. CASE pc' = [pc EXCEPT ![Main] = "publish"] /\ listening' = listening
    BY <1>0, <2>2, SMTT(60) DEF TypeOK, ListeningBegun, StartNamed, InStart, StartLabels
  <2> QED
    BY <1>0, <2>1, <2>2
<1>8. NothingToPublish'
  BY SMTT(60) DEF Recheck, TypeOK, NothingToPublish, PastStop, Drained, OwnProcedures,
      Continuations, PassLabels, StopLabels
<1>9. OwnedBySomeone'
  <2>1. CASE pc' = [pc EXCEPT ![Main] = "give_up"] /\ listening' = listening \ {cmd.gw}
    BY <1>0, <2>1, SMTT(60) DEF TypeOK, OwnedBySomeone, StartNamed, InStart, StartLabels
  <2>2. CASE pc' = [pc EXCEPT ![Main] = "publish"] /\ listening' = listening
    BY <1>0, <2>2, SMTT(60) DEF TypeOK, OwnedBySomeone, StartNamed, InStart, StartLabels
  <2> QED
    BY <1>0, <2>1, <2>2
<1>10. ReadyMeansNewestServer'
  BY SMTT(60) DEF Recheck, TypeOK, ReadyMeansNewestServer, NoneWhileStopping, StartNamed, InStart,
      StartLabels, StopLabels
<1>11. RoomLeft'
  BY SMTT(60) DEF Recheck, TypeOK, RoomLeft, BeforeBegin, Continuations, OwnProcedures, StopLabels,
      PassLabels
<1> QED
  BY <1>1, <1>2, <1>3, <1>4, <1>5, <1>6, <1>7, <1>8, <1>9, <1>10, <1>11

LEMMA GiveUpStartStep == ASSUME IInv, GiveUpStart PROVE IInv'
BY SMTT(60) DEF GiveUpStart, EndStart, Fail, IInv, TypeOK, SerialHeld, Continuations,
     OwnProcedures, NoneWhileStopping, StartNamed, InStart, RoomLeft,
     BeforeBegin, ListeningBegun, NothingToPublish, PastStop, Drained,
     OwnedBySomeone, ReadyMeansNewestServer, StopLabels, Holding, StartLabels,
     PassLabels, Servers, Phases, Labels

LEMMA PublishStep == ASSUME IInv, Publish PROVE IInv'
<1> USE DEF IInv, Publish, EndStart, CallLiveLease
<1>1. TypeOK'
  <2>1. open' \in BOOLEAN /\ alive' \in BOOLEAN /\ quitting' \in BOOLEAN
    BY DEF TypeOK
  <2>2. pc' \in [Threads -> Labels] /\ back' \in [Threads -> Labels] /\ resume' \in Labels
    BY SMTT(60) DEF TypeOK, Continuations, Labels
  <2>3. server' \in Servers /\ joining' \in [Threads -> 0..MaxGateway]
    BY SMTT(60) DEF TypeOK, Servers
  <2>4. listening' \subseteq 1..MaxGateway
    BY SMTT(60) DEF TypeOK
  <2>5. cmd' \in [lease : 0..MaxRuntime, seen : 0..MaxRuntime, gw : 0..MaxGateway]
    BY SMTT(60) DEF TypeOK, Servers
  <2>6. epoch' \in 0..MaxRuntime /\ lease' \in 0..MaxRuntime /\ generation' \in 0..MaxGateway
    BY SMTT(60) DEF TypeOK
  <2>7. phase' \in Phases /\ serial' \in Threads \union {NoThread}
    BY SMTT(60) DEF TypeOK, Phases
  <2> QED
    BY <2>1, <2>2, <2>3, <2>4, <2>5, <2>6, <2>7, Zenon DEF TypeOK
<1>2. SerialHeld'
  BY SMTT(60) DEF TypeOK, SerialHeld, Continuations, OwnProcedures, Holding, StopLabels,
      PassLabels
<1>3. Continuations'
  BY SMTT(60) DEF TypeOK, Continuations
<1>4. OwnProcedures'
  BY SMTT(60) DEF TypeOK, Continuations, OwnProcedures, StopLabels, PassLabels
<1>5. NoneWhileStopping'
  BY SMTT(60) DEF TypeOK, SerialHeld, NoneWhileStopping, OwnProcedures,
      ReadyMeansNewestServer, Holding, StopLabels, PassLabels
<1>6. StartNamed'
  BY SMTT(60) DEF TypeOK, StartNamed, InStart, Continuations, OwnProcedures, StartLabels,
      StopLabels, PassLabels
<1>7. ListeningBegun'
  BY SMTT(60) DEF TypeOK, ListeningBegun, StartNamed, InStart, StartLabels, StopLabels
<1>8. NothingToPublish'
  BY SMTT(60) DEF TypeOK, NothingToPublish, PastStop, Drained, OwnProcedures,
      Continuations, PassLabels, StopLabels
<1>9. OwnedBySomeone'
  BY SMTT(60) DEF TypeOK, OwnedBySomeone, NoneWhileStopping, StartNamed, InStart,
      ListeningBegun, ReadyMeansNewestServer, StartLabels, StopLabels
<1>10. ReadyMeansNewestServer'
  BY SMTT(60) DEF TypeOK, ReadyMeansNewestServer, NoneWhileStopping, StartNamed, InStart,
      StartLabels, StopLabels
<1>11. RoomLeft'
  BY SMTT(60) DEF TypeOK, RoomLeft, BeforeBegin, Continuations, OwnProcedures, StopLabels,
      PassLabels
<1> QED
  BY <1>1, <1>2, <1>3, <1>4, <1>5, <1>6, <1>7, <1>8, <1>9, <1>10, <1>11

LEMMA VerifyStep == ASSUME IInv, Verify PROVE IInv'
BY SMTT(60) DEF Verify, CallStop, IInv, TypeOK, SerialHeld, Continuations, OwnProcedures,
     NoneWhileStopping, StartNamed, InStart, RoomLeft, BeforeBegin,
     ListeningBegun, NothingToPublish, PastStop, Drained, OwnedBySomeone,
     ReadyMeansNewestServer, StopLabels, Holding, StartLabels, PassLabels,
     Servers, Phases, Labels

LEMMA BeginStopRuntimeStep == ASSUME IInv, NEW t \in Threads, t # Exit, BeginStopRuntime(t) PROVE IInv'
<1> USE DEF IInv, BeginStopRuntime, Withdraw
<1>1. TypeOK'
  <2>1. open' \in BOOLEAN /\ alive' \in BOOLEAN /\ quitting' \in BOOLEAN
    BY DEF TypeOK
  <2>2. pc' \in [Threads -> Labels] /\ back' \in [Threads -> Labels] /\ resume' \in Labels
    BY SMTT(60) DEF TypeOK, Continuations, Labels
  <2>3. server' \in Servers /\ joining' \in [Threads -> 0..MaxGateway]
    BY SMTT(60) DEF TypeOK, Servers
  <2>4. listening' \subseteq 1..MaxGateway
    BY SMTT(60) DEF TypeOK
  <2>5. cmd' \in [lease : 0..MaxRuntime, seen : 0..MaxRuntime, gw : 0..MaxGateway]
    BY SMTT(60) DEF TypeOK, Servers
  <2>6. epoch' \in 0..MaxRuntime /\ lease' \in 0..MaxRuntime /\ generation' \in 0..MaxGateway
    BY SMTT(60) DEF TypeOK
  <2>7. phase' \in Phases /\ serial' \in Threads \union {NoThread}
    BY SMTT(60) DEF TypeOK, Phases
  <2> QED
    BY <2>1, <2>2, <2>3, <2>4, <2>5, <2>6, <2>7, Zenon DEF TypeOK
<1>2. SerialHeld'
  BY SMTT(60) DEF TypeOK, SerialHeld, Continuations, OwnProcedures, Holding, StopLabels,
      PassLabels
<1>3. Continuations'
  BY SMTT(60) DEF TypeOK, Continuations
<1>4. OwnProcedures'
  BY SMTT(60) DEF TypeOK, Continuations, OwnProcedures, StopLabels, PassLabels
<1>5. NoneWhileStopping'
  BY SMTT(60) DEF TypeOK, SerialHeld, NoneWhileStopping, OwnProcedures,
      ReadyMeansNewestServer, Holding, StopLabels, PassLabels
<1>6. StartNamed'
  BY SMTT(60) DEF TypeOK, StartNamed, InStart, Continuations, OwnProcedures, StartLabels,
      StopLabels, PassLabels
<1>7. ListeningBegun'
  BY SMTT(60) DEF TypeOK, ListeningBegun, StartNamed, InStart, StartLabels, StopLabels
<1>8. NothingToPublish'
  BY SMTT(60) DEF TypeOK, NothingToPublish, PastStop, Drained, OwnProcedures,
      Continuations, PassLabels, StopLabels
<1>9. OwnedBySomeone'
  BY SMTT(60) DEF TypeOK, OwnedBySomeone, NoneWhileStopping, StartNamed, InStart,
      ListeningBegun, ReadyMeansNewestServer, StartLabels, StopLabels
<1>10. ReadyMeansNewestServer'
  BY SMTT(60) DEF TypeOK, ReadyMeansNewestServer, NoneWhileStopping, StartNamed, InStart,
      StartLabels, StopLabels
<1>11. RoomLeft'
  BY SMTT(60) DEF TypeOK, RoomLeft, BeforeBegin, Continuations, OwnProcedures, StopLabels,
      PassLabels
<1> QED
  BY <1>1, <1>2, <1>3, <1>4, <1>5, <1>6, <1>7, <1>8, <1>9, <1>10, <1>11

LEMMA SettleRuntimeStep == ASSUME IInv, NEW t \in Threads, t # Exit, SettleRuntime(t) PROVE IInv'
<1> USE DEF IInv, SettleRuntime, Withdraw, CallStop
<1>1. TypeOK'
  <2>1. open' \in BOOLEAN /\ alive' \in BOOLEAN /\ quitting' \in BOOLEAN
    BY DEF TypeOK
  <2>2. pc' \in [Threads -> Labels] /\ back' \in [Threads -> Labels] /\ resume' \in Labels
    BY SMTT(60) DEF TypeOK, Continuations, Labels
  <2>3. server' \in Servers /\ joining' \in [Threads -> 0..MaxGateway]
    BY SMTT(60) DEF TypeOK, Servers
  <2>4. listening' \subseteq 1..MaxGateway
    BY SMTT(60) DEF TypeOK
  <2>5. cmd' \in [lease : 0..MaxRuntime, seen : 0..MaxRuntime, gw : 0..MaxGateway]
    BY SMTT(60) DEF TypeOK, Servers
  <2>6. epoch' \in 0..MaxRuntime /\ lease' \in 0..MaxRuntime /\ generation' \in 0..MaxGateway
    BY SMTT(60) DEF TypeOK
  <2>7. phase' \in Phases /\ serial' \in Threads \union {NoThread}
    BY SMTT(60) DEF TypeOK, Phases
  <2> QED
    BY <2>1, <2>2, <2>3, <2>4, <2>5, <2>6, <2>7, Zenon DEF TypeOK
<1>2. SerialHeld'
  BY SMTT(60) DEF TypeOK, SerialHeld, Continuations, OwnProcedures, Holding, StopLabels,
      PassLabels
<1>3. Continuations'
  BY SMTT(60) DEF TypeOK, Continuations
<1>4. OwnProcedures'
  BY SMTT(60) DEF TypeOK, Continuations, OwnProcedures, StopLabels, PassLabels
<1>5. NoneWhileStopping'
  BY SMTT(60) DEF TypeOK, SerialHeld, NoneWhileStopping, OwnProcedures,
      ReadyMeansNewestServer, Holding, StopLabels, PassLabels
<1>6. StartNamed'
  BY SMTT(60) DEF TypeOK, StartNamed, InStart, Continuations, OwnProcedures, StartLabels,
      StopLabels, PassLabels
<1>7. ListeningBegun'
  BY SMTT(60) DEF TypeOK, ListeningBegun, StartNamed, InStart, StartLabels, StopLabels
<1>8. NothingToPublish'
  BY SMTT(60) DEF TypeOK, NothingToPublish, PastStop, Drained, OwnProcedures,
      Continuations, PassLabels, StopLabels
<1>9. OwnedBySomeone'
  BY SMTT(60) DEF TypeOK, OwnedBySomeone, NoneWhileStopping, StartNamed, InStart,
      ListeningBegun, ReadyMeansNewestServer, StartLabels, StopLabels
<1>10. ReadyMeansNewestServer'
  BY SMTT(60) DEF TypeOK, ReadyMeansNewestServer, NoneWhileStopping, StartNamed, InStart,
      StartLabels, StopLabels
<1>11. RoomLeft'
  BY SMTT(60) DEF TypeOK, RoomLeft, BeforeBegin, Continuations, OwnProcedures, StopLabels,
      PassLabels
<1> QED
  BY <1>1, <1>2, <1>3, <1>4, <1>5, <1>6, <1>7, <1>8, <1>9, <1>10, <1>11

LEMMA FirstPassStep == ASSUME IInv, FirstPass PROVE IInv'
<1> USE DEF IInv, FirstPass, Withdraw
<1>0. pc'[Main] = pc[Main] /\ UNCHANGED <<server, cmd, joining, listening, generation>>
  BY DEF TypeOK
<1>1. TypeOK'
  <2>1. open' \in BOOLEAN /\ alive' \in BOOLEAN /\ quitting' \in BOOLEAN
    BY DEF TypeOK
  <2>2. pc' \in [Threads -> Labels] /\ back' \in [Threads -> Labels] /\ resume' \in Labels
    BY SMTT(60) DEF TypeOK, Continuations, Labels
  <2>3. server' \in Servers /\ joining' \in [Threads -> 0..MaxGateway]
    BY SMTT(60) DEF TypeOK, Servers
  <2>4. listening' \subseteq 1..MaxGateway
    BY <1>0, Zenon DEF TypeOK
  <2>5. cmd' \in [lease : 0..MaxRuntime, seen : 0..MaxRuntime, gw : 0..MaxGateway]
    BY SMTT(60) DEF TypeOK, Servers
  <2>6. epoch' \in 0..MaxRuntime /\ lease' \in 0..MaxRuntime /\ generation' \in 0..MaxGateway
    BY SMTT(60) DEF TypeOK
  <2>7. phase' \in Phases /\ serial' \in Threads \union {NoThread}
    BY SMTT(60) DEF TypeOK, Phases
  <2> QED
    BY <2>1, <2>2, <2>3, <2>4, <2>5, <2>6, <2>7, Zenon DEF TypeOK
<1>2. SerialHeld'
  BY SMTT(60) DEF TypeOK, SerialHeld, Continuations, OwnProcedures, Holding, StopLabels,
      PassLabels
<1>3. Continuations'
  BY SMTT(60) DEF TypeOK, Continuations
<1>4. OwnProcedures'
  BY SMTT(60) DEF TypeOK, Continuations, OwnProcedures, StopLabels, PassLabels
<1>5. NoneWhileStopping'
  BY SMTT(60) DEF TypeOK, SerialHeld, NoneWhileStopping, OwnProcedures,
      ReadyMeansNewestServer, Holding, StopLabels, PassLabels
<1>6. StartNamed'
  BY SMTT(60) DEF TypeOK, StartNamed, InStart, Continuations, OwnProcedures, StartLabels,
      StopLabels, PassLabels
<1>7. ListeningBegun'
  BY <1>0, SMTT(60) DEF TypeOK, ListeningBegun, StartNamed, InStart, StartLabels, StopLabels
<1>8. NothingToPublish'
  BY SMTT(60) DEF TypeOK, NothingToPublish, PastStop, Drained, OwnProcedures,
      Continuations, PassLabels, StopLabels
<1>9. OwnedBySomeone'
  BY <1>0, SMTT(60) DEF TypeOK, OwnedBySomeone, NoneWhileStopping, StartNamed, InStart,
      ListeningBegun, ReadyMeansNewestServer, StartLabels, StopLabels
<1>10. ReadyMeansNewestServer'
  BY SMTT(60) DEF TypeOK, ReadyMeansNewestServer, NoneWhileStopping, StartNamed, InStart,
      StartLabels, StopLabels
<1>11. RoomLeft'
  BY SMTT(60) DEF TypeOK, RoomLeft, BeforeBegin, Continuations, OwnProcedures, StopLabels,
      PassLabels
<1> QED
  BY <1>1, <1>2, <1>3, <1>4, <1>5, <1>6, <1>7, <1>8, <1>9, <1>10, <1>11

LEMMA WaitIdleStep == ASSUME IInv, WaitIdle PROVE IInv'
BY SMTT(60) DEF WaitIdle, CallStop, IInv, TypeOK, SerialHeld, Continuations,
     OwnProcedures, NoneWhileStopping, StartNamed, InStart, RoomLeft,
     BeforeBegin, ListeningBegun, NothingToPublish, PastStop, Drained,
     OwnedBySomeone, ReadyMeansNewestServer, StopLabels, Holding, StartLabels,
     PassLabels, Servers, Phases, Labels

LEMMA LastPassStep == ASSUME IInv, LastPass PROVE IInv'
<1> USE DEF IInv, LastPass, Withdraw
<1>0. pc'[Main] = pc[Main] /\ UNCHANGED <<server, cmd, joining, listening, generation>>
  BY DEF TypeOK
<1>1. TypeOK'
  <2>1. open' \in BOOLEAN /\ alive' \in BOOLEAN /\ quitting' \in BOOLEAN
    BY DEF TypeOK
  <2>2. pc' \in [Threads -> Labels] /\ back' \in [Threads -> Labels] /\ resume' \in Labels
    BY SMTT(60) DEF TypeOK, Continuations, Labels
  <2>3. server' \in Servers /\ joining' \in [Threads -> 0..MaxGateway]
    BY SMTT(60) DEF TypeOK, Servers
  <2>4. listening' \subseteq 1..MaxGateway
    BY <1>0, Zenon DEF TypeOK
  <2>5. cmd' \in [lease : 0..MaxRuntime, seen : 0..MaxRuntime, gw : 0..MaxGateway]
    BY SMTT(60) DEF TypeOK, Servers
  <2>6. epoch' \in 0..MaxRuntime /\ lease' \in 0..MaxRuntime /\ generation' \in 0..MaxGateway
    BY SMTT(60) DEF TypeOK
  <2>7. phase' \in Phases /\ serial' \in Threads \union {NoThread}
    BY SMTT(60) DEF TypeOK, Phases
  <2> QED
    BY <2>1, <2>2, <2>3, <2>4, <2>5, <2>6, <2>7, Zenon DEF TypeOK
<1>2. SerialHeld'
  BY SMTT(60) DEF TypeOK, SerialHeld, Continuations, OwnProcedures, Holding, StopLabels,
      PassLabels
<1>3. Continuations'
  BY SMTT(60) DEF TypeOK, Continuations
<1>4. OwnProcedures'
  BY SMTT(60) DEF TypeOK, Continuations, OwnProcedures, StopLabels, PassLabels
<1>5. NoneWhileStopping'
  BY SMTT(60) DEF TypeOK, SerialHeld, NoneWhileStopping, OwnProcedures,
      ReadyMeansNewestServer, Holding, StopLabels, PassLabels
<1>6. StartNamed'
  BY SMTT(60) DEF TypeOK, StartNamed, InStart, Continuations, OwnProcedures, StartLabels,
      StopLabels, PassLabels
<1>7. ListeningBegun'
  BY <1>0, SMTT(60) DEF TypeOK, ListeningBegun, StartNamed, InStart, StartLabels, StopLabels
<1>8. NothingToPublish'
  BY SMTT(60) DEF TypeOK, NothingToPublish, PastStop, Drained, OwnProcedures,
      Continuations, PassLabels, StopLabels
<1>9. OwnedBySomeone'
  BY <1>0, SMTT(60) DEF TypeOK, OwnedBySomeone, NoneWhileStopping, StartNamed, InStart,
      ListeningBegun, ReadyMeansNewestServer, StartLabels, StopLabels
<1>10. ReadyMeansNewestServer'
  BY SMTT(60) DEF TypeOK, ReadyMeansNewestServer, NoneWhileStopping, StartNamed, InStart,
      StartLabels, StopLabels
<1>11. RoomLeft'
  BY SMTT(60) DEF TypeOK, RoomLeft, BeforeBegin, Continuations, OwnProcedures, StopLabels,
      PassLabels
<1> QED
  BY <1>1, <1>2, <1>3, <1>4, <1>5, <1>6, <1>7, <1>8, <1>9, <1>10, <1>11

LEMMA StartCommandStep == ASSUME IInv, StartCommand PROVE IInv'
BY SMTT(60) DEF StartCommand, CallLiveLease, IInv, TypeOK, SerialHeld, Continuations,
     OwnProcedures, NoneWhileStopping, StartNamed, InStart, RoomLeft,
     BeforeBegin, ListeningBegun, NothingToPublish, PastStop, Drained,
     OwnedBySomeone, ReadyMeansNewestServer, StopLabels, Holding, StartLabels,
     PassLabels, Servers, Phases, Labels

LEMMA StatusCommandStep == ASSUME IInv, StatusCommand PROVE IInv'
<1> USE DEF IInv, StatusCommand, CallStop, CallLiveLease
<1>1. TypeOK'
  <2>1. open' \in BOOLEAN /\ alive' \in BOOLEAN /\ quitting' \in BOOLEAN
    BY DEF TypeOK
  <2>2. pc' \in [Threads -> Labels] /\ back' \in [Threads -> Labels] /\ resume' \in Labels
    BY SMTT(60) DEF TypeOK, Continuations, Labels
  <2>3. server' \in Servers /\ joining' \in [Threads -> 0..MaxGateway]
    BY SMTT(60) DEF TypeOK, Servers
  <2>4. listening' \subseteq 1..MaxGateway
    BY SMTT(60) DEF TypeOK
  <2>5. cmd' \in [lease : 0..MaxRuntime, seen : 0..MaxRuntime, gw : 0..MaxGateway]
    BY SMTT(60) DEF TypeOK, Servers
  <2>6. epoch' \in 0..MaxRuntime /\ lease' \in 0..MaxRuntime /\ generation' \in 0..MaxGateway
    BY SMTT(60) DEF TypeOK
  <2>7. phase' \in Phases /\ serial' \in Threads \union {NoThread}
    BY SMTT(60) DEF TypeOK, Phases
  <2> QED
    BY <2>1, <2>2, <2>3, <2>4, <2>5, <2>6, <2>7, Zenon DEF TypeOK
<1>2. SerialHeld'
  BY SMTT(60) DEF TypeOK, SerialHeld, Continuations, OwnProcedures, Holding, StopLabels,
      PassLabels
<1>3. Continuations'
  BY SMTT(60) DEF TypeOK, Continuations
<1>4. OwnProcedures'
  BY SMTT(60) DEF TypeOK, Continuations, OwnProcedures, StopLabels, PassLabels
<1>5. NoneWhileStopping'
  BY SMTT(60) DEF TypeOK, SerialHeld, NoneWhileStopping, OwnProcedures,
      ReadyMeansNewestServer, Holding, StopLabels, PassLabels
<1>6. StartNamed'
  BY SMTT(60) DEF TypeOK, StartNamed, InStart, Continuations, OwnProcedures, StartLabels,
      StopLabels, PassLabels
<1>7. ListeningBegun'
  BY SMTT(60) DEF TypeOK, ListeningBegun, StartNamed, InStart, StartLabels, StopLabels
<1>8. NothingToPublish'
  BY SMTT(60) DEF TypeOK, NothingToPublish, PastStop, Drained, OwnProcedures,
      Continuations, PassLabels, StopLabels
<1>9. OwnedBySomeone'
  BY SMTT(60) DEF TypeOK, OwnedBySomeone, NoneWhileStopping, StartNamed, InStart,
      ListeningBegun, ReadyMeansNewestServer, StartLabels, StopLabels
<1>10. ReadyMeansNewestServer'
  BY SMTT(60) DEF TypeOK, ReadyMeansNewestServer, NoneWhileStopping, StartNamed, InStart,
      StartLabels, StopLabels
<1>11. RoomLeft'
  BY SMTT(60) DEF TypeOK, RoomLeft, BeforeBegin, Continuations, OwnProcedures, StopLabels,
      PassLabels
<1> QED
  BY <1>1, <1>2, <1>3, <1>4, <1>5, <1>6, <1>7, <1>8, <1>9, <1>10, <1>11

LEMMA StopCommandStep == ASSUME IInv, StopCommand PROVE IInv'
BY SMTT(60) DEF StopCommand, CallStop, IInv, TypeOK, SerialHeld, Continuations,
     OwnProcedures, NoneWhileStopping, StartNamed, InStart, RoomLeft,
     BeforeBegin, ListeningBegun, NothingToPublish, PastStop, Drained,
     OwnedBySomeone, ReadyMeansNewestServer, StopLabels, Holding, StartLabels,
     PassLabels, Servers, Phases, Labels

LEMMA RuntimeStatusStep == ASSUME IInv, RuntimeStatus PROVE IInv'
BY SMTT(60) DEF RuntimeStatus, CallLiveLease, IInv, TypeOK, SerialHeld, Continuations,
     OwnProcedures, NoneWhileStopping, StartNamed, InStart, RoomLeft,
     BeforeBegin, ListeningBegun, NothingToPublish, PastStop, Drained,
     OwnedBySomeone, ReadyMeansNewestServer, StopLabels, Holding, StartLabels,
     PassLabels, Servers, Phases, Labels

LEMMA StopRuntimeStep == ASSUME IInv, NEW t \in Threads, t # Exit, StopRuntime(t) PROVE IInv'
BY SMTT(60) DEF StopRuntime, CallStop, IInv, TypeOK, SerialHeld, Continuations,
     OwnProcedures, NoneWhileStopping, StartNamed, InStart, RoomLeft,
     BeforeBegin, ListeningBegun, NothingToPublish, PastStop, Drained,
     OwnedBySomeone, ReadyMeansNewestServer, StopLabels, Holding, StartLabels,
     PassLabels, Servers, Phases, Labels

LEMMA RequestExitStep == ASSUME IInv, RequestExit PROVE IInv'
BY SMTT(60) DEF RequestExit, CallStop, IInv, TypeOK, SerialHeld, Continuations,
     OwnProcedures, NoneWhileStopping, StartNamed, InStart, RoomLeft,
     BeforeBegin, ListeningBegun, NothingToPublish, PastStop, Drained,
     OwnedBySomeone, ReadyMeansNewestServer, StopLabels, Holding, StartLabels,
     PassLabels, Servers, Phases, Labels

LEMMA ElsewhereStep == ASSUME IInv, Elsewhere PROVE IInv'
<1> USE DEF IInv, Elsewhere, OpenRuntime, GrantRuntime, FailRuntime, RuntimeDies, Open,
      Grant, GiveUp
<1>1. TypeOK'
  <2>1. open' \in BOOLEAN /\ alive' \in BOOLEAN /\ quitting' \in BOOLEAN
    BY DEF TypeOK
  <2>2. pc' \in [Threads -> Labels] /\ back' \in [Threads -> Labels] /\ resume' \in Labels
    BY SMTT(60) DEF TypeOK, Continuations, Labels
  <2>3. server' \in Servers /\ joining' \in [Threads -> 0..MaxGateway]
    BY SMTT(60) DEF TypeOK, Servers
  <2>4. listening' \subseteq 1..MaxGateway
    BY SMTT(60) DEF TypeOK
  <2>5. cmd' \in [lease : 0..MaxRuntime, seen : 0..MaxRuntime, gw : 0..MaxGateway]
    BY SMTT(60) DEF TypeOK, Servers
  <2>6. epoch' \in 0..MaxRuntime /\ lease' \in 0..MaxRuntime /\ generation' \in 0..MaxGateway
    BY SMTT(60) DEF TypeOK
  <2>7. phase' \in Phases /\ serial' \in Threads \union {NoThread}
    BY SMTT(60) DEF TypeOK, Phases
  <2> QED
    BY <2>1, <2>2, <2>3, <2>4, <2>5, <2>6, <2>7, Zenon DEF TypeOK
<1>2. SerialHeld'
  BY SMTT(60) DEF TypeOK, SerialHeld, Continuations, OwnProcedures, Holding, StopLabels,
      PassLabels
<1>3. Continuations'
  BY SMTT(60) DEF TypeOK, Continuations
<1>4. OwnProcedures'
  BY SMTT(60) DEF TypeOK, Continuations, OwnProcedures, StopLabels, PassLabels
<1>5. NoneWhileStopping'
  BY SMTT(60) DEF TypeOK, SerialHeld, NoneWhileStopping, OwnProcedures,
      ReadyMeansNewestServer, Holding, StopLabels, PassLabels
<1>6. StartNamed'
  BY SMTT(60) DEF TypeOK, StartNamed, InStart, Continuations, OwnProcedures, StartLabels,
      StopLabels, PassLabels
<1>7. ListeningBegun'
  BY SMTT(60) DEF TypeOK, ListeningBegun, StartNamed, InStart, StartLabels, StopLabels
<1>8. NothingToPublish'
  BY SMTT(60) DEF TypeOK, NothingToPublish, PastStop, Drained, OwnProcedures,
      Continuations, PassLabels, StopLabels
<1>9. OwnedBySomeone'
  BY SMTT(60) DEF TypeOK, OwnedBySomeone, NoneWhileStopping, StartNamed, InStart,
      ListeningBegun, ReadyMeansNewestServer, StartLabels, StopLabels
<1>10. ReadyMeansNewestServer'
  BY SMTT(60) DEF TypeOK, ReadyMeansNewestServer, NoneWhileStopping, StartNamed, InStart,
      StartLabels, StopLabels
<1>11. RoomLeft'
  BY SMTT(60) DEF TypeOK, RoomLeft, BeforeBegin, Continuations, OwnProcedures, StopLabels,
      PassLabels
<1> QED
  BY <1>1, <1>2, <1>3, <1>4, <1>5, <1>6, <1>7, <1>8, <1>9, <1>10, <1>11

LEMMA AcceptLoopDiesStep == ASSUME IInv, AcceptLoopDies PROVE IInv'
<1> USE DEF IInv, AcceptLoopDies
<1>1. TypeOK'
  <2>1. open' \in BOOLEAN /\ alive' \in BOOLEAN /\ quitting' \in BOOLEAN
    BY DEF TypeOK
  <2>2. pc' \in [Threads -> Labels] /\ back' \in [Threads -> Labels] /\ resume' \in Labels
    BY SMTT(60) DEF TypeOK, Continuations, Labels
  <2>3. server' \in Servers /\ joining' \in [Threads -> 0..MaxGateway]
    BY SMTT(60) DEF TypeOK, Servers
  <2>4. listening' \subseteq 1..MaxGateway
    <3>1. listening' \subseteq listening
      OBVIOUS
    <3> QED
      BY <3>1, Zenon DEF TypeOK
  <2>5. cmd' \in [lease : 0..MaxRuntime, seen : 0..MaxRuntime, gw : 0..MaxGateway]
    BY SMTT(60) DEF TypeOK, Servers
  <2>6. epoch' \in 0..MaxRuntime /\ lease' \in 0..MaxRuntime /\ generation' \in 0..MaxGateway
    BY SMTT(60) DEF TypeOK
  <2>7. phase' \in Phases /\ serial' \in Threads \union {NoThread}
    BY SMTT(60) DEF TypeOK, Phases
  <2> QED
    BY <2>1, <2>2, <2>3, <2>4, <2>5, <2>6, <2>7, Zenon DEF TypeOK
<1>2. SerialHeld'
  BY SMTT(60) DEF TypeOK, SerialHeld, Continuations, OwnProcedures, Holding, StopLabels,
      PassLabels
<1>3. Continuations'
  BY SMTT(60) DEF TypeOK, Continuations
<1>4. OwnProcedures'
  BY SMTT(60) DEF TypeOK, Continuations, OwnProcedures, StopLabels, PassLabels
<1>5. NoneWhileStopping'
  BY SMTT(60) DEF TypeOK, SerialHeld, NoneWhileStopping, OwnProcedures,
      ReadyMeansNewestServer, Holding, StopLabels, PassLabels
<1>6. StartNamed'
  BY SMTT(60) DEF TypeOK, StartNamed, InStart, Continuations, OwnProcedures, StartLabels,
      StopLabels, PassLabels
<1>7. ListeningBegun'
  BY SMTT(60) DEF TypeOK, ListeningBegun, StartNamed, InStart, StartLabels, StopLabels
<1>8. NothingToPublish'
  BY SMTT(60) DEF TypeOK, NothingToPublish, PastStop, Drained, OwnProcedures,
      Continuations, PassLabels, StopLabels
<1>9. OwnedBySomeone'
  BY SMTT(60) DEF TypeOK, OwnedBySomeone, NoneWhileStopping, StartNamed, InStart,
      ListeningBegun, ReadyMeansNewestServer, StartLabels, StopLabels
<1>10. ReadyMeansNewestServer'
  BY SMTT(60) DEF TypeOK, ReadyMeansNewestServer, NoneWhileStopping, StartNamed, InStart,
      StartLabels, StopLabels
<1>11. RoomLeft'
  BY SMTT(60) DEF TypeOK, RoomLeft, BeforeBegin, Continuations, OwnProcedures, StopLabels,
      PassLabels
<1> QED
  BY <1>1, <1>2, <1>3, <1>4, <1>5, <1>6, <1>7, <1>8, <1>9, <1>10, <1>11

-----------------------------------------------------------------------------
(* The theorems.                                                           *)

LEMMA InitHolds == Init => IInv
<1> SUFFICES ASSUME Init PROVE IInv
  OBVIOUS
<1>1. TypeOK
  <2>1. open \in BOOLEAN /\ alive \in BOOLEAN /\ quitting \in BOOLEAN
    BY DEF Init, LSInit
  <2>2. pc \in [Threads -> Labels] /\ back \in [Threads -> Labels] /\ resume \in Labels
    BY DEF Init, Labels
  <2>3. joining \in [Threads -> 0..MaxGateway] /\ server \in Servers
    BY DEF Init, Servers
  <2>4. cmd \in [lease : 0..MaxRuntime, seen : 0..MaxRuntime, gw : 0..MaxGateway]
    BY DEF Init
  <2>5. /\ epoch \in 0..MaxRuntime /\ lease \in 0..MaxRuntime
        /\ generation \in 0..MaxGateway /\ phase \in Phases
        /\ serial \in Threads \union {NoThread} /\ listening \subseteq 1..MaxGateway
    BY DEF Init, LSInit, Phases
  <2> QED
    BY <2>1, <2>2, <2>3, <2>4, <2>5, Zenon DEF TypeOK
<1> QED
  BY <1>1, SMTT(60) DEF Init, LSInit, IInv, SerialHeld, Continuations,
     OwnProcedures, NoneWhileStopping, StartNamed, InStart, RoomLeft,
     BeforeBegin, ListeningBegun, NothingToPublish, PastStop, Drained,
     OwnedBySomeone, ReadyMeansNewestServer, StopLabels, Holding, StartLabels,
     PassLabels

LEMMA StutterHolds == ASSUME IInv, UNCHANGED vars PROVE IInv'
BY DEF vars, IInv, TypeOK, SerialHeld, Continuations, OwnProcedures,
   NoneWhileStopping, StartNamed, InStart, RoomLeft, BeforeBegin,
   ListeningBegun, NothingToPublish, PastStop, Drained, OwnedBySomeone,
   ReadyMeansNewestServer

LEMMA NextHolds == ASSUME IInv, [Next]_vars PROVE IInv'
<1>1. CASE UNCHANGED vars
  BY <1>1, StutterHolds
<1>2. ASSUME NEW t \in Threads, Steps(t) PROVE IInv'
  <2>1. CASE StopSteps(t)
    BY <2>1, TakeSerialStep, BeginStopStep, JoinStep, SettleStep DEF StopSteps
  <2>2. CASE t = Main /\ MainSteps
    BY <2>2, ProbeStep, ProbedStep, StartCheckStep, BeginStartStep, SpawnStep,
       RecheckStep, GiveUpStartStep, PublishStep, VerifyStep DEF MainSteps
  <2>3. CASE t # Exit /\ StopRuntimeSteps(t)
    BY <2>3, BeginStopRuntimeStep, SettleRuntimeStep DEF StopRuntimeSteps
  <2>4. CASE t = Exit /\ ExitSteps
    BY <2>4, FirstPassStep, WaitIdleStep, LastPassStep DEF ExitSteps
  <2> QED
    BY <1>2, <2>1, <2>2, <2>3, <2>4 DEF Steps
<1>3. CASE Commands
  <2>1. ASSUME NEW t \in Threads, StopRuntime(t) PROVE IInv'
    <3>1. t # Exit
      BY <2>1 DEF StopRuntime
    <3> QED
      BY <2>1, <3>1, StopRuntimeStep
  <2> QED
    BY <1>3, <2>1, StartCommandStep, StatusCommandStep, StopCommandStep,
       RuntimeStatusStep, RequestExitStep DEF Commands
<1> QED
  BY <1>1, <1>2, <1>3, ElsewhereStep, AcceptLoopDiesStep DEF Next

LEMMA Invariance == Spec => []IInv
BY InitHolds, NextHolds, PTL DEF Spec

\* Every variable keeps its type, and no mutex or program counter leaves the
\* procedures of gateway_host.
THEOREM TypeCorrect == Spec => []TypeOK
BY Invariance, PTL DEF IInv

LEMMA OwnedBySomeoneIs == OwnedBySomeone => EveryServerOwned
BY DEF OwnedBySomeone, EveryServerOwned

\* No race of a start with the stops of the Gateway, of Runtimes and of the
\* application leaves a bound port that nobody is going to publish or stop.
THEOREM NoServerIsLost == Spec => []EveryServerOwned
<1>1. IInv => EveryServerOwned
  BY OwnedBySomeoneIs DEF IInv
<1> QED
  BY <1>1, Invariance, PTL

\* The phase a command reads and the server it finds never disagree.
THEOREM ReadyIsNewest == Spec => []ReadyMeansNewestServer
<1>1. IInv => ReadyMeansNewestServer
  BY DEF IInv
<1> QED
  BY <1>1, Invariance, PTL

\* After the first pass of the exit no Gateway is published, however late a
\* start command finds out that the application is quitting.
THEOREM DrainIsFinal == Spec => []NoGatewayAfterDrain
<1>1. IInv => NoGatewayAfterDrain
  BY DEF IInv, NothingToPublish, PastStop, NoGatewayAfterDrain
<1> QED
  BY <1>1, Invariance, PTL
=============================================================================
