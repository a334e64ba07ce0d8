------------------------- MODULE VwifiClientProofs -------------------------
(***************************************************************************)
(* What vwifi-client keeps whatever the bounds are: the types, the one     *)
(* socket to the server, the threads that stop() waits for, and, for a     *)
(* client whose descriptors nothing else takes, the socket that is heard   *)
(* after a reconnection.                                                   *)
(***************************************************************************)
EXTENDS VwifiClient, FiniteSetTheorems, WellFoundedInduction, TLAPS

(***************************************************************************)
(* The inductive invariant                                                 *)
(***************************************************************************)

\* The threads that have not called dead().
Alive == {t \in Thread : at[t] # "dead"}

\* number_thread counts the threads that have not called dead(), from before
\* they are started: stop() waits for a count that only dead() lowers.
Counted == number_thread = Cardinality(Alive)

\* start() makes the threads in one place, after the connection.
ThreadsExist == main \notin {"spawned", "join"} \cup Ended => \A t \in Thread : at[t] = "none"

\* No interrupt flag is set before there are threads, so none survives into
\* a thread made later.
InterruptedStarted == (\E t \in Thread : interrupted[t]) => main \in {"spawned", "join"} \cup Ended

\* Outside the part of stop() between interrupt() and the end of its wait, a
\* flag is set only when every thread is dead: StopWaitsForAll, and the steps
\* of a second stop() that come before its interrupt().
WaitedFor ==
    (handler \in {"off", "enter", "close", "interruptConn"} /\ \E t \in Thread : interrupted[t])
        => \A t \in Thread : at[t] = "dead"

\* _Connect is called only when the socket is closed.
NotConnecting ==
    /\ main \in {"init", "register", "interfaces", "connect", "retry"} => Master = -1
    /\ at["conn"] = "connect" => Master = -1

\* The inductive invariant.
ClientInv ==
    /\ ClientTypeOK /\ Counted /\ ThreadsExist /\ InterruptedStarted /\ WaitedFor
    /\ NotConnecting /\ OneServerSocket

-----------------------------------------------------------------------------
(***************************************************************************)
(* Lemmas                                                                  *)
(***************************************************************************)

\* Min of FiniteSetsExt is the least element of a set of descriptors.
LEMMA LowestFd ==
    ASSUME NEW F \in SUBSET Nat, F # {}
    PROVE  Min(F) \in F /\ \A f \in F : Min(F) <= f
<1>. DEFINE R == {ss \in Nat \X Nat : ss[1] < ss[2]}
<1>1. IsWellFoundedOn(R, Nat)
  BY NatLessThanWellFounded, Zenon DEF OpToRel
<1>2. PICK m \in F : \A f \in F : ~(<<f, m>> \in R)
  BY <1>1, WFMin, Zenon
<1>3. ASSUME NEW f \in F PROVE m =< f
  <2>1. SUFFICES ASSUME f < m PROVE FALSE
    OBVIOUS
  <2>2. <<f, m>> \in R
    BY <2>1
  <2>. QED
    BY <1>2, <2>2, Zenon
<1>. QED
  BY <1>3, Zenon DEF Min

\* A new socket takes a descriptor that was free.
LEMMA FreeFdIsFd ==
    ASSUME FreeFd # {}
    PROVE  Min(FreeFd) \in Fd /\ holder[Min(FreeFd)] = "free"
<1>1. FreeFd \in SUBSET Nat
  BY ClientAssumption DEF FreeFd, Fd
<1>. QED
  BY <1>1, LowestFd DEF FreeFd

\* A thread that goes on in its loop stays at a known place.
LEMMA GotoType ==
    at \in [Thread -> Place]
        => \A t \in Thread : \A l \in Place : Goto(t, l) => at' \in [Thread -> Place]
  BY DEF Goto

\* Every set of threads is finite.
LEMMA AliveFinite == IsFiniteSet(Alive) /\ Cardinality(Alive) \in Nat
<1>1. IsFiniteSet({}) /\ IsFiniteSet({"hwsim"})
  BY FS_EmptySet, FS_Singleton
<1>2. IsFiniteSet({"hwsim", "server"})
  <2>1. {"hwsim"} \cup {"server"} = {"hwsim", "server"}
    OBVIOUS
  <2>. QED
    BY <1>1, <2>1, FS_AddElement, Zenon
<1>3. IsFiniteSet({"hwsim", "server", "conn"})
  <2>1. {"hwsim", "server"} \cup {"conn"} = {"hwsim", "server", "conn"}
    OBVIOUS
  <2>. QED
    BY <1>2, <2>1, FS_AddElement, Zenon
<1>4. IsFiniteSet({"hwsim", "server", "conn", "monitor"})
  <2>1. {"hwsim", "server", "conn"} \cup {"monitor"} = {"hwsim", "server", "conn", "monitor"}
    OBVIOUS
  <2>. QED
    BY <1>3, <2>1, FS_AddElement, Zenon
<1>5. IsFiniteSet(Thread)
  <2>1. {"hwsim", "server", "conn", "monitor"} \cup {"winet"} = Thread
    BY DEF Thread
  <2>. QED
    BY <1>4, <2>1, FS_AddElement, Zenon
<1>6. Alive \subseteq Thread
  BY DEF Alive
<1>. QED
  BY <1>5, <1>6, FS_Subset, FS_CardinalityType, Zenon

\* A thread that calls dead() is one thread less.
LEMMA OneLess ==
    ASSUME Counted, NEW t \in Alive
    PROVE  number_thread \in Nat \ {0} /\ number_thread - 1 = Cardinality(Alive \ {t})
<1>1. Cardinality(Alive \ {t}) = Cardinality(Alive) - 1
  BY AliveFinite, FS_RemoveElement
<1>2. Cardinality(Alive) # 0
  BY AliveFinite, FS_EmptySet
<1>. QED
  BY <1>1, <1>2, AliveFinite DEF Counted

\* all_thread_interrupted() is true only when no thread is left.
LEMMA AllDeadAtZero ==
    ASSUME Counted, number_thread = 0
    PROVE  \A t \in Thread : at[t] = "dead"
<1>1. Alive = {}
  BY AliveFinite, FS_EmptySet DEF Counted
<1>. QED
  BY <1>1 DEF Alive

-----------------------------------------------------------------------------
(***************************************************************************)
(* What a step keeps                                                       *)
(***************************************************************************)

\* The types: what pselect reports and what a socket takes are descriptors, a
\* flag stays a Boolean and the count of threads is not lowered below zero.
LEMMA TypeStep ==
    ASSUME ClientTypeOK, Counted, Next
    PROVE  ClientTypeOK'
<1>. USE DEF vars, threads, flags, socket, scheduler, kernel, ClientTypeOK, Ended
<1>1. CASE DriverFound
  BY <1>1
  DEF DriverFound, MainAt
<1>2. CASE WaitAbandoned
  BY <1>2
  DEF WaitAbandoned, MainAt
<1>3. CASE RegisterFirst
  BY <1>3
  DEF RegisterFirst, MainAt
<1>4. CASE MonitorCreated
  BY <1>4
  DEF MonitorCreated, MainAt
<1>5. CASE StartFails
  BY <1>5
  DEF StartFails, MainAt
<1>6. CASE FirstConnect
  BY <1>6, FreeFdIsFd
  DEF FirstConnect, MainAt, ConnectSucceeds
<1>7. CASE FirstConnectFails
  BY <1>7
  DEF FirstConnectFails, MainAt
<1>8. CASE RetryConnect
  BY <1>8
  DEF RetryConnect, MainAt
<1>9. CASE SpawnThreads
  BY <1>9
  DEF SpawnThreads, MainAt, Thread, Place
<1>10. CASE StartDone
  <2>1. being_started' \in BOOLEAN
    BY <1>10, Zenon DEF StartDone
  <2>. QED
    BY <1>10, <2>1 DEF StartDone, MainAt
<1>11. CASE JoinThreads
  BY <1>11
  DEF JoinThreads, MainAt
<1>12. CASE StopEarly
  <2>1. being_initialized' \in BOOLEAN /\ being_started' \in BOOLEAN
    BY <1>12, Zenon DEF StopEarly
  <2>. QED
    BY <1>12, <2>1 DEF StopEarly, StopAt
<1>13. CASE StopChecks
  BY <1>13
  DEF StopChecks, StopAt
<1>14. CASE StopCloses
  BY <1>14
  DEF StopCloses, StopAt, Close, NoLink, Thread, Place
<1>15. CASE StopInterruptsConn
  BY <1>15
  DEF StopInterruptsConn, StopAt, Interrupt
<1>16. CASE StopSignalsServer
  BY <1>16
  DEF StopSignalsServer, StopAt, Thread, Place
<1>17. CASE StopInterruptsServer
  BY <1>17
  DEF StopInterruptsServer, StopAt, Interrupt
<1>18. CASE StopInterruptsOthers
  BY <1>18
  DEF StopInterruptsOthers, StopAt, Interrupt
<1>19. CASE StopReturns
  BY <1>19
  DEF StopReturns, StopAt
<1>20. CASE ServerRound
  BY <1>20, GotoType
  DEF ServerRound, Round, At, Thread, Place
<1>21. CASE ServerWaits
  BY <1>21, GotoType
  DEF ServerWaits, At, Reports, Thread, Place
<1>22. CASE ServerWakes
  BY <1>22, GotoType
  DEF ServerWakes, At, Reports, Thread, Place
<1>23. CASE ServerLooks
  BY <1>23, GotoType
  DEF ServerLooks, At, Thread, Place
<1>24. CASE ServerReceives
  BY <1>24, GotoType
  DEF ServerReceives, At, Thread, Place
<1>25. CASE ServerReceiveFails
  BY <1>25, GotoType
  DEF ServerReceiveFails, At, Thread, Place
<1>26. CASE ServerReports
  <2>1. connected' \in BOOLEAN
    BY <1>26, Zenon DEF ServerReports
  <2>. QED
    BY <1>26, <2>1, GotoType DEF ServerReports, At, Thread, Place
<1>27. CASE ServerDelivers
  BY <1>27, GotoType
  DEF ServerDelivers, At, Thread, Place
<1>28. CASE HwsimFrame
  BY <1>28, GotoType
  DEF HwsimFrame, Round, At, Thread, Place
<1>29. CASE HwsimSends
  BY <1>29, GotoType
  DEF HwsimSends, At, Thread, Place
<1>30. CASE HwsimReports
  <2>1. connected' \in BOOLEAN
    BY <1>30, Zenon DEF HwsimReports
  <2>. QED
    BY <1>30, <2>1, GotoType DEF HwsimReports, At, Thread, Place
<1>31. CASE ConnRound
  BY <1>31, GotoType
  DEF ConnRound, Round, At, Thread, Place
<1>32. CASE ConnCloses
  BY <1>32
  DEF ConnCloses, At, Close, NoLink, Thread, Place
<1>33. CASE Reconnect
  BY <1>33, GotoType, FreeFdIsFd
  DEF Reconnect, At, ConnectSucceeds, Thread, Place
<1>34. CASE ReconnectFails
  BY <1>34, GotoType
  DEF ReconnectFails, At, Thread, Place
<1>35. CASE Reconnected
  BY <1>35, GotoType
  DEF Reconnected, At, Thread, Place
<1>36. CASE MonitorMisses
  <2>1. initialized' \in BOOLEAN
    BY <1>36, Zenon DEF MonitorMisses
  <2>. QED
    BY <1>36, <2>1, GotoType DEF MonitorMisses, Round, At, Thread, Place
<1>37. CASE MonitorInit
  BY <1>37, GotoType, FreeFdIsFd
  DEF MonitorInit, At, Thread, Place
<1>38. CASE MonitorInitFails
  BY <1>38, GotoType, FreeFdIsFd
  DEF MonitorInitFails, At, Thread, Place
<1>39. CASE MonitorRegisters
  BY <1>39, GotoType
  DEF MonitorRegisters, At, Thread, Place
<1>40. CASE WinetOpens
  BY <1>40, GotoType, FreeFdIsFd
  DEF WinetOpens, Round, At, Thread, Place
<1>41. CASE WinetAsks
  BY <1>41, GotoType
  DEF WinetAsks, At, Thread, Place
<1>42. CASE Sigint
  BY <1>42
  DEF Sigint, StopAt
<1>43. CASE ServerDown
  <2>1. up' \in BOOLEAN
    BY <1>43, Zenon DEF ServerDown
  <2>2. link' \in [alive : BOOLEAN, unread : Nat]
    BY <1>43 DEF ServerDown
  <2>. QED
    BY <1>43, <2>1, <2>2 DEF ServerDown, Running
<1>44. CASE ServerUp
  BY <1>44
  DEF ServerUp, Running
<1>45. CASE ServerSends
  BY <1>45
  DEF ServerSends, Running
<1>46. CASE DriverUnload
  BY <1>46
  DEF DriverUnload, Running
<1>47. CASE DriverLoad
  <2>1. driver' \in [loaded : BOOLEAN, registered : BOOLEAN]
    BY <1>47 DEF DriverLoad
  <2>. QED
    BY <1>47, <2>1 DEF DriverLoad, Running
<1>48. ASSUME NEW t \in Thread, ThreadInterrupted(t) PROVE ClientTypeOK'
  <2>1. t \in Alive
    BY <1>48 DEF ThreadInterrupted, At, Alive
  <2>2. number_thread \in Nat \ {0}
    BY <2>1, OneLess, Zenon
  <2>3. number_thread - 1 \in Nat
    BY <2>2
  <2>. QED
    BY <1>48, <2>3 DEF ThreadInterrupted, At, Thread, Place
<1>49. CASE EndedStep
  BY <1>49 DEF EndedStep
<1>. QED
  BY <1>1, <1>2, <1>3, <1>4, <1>5, <1>6, <1>7, <1>8, <1>9, <1>10, <1>11, <1>12, <1>13, <1>14,
     <1>15, <1>16, <1>17, <1>18, <1>19, <1>20, <1>21, <1>22, <1>23, <1>24, <1>25, <1>26, <1>27,
     <1>28, <1>29, <1>30, <1>31, <1>32, <1>33, <1>34, <1>35, <1>36, <1>37, <1>38, <1>39, <1>40,
     <1>41, <1>42, <1>43, <1>44, <1>45, <1>46, <1>47, <1>48, <1>49, Zenon
  DEF Next, Start, Stop, ServerLoop, HwsimLoop, ConnLoop, MonitorLoop, WinetLoop, Environment,
      HwsimWork, Thread

\* The count is right as long as the same threads are dead.
LEMMA SameCount ==
    ASSUME Counted, number_thread' = number_thread,
           \A t \in Thread : at'[t] = "dead" <=> at[t] = "dead"
    PROVE  Counted'
<1>1. Alive' = Alive
  BY DEF Alive
<1>. QED
  BY <1>1 DEF Counted

\* No step but dead() changes which threads are counted.
LEMMA CountedStep ==
    ASSUME ClientTypeOK, ThreadsExist, Counted, Next
    PROVE  Counted'
<1>. USE DEF vars, threads, flags, socket, scheduler, kernel, ClientTypeOK, ThreadsExist, Ended
<1>1. CASE DriverFound \/ WaitAbandoned \/ RegisterFirst \/ MonitorCreated \/ StartFails \/
          FirstConnect \/ FirstConnectFails \/ RetryConnect \/ SpawnThreads \/ StartDone \/
          JoinThreads
  <2>1. \A t \in Thread : at'[t] = "dead" <=> at[t] = "dead"
    BY <1>1 DEF DriverFound, WaitAbandoned, RegisterFirst, MonitorCreated, StartFails,
       FirstConnect, FirstConnectFails, RetryConnect, SpawnThreads, StartDone, JoinThreads,
       MainAt, ConnectSucceeds, Thread
  <2>2. number_thread' = number_thread
    BY <1>1 DEF DriverFound, WaitAbandoned, RegisterFirst, MonitorCreated, StartFails,
       FirstConnect, FirstConnectFails, RetryConnect, SpawnThreads, StartDone, JoinThreads
  <2>. QED
    BY <2>1, <2>2, SameCount
<1>2. CASE StopEarly \/ StopChecks \/ StopCloses \/ StopInterruptsConn \/ StopSignalsServer \/
          StopInterruptsServer \/ StopInterruptsOthers \/ StopReturns
  <2>1. \A t \in Thread : at'[t] = "dead" <=> at[t] = "dead"
    BY <1>2 DEF StopEarly, StopChecks, StopCloses, StopInterruptsConn, StopSignalsServer,
       StopInterruptsServer, StopInterruptsOthers, StopReturns, StopAt, Close, Interrupt, NoLink,
       Thread
  <2>2. number_thread' = number_thread
    BY <1>2 DEF StopEarly, StopChecks, StopCloses, StopInterruptsConn, StopSignalsServer,
       StopInterruptsServer, StopInterruptsOthers, StopReturns
  <2>. QED
    BY <2>1, <2>2, SameCount
<1>3. CASE ServerRound \/ ServerWaits \/ ServerWakes \/ ServerLooks \/ ServerReceives \/
          ServerReceiveFails \/ ServerReports \/ ServerDelivers
  <2>1. \A t \in Thread : at'[t] = "dead" <=> at[t] = "dead"
    BY <1>3 DEF ServerRound, ServerWaits, ServerWakes, ServerLooks, ServerReceives,
       ServerReceiveFails, ServerReports, ServerDelivers, Round, At, Reports, Goto, Thread
  <2>2. number_thread' = number_thread
    BY <1>3 DEF ServerRound, ServerWaits, ServerWakes, ServerLooks, ServerReceives,
       ServerReceiveFails, ServerReports, ServerDelivers
  <2>. QED
    BY <2>1, <2>2, SameCount
<1>4. CASE HwsimFrame \/ HwsimSends \/ HwsimReports
  <2>1. \A t \in Thread : at'[t] = "dead" <=> at[t] = "dead"
    BY <1>4 DEF HwsimFrame, HwsimSends, HwsimReports, Round, At, Goto, Thread
  <2>2. number_thread' = number_thread
    BY <1>4 DEF HwsimFrame, HwsimSends, HwsimReports
  <2>. QED
    BY <2>1, <2>2, SameCount
<1>5. CASE ConnRound \/ ConnCloses \/ Reconnect \/ ReconnectFails \/ Reconnected
  <2>1. \A t \in Thread : at'[t] = "dead" <=> at[t] = "dead"
    BY <1>5 DEF ConnRound, ConnCloses, Reconnect, ReconnectFails, Reconnected, Round, At,
       ConnectSucceeds, Close, Goto, NoLink, Thread
  <2>2. number_thread' = number_thread
    BY <1>5 DEF ConnRound, ConnCloses, Reconnect, ReconnectFails, Reconnected
  <2>. QED
    BY <2>1, <2>2, SameCount
<1>6. CASE MonitorMisses \/ MonitorInit \/ MonitorInitFails \/ MonitorRegisters
  <2>1. \A t \in Thread : at'[t] = "dead" <=> at[t] = "dead"
    BY <1>6 DEF MonitorMisses, MonitorInit, MonitorInitFails, MonitorRegisters, Round, At, Goto,
       Thread
  <2>2. number_thread' = number_thread
    BY <1>6 DEF MonitorMisses, MonitorInit, MonitorInitFails, MonitorRegisters
  <2>. QED
    BY <2>1, <2>2, SameCount
<1>7. CASE WinetOpens \/ WinetAsks
  <2>1. \A t \in Thread : at'[t] = "dead" <=> at[t] = "dead"
    BY <1>7 DEF WinetOpens, WinetAsks, Round, At, Goto, Thread
  <2>2. number_thread' = number_thread
    BY <1>7 DEF WinetOpens, WinetAsks
  <2>. QED
    BY <2>1, <2>2, SameCount
<1>8. CASE Sigint \/ ServerDown \/ ServerUp \/ ServerSends \/ DriverUnload \/ DriverLoad
  <2>1. \A t \in Thread : at'[t] = "dead" <=> at[t] = "dead"
    BY <1>8 DEF Sigint, ServerDown, ServerUp, ServerSends, DriverUnload, DriverLoad, StopAt,
       Running, Thread
  <2>2. number_thread' = number_thread
    BY <1>8 DEF Sigint, ServerDown, ServerUp, ServerSends, DriverUnload, DriverLoad
  <2>. QED
    BY <2>1, <2>2, SameCount
<1>9. ASSUME NEW t \in Thread, ThreadInterrupted(t) PROVE Counted'
  <2>1. Alive' = Alive \ {t} /\ t \in Alive
    BY <1>9 DEF ThreadInterrupted, At, Alive
  <2>. QED
    BY <1>9, <2>1, OneLess DEF ThreadInterrupted, Counted
<1>10. CASE EndedStep
  BY <1>10 DEF EndedStep, Counted, Alive
<1>. QED
  BY <1>1, <1>2, <1>3, <1>4, <1>5, <1>6, <1>7, <1>8, <1>9, <1>10, Zenon
  DEF Next, Start, Stop, ServerLoop, HwsimLoop, ConnLoop, MonitorLoop, WinetLoop, Environment,
      HwsimWork, Thread

\* There are no threads before SpawnThreads, and main does not go back to it.
LEMMA ThreadsExistStep ==
    ASSUME ClientTypeOK, ThreadsExist, Next
    PROVE  ThreadsExist'
<1>. USE DEF vars, threads, flags, socket, scheduler, kernel, ClientTypeOK, ThreadsExist, Ended,
    Thread
<1>1. CASE DriverFound \/ WaitAbandoned \/ RegisterFirst \/ MonitorCreated \/ StartFails \/
          FirstConnect \/ FirstConnectFails \/ RetryConnect \/ SpawnThreads \/ StartDone \/
          JoinThreads
  BY <1>1
  DEF DriverFound, WaitAbandoned, RegisterFirst, MonitorCreated, StartFails, FirstConnect,
      FirstConnectFails, RetryConnect, SpawnThreads, StartDone, JoinThreads, MainAt,
      ConnectSucceeds
<1>2. CASE StopEarly \/ StopChecks \/ StopCloses \/ StopInterruptsConn \/ StopSignalsServer \/
          StopInterruptsServer \/ StopInterruptsOthers \/ StopReturns
  BY <1>2
  DEF StopEarly, StopChecks, StopCloses, StopInterruptsConn, StopSignalsServer,
      StopInterruptsServer, StopInterruptsOthers, StopReturns, StopAt, Close, Interrupt, NoLink
<1>3. CASE ServerRound \/ ServerWaits \/ ServerWakes \/ ServerLooks \/ ServerReceives \/
          ServerReceiveFails \/ ServerReports \/ ServerDelivers
  BY <1>3
  DEF ServerRound, ServerWaits, ServerWakes, ServerLooks, ServerReceives, ServerReceiveFails,
      ServerReports, ServerDelivers, Round, At, Reports, Goto
<1>4. CASE HwsimFrame \/ HwsimSends \/ HwsimReports
  BY <1>4
  DEF HwsimFrame, HwsimSends, HwsimReports, Round, At, Goto
<1>5. CASE ConnRound \/ ConnCloses \/ Reconnect \/ ReconnectFails \/ Reconnected
  BY <1>5
  DEF ConnRound, ConnCloses, Reconnect, ReconnectFails, Reconnected, Round, At, ConnectSucceeds,
      Close, Goto, NoLink
<1>6. CASE MonitorMisses \/ MonitorInit \/ MonitorInitFails \/ MonitorRegisters
  BY <1>6
  DEF MonitorMisses, MonitorInit, MonitorInitFails, MonitorRegisters, Round, At, Goto
<1>7. CASE WinetOpens \/ WinetAsks
  BY <1>7
  DEF WinetOpens, WinetAsks, Round, At, Goto
<1>8. CASE Sigint \/ ServerDown \/ ServerUp \/ ServerSends \/ DriverUnload \/ DriverLoad
  BY <1>8
  DEF Sigint, ServerDown, ServerUp, ServerSends, DriverUnload, DriverLoad, StopAt, Running
<1>9. ASSUME NEW t \in Thread, ThreadInterrupted(t) PROVE ThreadsExist'
  BY <1>9 DEF ThreadInterrupted, At
<1>10. CASE EndedStep
  BY <1>10 DEF EndedStep
<1>. QED
  BY <1>1, <1>2, <1>3, <1>4, <1>5, <1>6, <1>7, <1>8, <1>9, <1>10, Zenon
  DEF Next, Start, Stop, ServerLoop, HwsimLoop, ConnLoop, MonitorLoop, WinetLoop, Environment,
      HwsimWork, Thread

\* interrupt() sets a flag only of a thread that was started.
LEMMA InterruptedStep ==
    ASSUME ClientTypeOK, ThreadsExist, InterruptedStarted, Next
    PROVE  InterruptedStarted'
<1>. USE DEF vars, threads, flags, socket, scheduler, kernel, ClientTypeOK, ThreadsExist,
    InterruptedStarted, Ended, Thread
<1>1. CASE DriverFound \/ WaitAbandoned \/ RegisterFirst \/ MonitorCreated \/ StartFails \/
          FirstConnect \/ FirstConnectFails \/ RetryConnect \/ SpawnThreads \/ StartDone \/
          JoinThreads
  BY <1>1
  DEF DriverFound, WaitAbandoned, RegisterFirst, MonitorCreated, StartFails, FirstConnect,
      FirstConnectFails, RetryConnect, SpawnThreads, StartDone, JoinThreads, MainAt,
      ConnectSucceeds
<1>2. CASE StopEarly \/ StopChecks \/ StopCloses \/ StopInterruptsConn \/ StopSignalsServer \/
          StopInterruptsServer \/ StopInterruptsOthers \/ StopReturns
  BY <1>2
  DEF StopEarly, StopChecks, StopCloses, StopInterruptsConn, StopSignalsServer,
      StopInterruptsServer, StopInterruptsOthers, StopReturns, StopAt, Close, Interrupt, NoLink
<1>3. CASE ServerRound \/ ServerWaits \/ ServerWakes \/ ServerLooks \/ ServerReceives \/
          ServerReceiveFails \/ ServerReports \/ ServerDelivers
  BY <1>3
  DEF ServerRound, ServerWaits, ServerWakes, ServerLooks, ServerReceives, ServerReceiveFails,
      ServerReports, ServerDelivers, Round, At, Reports, Goto
<1>4. CASE HwsimFrame \/ HwsimSends \/ HwsimReports
  BY <1>4
  DEF HwsimFrame, HwsimSends, HwsimReports, Round, At, Goto
<1>5. CASE ConnRound \/ ConnCloses \/ Reconnect \/ ReconnectFails \/ Reconnected
  BY <1>5
  DEF ConnRound, ConnCloses, Reconnect, ReconnectFails, Reconnected, Round, At, ConnectSucceeds,
      Close, Goto, NoLink
<1>6. CASE MonitorMisses \/ MonitorInit \/ MonitorInitFails \/ MonitorRegisters
  BY <1>6
  DEF MonitorMisses, MonitorInit, MonitorInitFails, MonitorRegisters, Round, At, Goto
<1>7. CASE WinetOpens \/ WinetAsks
  BY <1>7
  DEF WinetOpens, WinetAsks, Round, At, Goto
<1>8. CASE Sigint \/ ServerDown \/ ServerUp \/ ServerSends \/ DriverUnload \/ DriverLoad
  BY <1>8
  DEF Sigint, ServerDown, ServerUp, ServerSends, DriverUnload, DriverLoad, StopAt, Running
<1>9. ASSUME NEW t \in Thread, ThreadInterrupted(t) PROVE InterruptedStarted'
  BY <1>9 DEF ThreadInterrupted, At
<1>10. CASE EndedStep
  BY <1>10 DEF EndedStep
<1>. QED
  BY <1>1, <1>2, <1>3, <1>4, <1>5, <1>6, <1>7, <1>8, <1>9, <1>10, Zenon
  DEF Next, Start, Stop, ServerLoop, HwsimLoop, ConnLoop, MonitorLoop, WinetLoop, Environment,
      HwsimWork, Thread

\* stop() leaves its wait only when no thread is left, and a dead thread does
\* not move.
LEMMA WaitedForStep ==
    ASSUME ClientTypeOK, ThreadsExist, InterruptedStarted, Counted, WaitedFor, Next
    PROVE  WaitedFor'
<1>. USE DEF vars, threads, flags, socket, scheduler, kernel, ClientTypeOK, ThreadsExist,
    InterruptedStarted, WaitedFor, Ended, Thread
<1>1. CASE DriverFound \/ WaitAbandoned \/ RegisterFirst \/ MonitorCreated \/ StartFails \/
          FirstConnect \/ FirstConnectFails \/ RetryConnect \/ SpawnThreads \/ StartDone \/
          JoinThreads
  BY <1>1
  DEF DriverFound, WaitAbandoned, RegisterFirst, MonitorCreated, StartFails, FirstConnect,
      FirstConnectFails, RetryConnect, SpawnThreads, StartDone, JoinThreads, MainAt,
      ConnectSucceeds
<1>2. CASE StopEarly \/ StopChecks \/ StopCloses \/ StopInterruptsConn \/ StopSignalsServer \/
          StopInterruptsServer \/ StopInterruptsOthers
  BY <1>2
  DEF StopEarly, StopChecks, StopCloses, StopInterruptsConn, StopSignalsServer,
      StopInterruptsServer, StopInterruptsOthers, StopAt, Close, Interrupt, NoLink
<1>3. CASE StopReturns
  BY <1>3, AllDeadAtZero
  DEF StopReturns, StopAt
<1>4. CASE ServerRound \/ ServerWaits \/ ServerWakes \/ ServerLooks \/ ServerReceives \/
          ServerReceiveFails \/ ServerReports \/ ServerDelivers
  BY <1>4
  DEF ServerRound, ServerWaits, ServerWakes, ServerLooks, ServerReceives, ServerReceiveFails,
      ServerReports, ServerDelivers, Round, At, Reports, Goto
<1>5. CASE HwsimFrame \/ HwsimSends \/ HwsimReports
  BY <1>5
  DEF HwsimFrame, HwsimSends, HwsimReports, Round, At, Goto
<1>6. CASE ConnRound \/ ConnCloses \/ Reconnect \/ ReconnectFails \/ Reconnected
  BY <1>6
  DEF ConnRound, ConnCloses, Reconnect, ReconnectFails, Reconnected, Round, At, ConnectSucceeds,
      Close, Goto, NoLink
<1>7. CASE MonitorMisses \/ MonitorInit \/ MonitorInitFails \/ MonitorRegisters
  BY <1>7
  DEF MonitorMisses, MonitorInit, MonitorInitFails, MonitorRegisters, Round, At, Goto
<1>8. CASE WinetOpens \/ WinetAsks
  BY <1>8
  DEF WinetOpens, WinetAsks, Round, At, Goto
<1>9. CASE Sigint \/ ServerDown \/ ServerUp \/ ServerSends \/ DriverUnload \/ DriverLoad
  BY <1>9
  DEF Sigint, ServerDown, ServerUp, ServerSends, DriverUnload, DriverLoad, StopAt, Running
<1>10. ASSUME NEW t \in Thread, ThreadInterrupted(t) PROVE WaitedFor'
  BY <1>10 DEF ThreadInterrupted, At
<1>11. CASE EndedStep
  BY <1>11 DEF EndedStep
<1>. QED
  BY <1>1, <1>2, <1>3, <1>4, <1>5, <1>6, <1>7, <1>8, <1>9, <1>10, <1>11, Zenon
  DEF Next, Start, Stop, ServerLoop, HwsimLoop, ConnLoop, MonitorLoop, WinetLoop, Environment,
      HwsimWork, Thread

\* A socket is made when there is none, and closed before it is forgotten; the
\* sockets of the other threads take and give back other descriptors.
LEMMA SocketStep ==
    ASSUME ClientTypeOK, ThreadsExist, NotConnecting, OneServerSocket, Next
    PROVE  NotConnecting' /\ OneServerSocket'
<1>. USE DEF vars, threads, flags, socket, scheduler, kernel, ClientTypeOK, ThreadsExist,
    NotConnecting, OneServerSocket, Ended, Thread
<1>1. CASE DriverFound \/ WaitAbandoned \/ RegisterFirst \/ MonitorCreated \/ StartFails \/
          FirstConnectFails \/ RetryConnect \/ SpawnThreads \/ StartDone \/ JoinThreads
  BY <1>1
  DEF DriverFound, WaitAbandoned, RegisterFirst, MonitorCreated, StartFails, FirstConnectFails,
      RetryConnect, SpawnThreads, StartDone, JoinThreads, MainAt
<1>2. CASE FirstConnect
  <2>1. Master = -1 /\ Master' = Min(FreeFd) /\ Min(FreeFd) \in Fd
    BY <1>2, FreeFdIsFd DEF FirstConnect, MainAt, ConnectSucceeds
  <2>2. OneServerSocket'
    BY <1>2, <2>1 DEF FirstConnect, ConnectSucceeds, Fd
  <2>3. NotConnecting'
    BY <1>2 DEF FirstConnect, MainAt
  <2>. QED
    BY <2>2, <2>3
<1>3. CASE StopEarly \/ StopChecks \/ StopInterruptsConn \/ StopSignalsServer \/
          StopInterruptsServer \/ StopInterruptsOthers \/ StopReturns
  BY <1>3
  DEF StopEarly, StopChecks, StopInterruptsConn, StopSignalsServer, StopInterruptsServer,
      StopInterruptsOthers, StopReturns, StopAt, Interrupt
<1>4. CASE StopCloses
  <2>1. Master' = -1 /\ holder' = [f \in Fd |-> IF f = Master THEN "free" ELSE holder[f]]
    BY <1>4 DEF StopCloses, Close
  <2>2. OneServerSocket'
    BY <2>1, ClientAssumption DEF Fd
  <2>. QED
    BY <2>1, <2>2
<1>5. CASE ServerRound \/ ServerWaits \/ ServerWakes \/ ServerLooks \/ ServerReceives \/
          ServerReceiveFails \/ ServerReports \/ ServerDelivers
  BY <1>5
  DEF ServerRound, ServerWaits, ServerWakes, ServerLooks, ServerReceives, ServerReceiveFails,
      ServerReports, ServerDelivers, Round, At, Reports, Goto
<1>6. CASE HwsimFrame \/ HwsimSends \/ HwsimReports
  BY <1>6
  DEF HwsimFrame, HwsimSends, HwsimReports, Round, At, Goto
<1>7. CASE ConnRound \/ ReconnectFails \/ Reconnected
  BY <1>7
  DEF ConnRound, ReconnectFails, Reconnected, Round, At, Goto
<1>8. CASE ConnCloses
  <2>1. Master' = -1 /\ holder' = [f \in Fd |-> IF f = Master THEN "free" ELSE holder[f]]
    BY <1>8 DEF ConnCloses, Close
  <2>2. OneServerSocket'
    BY <2>1, ClientAssumption DEF Fd
  <2>. QED
    BY <2>1, <2>2
<1>9. CASE Reconnect
  <2>1. Master = -1 /\ Master' = Min(FreeFd) /\ Min(FreeFd) \in Fd
    BY <1>9, FreeFdIsFd DEF Reconnect, At, ConnectSucceeds
  <2>2. OneServerSocket'
    BY <1>9, <2>1 DEF Reconnect, ConnectSucceeds, Fd
  <2>3. NotConnecting'
    BY <1>9 DEF Reconnect, At, Goto
  <2>. QED
    BY <2>2, <2>3
<1>10. CASE MonitorMisses \/ MonitorInitFails \/ MonitorRegisters
  BY <1>10, FreeFdIsFd
  DEF MonitorMisses, MonitorInitFails, MonitorRegisters, Round, At, Goto
<1>11. CASE MonitorInit
  BY <1>11, FreeFdIsFd
  DEF MonitorInit, At, Goto
<1>12. CASE WinetOpens
  BY <1>12, FreeFdIsFd
  DEF WinetOpens, Round, Goto, At
<1>13. CASE WinetAsks
  BY <1>13
  DEF WinetAsks, At, Goto
<1>14. CASE Sigint \/ ServerDown \/ ServerUp \/ ServerSends \/ DriverUnload \/ DriverLoad
  BY <1>14
  DEF Sigint, ServerDown, ServerUp, ServerSends, DriverUnload, DriverLoad, StopAt, Running
<1>15. ASSUME NEW t \in Thread, ThreadInterrupted(t) PROVE NotConnecting' /\ OneServerSocket'
  BY <1>15 DEF ThreadInterrupted, At
<1>16. CASE EndedStep
  BY <1>16 DEF EndedStep
<1>. QED
  BY <1>1, <1>2, <1>3, <1>4, <1>5, <1>6, <1>7, <1>8, <1>9, <1>10, <1>11, <1>12, <1>13, <1>14,
     <1>15, <1>16, Zenon
  DEF Next, Start, Stop, ServerLoop, HwsimLoop, ConnLoop, MonitorLoop, WinetLoop, Environment,
      HwsimWork, Thread

-----------------------------------------------------------------------------
(***************************************************************************)
(* The theorems                                                            *)
(***************************************************************************)

\* The inductive invariant holds at the start of start(), and every step of
\* start(), stop(), a thread, the server or the driver keeps it.
THEOREM ClientInvariant == Spec => []ClientInv
<1>1. Init => ClientInv
  <2>. SUFFICES ASSUME Init PROVE ClientInv
    OBVIOUS
  <2>. USE ClientAssumption DEF Init
  <2>1. Alive = Thread
    BY DEF Alive
  <2>2. Counted
    BY <2>1 DEF Counted
  <2>3. number_thread \in Nat
    BY <2>2, AliveFinite DEF Counted
  <2>4. ClientTypeOK
    BY <2>3 DEF ClientTypeOK, Place, NoLink, Ended
  <2>5. ThreadsExist /\ InterruptedStarted /\ WaitedFor
    BY DEF ThreadsExist, InterruptedStarted, WaitedFor
  <2>6. NotConnecting /\ OneServerSocket
    BY DEF NotConnecting, OneServerSocket, Thread, Fd
  <2>. QED
    BY <2>2, <2>4, <2>5, <2>6 DEF ClientInv
<1>2. ClientInv /\ [Next]_vars => ClientInv'
  <2>. SUFFICES ASSUME ClientInv, [Next]_vars PROVE ClientInv'
    OBVIOUS
  <2>1. CASE Next
    BY <2>1, TypeStep, CountedStep, ThreadsExistStep, InterruptedStep, WaitedForStep, SocketStep
    DEF ClientInv
  <2>2. CASE UNCHANGED vars
    BY <2>2
    DEF vars, threads, flags, socket, scheduler, kernel, ClientInv, ClientTypeOK, Counted, Alive,
        ThreadsExist, InterruptedStarted, WaitedFor, NotConnecting, OneServerSocket
  <2>. QED
    BY <2>1, <2>2
<1>. QED
  BY <1>1, <1>2, PTL DEF Spec

\* Every variable of the client keeps its type: number_thread is not lowered
\* below zero, and what pselect reports are descriptors of its set.
THEOREM ClientTypeCorrect == Spec => []ClientTypeOK
<1>1. ClientInv => ClientTypeOK
  BY DEF ClientInv
<1>. QED
  BY <1>1, ClientInvariant, PTL

\* The process never holds a second socket to the server, nor one that it has
\* forgotten, however often the connection is lost, made again or closed by
\* stop().
THEOREM ClientHoldsOneSocket == Spec => []OneServerSocket
<1>1. ClientInv => OneServerSocket
  BY DEF ClientInv
<1>. QED
  BY <1>1, ClientInvariant, PTL

\* stop() is left only when no thread is left, for every number of SIGINTs.
THEOREM StopIsLeftLast == Spec => []StopWaitsForAll
<1>1. ClientInv => StopWaitsForAll
  BY DEF ClientInv, WaitedFor, StopWaitsForAll
<1>. QED
  BY <1>1, ClientInvariant, PTL

-----------------------------------------------------------------------------
(***************************************************************************)
(* Reconnection, when only the connection takes descriptors: no interface  *)
(* is asked for its permanent address, and the driver stays loaded.        *)
(***************************************************************************)
OnlyConnection == ~PermAddrSockets /\ MaxReloads = 0

\* The lowest descriptor is the only one the client ever uses.  The old node
\* of the scheduler, which nothing removes, is therefore the new one.
LowestOnly ==
    /\ budget.reloads = 0 /\ (main \notin {"init"} \cup Ended => driver.loaded)
    /\ at["monitor"] \notin {"init", "register"} /\ at["winet"] # "ioctl"
    /\ holder \in [Fd -> {"free", "server"}]
    /\ Master \in {-1, 1} /\ nodes \subseteq {1} /\ first \in {-1, 1}
    /\ Master # -1 => nodes = {1} /\ first = 1

\* Without a socket every descriptor is free, and the lowest is taken.
LEMMA LowestTaken ==
    ASSUME LowestOnly, OneServerSocket, Master = -1
    PROVE  Min(FreeFd) = 1
<1>1. FreeFd = Fd
  BY ClientAssumption DEF LowestOnly, OneServerSocket, FreeFd, Fd
<1>2. Fd \in SUBSET Nat /\ 1 \in Fd
  BY ClientAssumption DEF Fd
<1>3. Min(Fd) \in Fd /\ Min(Fd) <= 1
  BY <1>2, LowestFd
<1>. QED
  BY <1>1, <1>3, ClientAssumption DEF Fd

\* A connection is made with the lowest descriptor again.
LEMMA LowestStep ==
    ASSUME OnlyConnection, ClientInv, LowestOnly, Next
    PROVE  LowestOnly'
<1>. USE DEF vars, threads, flags, socket, scheduler, kernel, ClientInv, ClientTypeOK,
    ThreadsExist, NotConnecting, LowestOnly, OnlyConnection, Ended, Thread
<1>1. CASE DriverFound \/ WaitAbandoned \/ RegisterFirst \/ MonitorCreated \/ StartFails \/
          FirstConnectFails \/ RetryConnect \/ SpawnThreads \/ StartDone \/ JoinThreads
  BY <1>1
  DEF DriverFound, WaitAbandoned, RegisterFirst, MonitorCreated, StartFails, FirstConnectFails,
      RetryConnect, SpawnThreads, StartDone, JoinThreads, MainAt
<1>2. CASE FirstConnect
  <2>1. Master' = 1 /\ Min(FreeFd) = 1
    BY <1>2, LowestTaken DEF FirstConnect, MainAt, ConnectSucceeds
  <2>. QED
    BY <1>2, <2>1 DEF FirstConnect, MainAt, ConnectSucceeds, Goto
<1>3. CASE StopEarly \/ StopChecks \/ StopInterruptsConn \/ StopSignalsServer \/
          StopInterruptsServer \/ StopInterruptsOthers \/ StopReturns
  BY <1>3, ZenonT(40)
  DEF StopEarly, StopChecks, StopInterruptsConn, StopSignalsServer, StopInterruptsServer,
      StopInterruptsOthers, StopReturns, StopAt, Interrupt
<1>4. CASE StopCloses
  BY <1>4
  DEF StopCloses, StopAt, Close, NoLink
<1>5. CASE ServerRound \/ ServerWaits \/ ServerWakes \/ ServerLooks \/ ServerReceives \/
          ServerReceiveFails \/ ServerReports \/ ServerDelivers
  BY <1>5
  DEF ServerRound, ServerWaits, ServerWakes, ServerLooks, ServerReceives, ServerReceiveFails,
      ServerReports, ServerDelivers, Round, At, Reports, Goto
<1>6. CASE HwsimFrame \/ HwsimSends \/ HwsimReports
  BY <1>6
  DEF HwsimFrame, HwsimSends, HwsimReports, Round, At, Goto
<1>7. CASE ConnRound
  BY <1>7
  DEF ConnRound, Round, Goto, At
<1>8. CASE ConnCloses
  BY <1>8
  DEF ConnCloses, At, Close, NoLink
<1>9. CASE Reconnect
  <2>1. Master' = 1 /\ Min(FreeFd) = 1
    BY <1>9, LowestTaken DEF Reconnect, At, ConnectSucceeds
  <2>. QED
    BY <1>9, <2>1 DEF Reconnect, At, ConnectSucceeds, Goto
<1>10. CASE ReconnectFails
  BY <1>10
  DEF ReconnectFails, At, Goto
<1>11. CASE Reconnected
  BY <1>11
  DEF Reconnected, At, Goto
<1>12. CASE MonitorMisses \/ MonitorInit \/ MonitorInitFails \/ MonitorRegisters
  BY <1>12
  DEF MonitorMisses, MonitorInit, MonitorInitFails, MonitorRegisters, Round, At, Goto
<1>13. CASE WinetOpens \/ WinetAsks
  BY <1>13
  DEF WinetOpens, WinetAsks, Round, At, Goto
<1>14. CASE Sigint \/ ServerDown \/ ServerUp \/ ServerSends \/ DriverUnload \/ DriverLoad
  BY <1>14
  DEF Sigint, ServerDown, ServerUp, ServerSends, DriverUnload, DriverLoad, StopAt, Running
<1>15. ASSUME NEW t \in Thread, ThreadInterrupted(t) PROVE LowestOnly'
  BY <1>15 DEF ThreadInterrupted, At
<1>16. CASE EndedStep
  BY <1>16 DEF EndedStep
<1>. QED
  BY <1>1, <1>2, <1>3, <1>4, <1>5, <1>6, <1>7, <1>8, <1>9, <1>10, <1>11, <1>12, <1>13, <1>14,
     <1>15, <1>16, Zenon
  DEF Next, Start, Stop, ServerLoop, HwsimLoop, ConnLoop, MonitorLoop, WinetLoop, Environment,
      HwsimWork, Thread

\* While nothing else takes descriptors, a client that is connected listens to
\* its connection: pselect waits on it alone, and it is node 0.
THEOREM ReconnectionIsHeard ==
    ASSUME OnlyConnection
    PROVE  Spec => []ReconnectedIsHeard
<1>1. Init => LowestOnly
  BY ClientAssumption DEF OnlyConnection, Init, LowestOnly, Thread, Ended
<1>2. ClientInv /\ LowestOnly /\ [Next]_vars => LowestOnly'
  <2>1. ASSUME LowestOnly, UNCHANGED vars PROVE LowestOnly'
    BY <2>1 DEF vars, threads, flags, socket, scheduler, kernel, LowestOnly
  <2>. QED
    BY <2>1, LowestStep
<1>3. LowestOnly => ReconnectedIsHeard
  BY DEF LowestOnly, ReconnectedIsHeard
<1>. QED
  BY <1>1, <1>2, <1>3, ClientInvariant, PTL DEF Spec

=============================================================================
