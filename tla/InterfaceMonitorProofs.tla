----------------------- MODULE InterfaceMonitorProofs -----------------------
(***************************************************************************)
(* What the list of interfaces of vwifi-client keeps for every number of   *)
(* interfaces, names and notifications: its types; that the sockets are    *)
(* closed under no thread; and, when the rounds of the two threads do not  *)
(* overlap, that a thread which reads has an answer to read, that a round  *)
(* of the update empties the socket, and that what is listed exists.       *)
(***************************************************************************)
EXTENDS InterfaceMonitor, SequenceTheorems, TLAPS

-----------------------------------------------------------------------------
(***************************************************************************)
(* The types                                                               *)
(***************************************************************************)

\* A thread that is about to call add_device knows an interface and its
\* address.
FoundAtAdd == \A c \in Caller : at[c] = "add" => found[c] \in [info : Info, machwsim : Index]

\* The inductive invariant of the types.
TypeInv == MonitorTypeOK /\ FoundAtAdd

\* A thread that goes on is where it goes, and the other where it was.
LEMMA GotoStep ==
    ASSUME at \in [Caller -> Place], NEW c \in Caller, NEW l \in Place, Goto(c, l)
    PROVE  at' \in [Caller -> Place] /\ at'[c] = l /\ \A b \in Caller \ {c} : at'[b] = at[b]
  BY DEF Goto

\* An interface the kernel has, and what nl80211 says of it.
LEMMA PresentIface ==
    ASSUME MonitorTypeOK, NEW i \in Present
    PROVE  /\ i \in Index
           /\ iface[i] \in [state : {"present"}, name : Names, value : Values]
           /\ InfoOf(i) \in Info
<1>1. i \in Index /\ iface[i] \in [state : {"present"}, name : Names, value : Values]
  BY DEF MonitorTypeOK, Interface, Present
<1>. QED
  BY <1>1 DEF InfoOf, Info

\* rtnetlink adds a notification to those that wait.
LEMMA NotifyType ==
    ASSUME MonitorTypeOK, NEW e \in Event, Notify(e)
    PROVE  inetsock' \in Seq(Event)
  BY DEF MonitorTypeOK, Notify

\* The kernel keeps the types.
LEMMA KernelType ==
    ASSUME TypeInv, Kernel
    PROVE  TypeInv'
<1>. USE DEF TypeInv, FoundAtAdd, MonitorTypeOK, kernel, locals, life, vars
<1>1. ASSUME NEW i \in Index, NEW n \in Names, CreateInterface(i, n) PROVE TypeInv'
  <2>1. iface' \in [Index -> Interface]
    BY <1>1, MonitorAssumption DEF CreateInterface, Interface, Values
  <2>2. inetsock' \in Seq(Event)
    BY <1>1, NotifyType DEF CreateInterface, Event
  <2>. QED
    BY <1>1, <2>1, <2>2 DEF CreateInterface
<1>2. ASSUME NEW i \in Index, NEW n \in Names, RenameInterface(i, n) PROVE TypeInv'
  <2>1. iface' \in [Index -> Interface]
    BY <1>2, PresentIface DEF RenameInterface, Interface
  <2>2. inetsock' \in Seq(Event)
    BY <1>2, NotifyType DEF RenameInterface, Event
  <2>. QED
    BY <1>2, <2>1, <2>2 DEF RenameInterface
<1>3. ASSUME NEW i \in Index, SetTxPower(i) PROVE TypeInv'
  <2>1. iface' \in [Index -> Interface]
    BY <1>3, PresentIface, MonitorAssumption, SMTT(30) DEF SetTxPower, Interface, Values
  <2>. QED
    BY <1>3, <2>1 DEF SetTxPower
<1>4. ASSUME NEW i \in Index, RemoveInterface(i) PROVE TypeInv'
  <2>1. iface' \in [Index -> Interface]
    BY <1>4 DEF RemoveInterface, Interface
  <2>2. inetsock' \in Seq(Event)
    BY <1>4, NotifyType, PresentIface DEF RemoveInterface, Event
  <2>. QED
    BY <1>4, <2>1, <2>2 DEF RemoveInterface
<1>5. ASSUME NEW i \in Index, NEW type \in {"RTM_NEWLINK", "RTM_DELLINK"}, TouchInterface(i, type)
      PROVE  TypeInv'
  <2>1. inetsock' \in Seq(Event)
    BY <1>5, NotifyType, PresentIface DEF TouchInterface, Event
  <2>. QED
    BY <1>5, <2>1 DEF TouchInterface
<1>6. CASE OtherEvent
  <2>1. inetsock' \in Seq(Event)
    BY <1>6, NotifyType DEF OtherEvent, Event
  <2>. QED
    BY <1>6, <2>1 DEF OtherEvent
<1>. QED
  BY <1>1, <1>2, <1>3, <1>4, <1>5, <1>6 DEF Kernel

\* The notification that recvmsg() returns; one of an interface has its number.
LEMMA Received ==
    ASSUME MonitorTypeOK, Receives(Head(inetsock))
    PROVE  /\ at["mon"] = "loop" /\ started /\ (Overlap \/ ~InCall("upd"))
           /\ inetsock # <<>> /\ Head(inetsock) \in Event
           /\ inetsock' = Tail(inetsock) /\ inetsock' \in Seq(Event)
           /\ Head(inetsock).type # "other"
                => Head(inetsock) \in [type : {"RTM_NEWLINK", "RTM_DELLINK"}, index : Index,
                                       name : Names]
<1>1. Head(inetsock) \in Event
  BY DEF MonitorTypeOK, Receives
<1>. QED
  BY <1>1 DEF MonitorTypeOK, Receives, Event

\* What nl80211 answers are messages.
LEMMA AnswerType ==
    ASSUME MonitorTypeOK, NEW c \in Caller
    PROVE  AnswerTo(c) \in Seq(Reply)
<1>. DEFINE dump == {InfoOf(i) : i \in Present}
<1>1. dump \subseteq Info
  BY PresentIface
<1>2. asked \in Present => {InfoOf(asked)} \subseteq Info
  BY PresentIface
<1>3. \A S \in SUBSET Info : \A t \in {"info", "multi", "ack", "error", "done"} : Message(t, S) \in Reply
  BY DEF Message, Reply
<1>. QED
  BY <1>1, <1>2, <1>3 DEF AnswerTo

\* main_loop and recv_inet_event keep the types: only a notification of an
\* interface reaches the list, and it has a number of one.
LEMMA MonType ==
    ASSUME TypeInv,
           MonEnters \/ MonLeaves \/ SelectFails \/ DelNetInterface \/ NewNetInterface \/ IgnoreEvent
    PROVE  TypeInv'
<1>. USE DEF TypeInv, FoundAtAdd, MonitorTypeOK, kernel, locals, life, vars
<1>1. CASE MonEnters
  <2>1. outsideloop' \in BOOLEAN
    BY <1>1, Zenon DEF MonEnters
  <2>. QED
    BY <1>1, <2>1, GotoStep DEF MonEnters, Caller, Place
<1>2. CASE MonLeaves
  BY <1>2, GotoStep DEF MonLeaves, Caller, Place
<1>3. CASE SelectFails
  <2>1. started' \in BOOLEAN
    BY <1>3, Zenon DEF SelectFails
  <2>. QED
    BY <1>3, <2>1 DEF SelectFails
<1>4. CASE DelNetInterface
  <2>1. list' \in [Index -> Device \cup {NoDevice}] /\ inetsock' \in Seq(Event)
    BY <1>4, Received DEF DelNetInterface, IsWireless
  <2>. QED
    BY <1>4, <2>1 DEF DelNetInterface
<1>5. CASE NewNetInterface
  <2>1. asked' \in Index \cup {0} /\ inetsock' \in Seq(Event)
    BY <1>5, Received DEF NewNetInterface, IsWireless
  <2>. QED
    BY <1>5, <2>1, GotoStep DEF NewNetInterface, Caller, Place
<1>6. CASE IgnoreEvent
  <2>1. inetsock' \in Seq(Event)
    BY <1>6, Received DEF IgnoreEvent
  <2>. QED
    BY <1>6, <2>1 DEF IgnoreEvent
<1>. QED
  BY <1>1, <1>2, <1>3, <1>4, <1>5, <1>6

\* The message nl_recvmsgs takes out of the socket, and what is left.
LEMMA ReadReply ==
    ASSUME MonitorTypeOK, nls # <<>>
    PROVE  /\ Head(nls) \in Reply /\ Head(nls).infos \subseteq Info
           /\ Tail(nls) \in Seq(Reply)
           /\ Append(Tail(nls), Message("done", {})) \in Seq(Reply)
<1>1. Head(nls) \in Reply /\ Tail(nls) \in Seq(Reply)
  BY DEF MonitorTypeOK
<1>2. Message("done", {}) \in Reply
  BY DEF Message, Reply
<1>. QED
  BY <1>1, <1>2 DEF Reply

\* Where a thread goes when a callback returns.
LEMMA ProceedStep ==
    ASSUME MonitorTypeOK, NEW c \in Caller, NEW d, Proceed(c, d)
    PROVE  /\ at' \in [Caller -> Place] /\ todo' \in [Caller -> SUBSET Info]
           /\ at'[c] \in {"perm", "recv", AfterRecvmsgs(c)}
           /\ at'[c] = "recv" => multipart[c]
           /\ at'[c] = AfterRecvmsgs(c) => ~multipart[c]
           /\ todo'[c] \subseteq todo[c]
           /\ \A b \in Caller \ {c} : at'[b] = at[b] /\ todo'[b] = todo[b]
  BY DEF MonitorTypeOK, Proceed, Goto, AfterRecvmsgs, Caller, Place

\* get_winterface_infos and its callbacks keep the types.
LEMMA GetInfosType ==
    ASSUME TypeInv, NEW c \in Caller, GetInfos(c)
    PROVE  TypeInv'
<1>. USE DEF TypeInv, FoundAtAdd, MonitorTypeOK, kernel, locals, life, vars
<1>1. CASE Ask(c)
  <2>1. nls' \in Seq(Reply)
    BY <1>1, AnswerType DEF Ask
  <2>. QED
    BY <1>1, <2>1, GotoStep DEF Ask, Place
<1>2. CASE AskFails(c)
  BY <1>2, GotoStep DEF AskFails, AfterCall, Place
<1>3. CASE RecvInfos(c)
  <2>1. nls' \in Seq(Reply) /\ todo' \in [Caller -> SUBSET Info]
    BY <1>3, ReadReply DEF RecvInfos
  <2>2. multipart' \in [Caller -> BOOLEAN]
    BY <1>3, Zenon DEF RecvInfos
  <2>. QED
    BY <1>3, <2>1, <2>2, GotoStep DEF RecvInfos, Place
<1>4. CASE RecvAck(c)
  BY <1>4, ReadReply, GotoStep DEF RecvAck, AfterRecvmsgs, Place
<1>5. CASE RecvError(c)
  BY <1>5, ReadReply, GotoStep DEF RecvError, AfterRecvmsgs, Place
<1>6. CASE RecvDone(c)
  BY <1>6, ReadReply, GotoStep DEF RecvDone, AfterRecvmsgs, Place
<1>7. ASSUME NEW d \in todo[c], PmaddrFails(c, d) PROVE TypeInv'
  BY <1>7, ProceedStep DEF PmaddrFails, AfterRecvmsgs
<1>8. ASSUME NEW d \in todo[c], Pmaddr(c, d) PROVE TypeInv'
  <2>1. d \in Info
    OBVIOUS
  <2>2. PICK i \in Named(d.name) : found' = [found EXCEPT ![c] = [info |-> d, machwsim |-> i]]
    BY <1>8 DEF Pmaddr
  <2>3. i \in Index
    BY DEF Named, Present
  <2>. QED
    BY <1>8, <2>1, <2>2, <2>3, GotoStep DEF Pmaddr, Place
<1>9. CASE AddDevice(c)
  <2>1. found[c] \in [info : Info, machwsim : Index]
    BY <1>9 DEF AddDevice
  <2>2. list' \in [Index -> Device \cup {NoDevice}]
    BY <1>9, <2>1 DEF AddDevice, DeviceOf, Device, Info
  <2>3. found' \in [Caller -> [info : Info, machwsim : Index] \cup {NoDevice}]
    BY <1>9 DEF AddDevice
  <2>4. /\ at' \in [Caller -> Place] /\ todo' \in [Caller -> SUBSET Info] /\ at'[c] # "add"
        /\ \A b \in Caller \ {c} : at'[b] = at[b]
    BY <1>9, ProceedStep DEF AddDevice, AfterRecvmsgs
  <2>. QED
    BY <1>9, <2>2, <2>3, <2>4 DEF AddDevice
<1>. QED
  BY <1>1, <1>2, <1>3, <1>4, <1>5, <1>6, <1>7, <1>8, <1>9 DEF GetInfos

\* The types hold of every behaviour.
LEMMA TypeInvariant == Spec => []TypeInv
<1>1. Init => TypeInv
  BY MonitorAssumption DEF Init, TypeInv, MonitorTypeOK, FoundAtAdd, Caller, Place, Interface
<1>2. TypeInv /\ [Next]_vars => TypeInv'
  <2>. SUFFICES ASSUME TypeInv, [Next]_vars PROVE TypeInv'
    OBVIOUS
  <2>. USE DEF TypeInv, FoundAtAdd, MonitorTypeOK, kernel, locals, life, vars
  <2>1. CASE Mon
    BY <2>1, MonType, GetInfosType DEF Mon, Caller
  <2>2. CASE UpdBegins
    BY <2>2, GotoStep DEF UpdBegins, Caller, Place
  <2>3. CASE UpdTests
    BY <2>3, GotoStep DEF UpdTests, Caller, Place
  <2>4. CASE UpdInterrupted
    BY <2>4, GotoStep DEF UpdInterrupted, Caller, Place
  <2>5. CASE Delete
    <3>1. started' \in BOOLEAN
      BY <2>5, Zenon DEF Delete
    <3>. QED
      BY <2>5, <3>1 DEF Delete
  <2>6. CASE StopRequested \/ Clean
    BY <2>6 DEF StopRequested, Clean
  <2>7. CASE UNCHANGED vars
    BY <2>7
  <2>. QED
    BY <2>1, <2>2, <2>3, <2>4, <2>5, <2>6, <2>7, KernelType, GetInfosType
    DEF Next, Upd, Closed, Caller
<1>. QED
  BY <1>1, <1>2, PTL DEF Spec

\* Every variable of the monitor keeps its type: in particular the list only
\* ever maps the number of an interface to a device whose address was found,
\* and wifi.err is 0 or 1.
THEOREM MonitorTypeCorrect == Spec => []MonitorTypeOK
<1>1. TypeInv => MonitorTypeOK
  BY DEF TypeInv
<1>. QED
  BY <1>1, TypeInvariant, PTL

-----------------------------------------------------------------------------
(***************************************************************************)
(* The end of main_loop                                                    *)
(***************************************************************************)

\* Each thread is where its own code can be.
OwnPlaces ==
    /\ at["mon"] \in {"unborn", "loop", "ask", "recv", "perm", "add", "ended"}
    /\ at["upd"] \in {"idle", "ask", "recv", "perm", "add", "test", "dead"}

\* _outsideloop tells whether main_loop runs, and the destructor reaches its
\* end only after it has run.
LoopFlag ==
    /\ outsideloop <=> at["mon"] \in {"unborn", "ended"}
    /\ main \in {"delete", "closed"} => at["mon"] # "unborn"
    /\ main = "closed" => outsideloop

\* A call of get_winterface_infos moves its own thread, inside the call or to
\* where it returns.
LEMMA CallMoves ==
    ASSUME MonitorTypeOK, NEW c \in Caller, GetInfos(c)
    PROVE  /\ InCall(c)
           /\ at'[c] \in {"recv", "perm", "add", AfterRecvmsgs(c), AfterCall(c)}
           /\ \A b \in Caller \ {c} : at'[b] = at[b]
           /\ life' = life
<1>. USE DEF InCall, life
<1>0. at \in [Caller -> Place]
  BY DEF MonitorTypeOK
<1>1. CASE Ask(c) \/ AskFails(c)
  BY <1>0, <1>1, GotoStep DEF Ask, AskFails, AfterCall, Place
<1>2. CASE RecvInfos(c) \/ RecvAck(c) \/ RecvError(c) \/ RecvDone(c)
  BY <1>0, <1>2, GotoStep DEF RecvInfos, RecvAck, RecvError, RecvDone, AfterRecvmsgs, Place
<1>3. ASSUME NEW d \in todo[c], PmaddrFails(c, d) \/ Pmaddr(c, d)
      PROVE  at'[c] \in {"recv", "perm", "add", AfterRecvmsgs(c)} /\ InCall(c) /\ life' = life
             /\ \A b \in Caller \ {c} : at'[b] = at[b]
  BY <1>0, <1>3, GotoStep, ProceedStep DEF PmaddrFails, Pmaddr, Place
<1>4. CASE AddDevice(c)
  BY <1>4, ProceedStep DEF AddDevice
<1>. QED
  BY <1>1, <1>2, <1>3, <1>4 DEF GetInfos

\* What the kernel does leaves the client as it is.
LEMMA KernelMoves ==
    ASSUME Kernel
    PROVE  UNCHANGED <<nls, list, err, at, locals, life, failures>>
<1>1. ASSUME NEW i, NEW n, CreateInterface(i, n) \/ RenameInterface(i, n) \/ TouchInterface(i, n)
      PROVE  UNCHANGED <<nls, list, err, at, locals, life, failures>>
  BY <1>1, Zenon DEF CreateInterface, RenameInterface, TouchInterface
<1>2. ASSUME NEW i, RemoveInterface(i) \/ SetTxPower(i)
      PROVE  UNCHANGED <<nls, list, err, at, locals, life, failures>>
  BY <1>2, Zenon DEF RemoveInterface, SetTxPower
<1>3. CASE OtherEvent
  BY <1>3, Zenon DEF OtherEvent
<1>. QED
  BY <1>1, <1>2, <1>3, Zenon DEF Kernel

\* A step leaves each thread in its own code.
LEMMA PlacesStep ==
    ASSUME TypeInv, OwnPlaces, Next
    PROVE  OwnPlaces'
<1>. USE DEF TypeInv, OwnPlaces, Caller, vars
<1>0. at \in [Caller -> Place]
  BY DEF MonitorTypeOK
<1>1. CASE Kernel
  BY <1>1, KernelMoves
<1>2. CASE MonEnters \/ MonLeaves \/ SelectFails
  BY <1>0, <1>2, GotoStep DEF MonEnters, MonLeaves, SelectFails, Place
<1>3. CASE DelNetInterface \/ NewNetInterface \/ IgnoreEvent
  BY <1>0, <1>3, GotoStep DEF DelNetInterface, NewNetInterface, IgnoreEvent, Place
<1>4. CASE UpdBegins \/ UpdTests \/ UpdInterrupted
  BY <1>0, <1>4, GotoStep DEF UpdBegins, UpdTests, UpdInterrupted, Place
<1>5. CASE GetInfos("mon") \/ GetInfos("upd")
  BY <1>5, CallMoves DEF AfterRecvmsgs, AfterCall
<1>6. CASE StopRequested \/ Delete \/ Clean \/ Closed
  BY <1>6 DEF StopRequested, Delete, Clean, Closed
<1>. QED
  BY <1>1, <1>2, <1>3, <1>4, <1>5, <1>6 DEF Next, Mon, Upd

\* Each thread stays in its own code.
LEMMA PlacesInvariant == Spec => [](TypeInv /\ OwnPlaces)
<1>1. Init => OwnPlaces
  BY DEF Init, OwnPlaces, Caller
<1>2. TypeInv /\ OwnPlaces /\ [Next]_vars => OwnPlaces'
  <2>1. ASSUME OwnPlaces, UNCHANGED vars PROVE OwnPlaces'
    BY <2>1 DEF OwnPlaces, vars
  <2>. QED
    BY <2>1, PlacesStep
<1>. QED
  BY <1>1, <1>2, TypeInvariant, PTL DEF Spec

\* _outsideloop is cleared where main_loop begins and set where it ends.
LEMMA LoopStep ==
    ASSUME ~LateStart, TypeInv, OwnPlaces, LoopFlag, Next
    PROVE  LoopFlag'
<1>. USE DEF TypeInv, OwnPlaces, LoopFlag, Caller, life, vars
<1>0. at \in [Caller -> Place]
  BY DEF MonitorTypeOK
<1>1. CASE Kernel
  BY <1>1, KernelMoves
<1>2. CASE MonEnters \/ MonLeaves \/ SelectFails
  BY <1>0, <1>2, GotoStep DEF MonEnters, MonLeaves, SelectFails, Place
<1>3. CASE DelNetInterface \/ NewNetInterface \/ IgnoreEvent
  BY <1>0, <1>3, GotoStep, Received DEF DelNetInterface, NewNetInterface, IgnoreEvent, Place
<1>4. CASE UpdBegins \/ UpdTests \/ UpdInterrupted
  BY <1>0, <1>4, GotoStep DEF UpdBegins, UpdTests, UpdInterrupted, Place
<1>5. CASE GetInfos("mon")
  BY <1>5, CallMoves DEF InCall, AfterRecvmsgs, AfterCall
<1>6. CASE GetInfos("upd")
  BY <1>6, CallMoves DEF InCall, AfterRecvmsgs, AfterCall
<1>7. CASE StopRequested \/ Delete \/ Clean
  BY <1>7 DEF StopRequested, Delete, Clean
<1>8. CASE Closed
  BY <1>8 DEF Closed
<1>. QED
  BY <1>1, <1>2, <1>3, <1>4, <1>5, <1>6, <1>7, <1>8 DEF Next, Mon, Upd

\* When the thread of start() has begun before the object is deleted, clean()
\* closes the sockets only after main_loop has ended.
THEOREM SocketsClosedUnused ==
    ASSUME ~LateStart
    PROVE  Spec => []CleanedUnused
<1>1. Init => LoopFlag
  BY DEF Init, LoopFlag, Caller
<1>2. TypeInv /\ OwnPlaces /\ LoopFlag /\ [Next]_vars => LoopFlag'
  <2>1. ASSUME LoopFlag, UNCHANGED vars PROVE LoopFlag'
    BY <2>1 DEF LoopFlag, vars, life
  <2>. QED
    BY <2>1, LoopStep
<1>3. OwnPlaces /\ LoopFlag => CleanedUnused
  BY DEF OwnPlaces, LoopFlag, CleanedUnused
<1>. QED
  BY <1>1, <1>2, <1>3, PlacesInvariant, PTL DEF Spec

-----------------------------------------------------------------------------
(***************************************************************************)
(* The socket of nl80211, when the rounds do not overlap                   *)
(***************************************************************************)

\* One thread at a time is inside get_winterface_infos.
OneRound == ~InCall("mon") \/ ~InCall("upd")

\* The messages that answer the request of upd: its dump.
DumpPart(m) == m.type \in {"multi", "done"}

\* Only answers to mon are in the socket ...
NoDump(s) == \A k \in 1..Len(s) : ~DumpPart(s[k])

\* ... or one message of a dump is, behind all of them.
OneDump(s) == s # <<>> /\ DumpPart(s[Len(s)]) /\ \A k \in 1..(Len(s) - 1) : ~DumpPart(s[k])

\* upd has asked, and has not read the end of its dump.
Dumping == at["upd"] \in {"recv", "perm", "add"} \/ (at["upd"] = "test" /\ err = 1)

\* What is in the socket: answers that mon has left, and behind them what is
\* still to come of the dump upd waits for.  mon never meets a dump, so it
\* reads one message for each request, which has left at least one; upd reads
\* on until the end of its dump, the last message there is.
SocketContents ==
    /\ Dumping => OneDump(nls) /\ err = 1
    /\ ~Dumping => NoDump(nls)
    /\ at["upd"] = "ask" => err = 1
    /\ at["upd"] = "test" /\ err = 0 => nls = <<>>
    /\ at["mon"] = "recv" => nls # <<>>
    /\ multipart["upd"] => Dumping /\ Len(nls) = 1 /\ nls[1].type = "done"
    /\ ~multipart["mon"]

\* A message is read, and no dump is under way.
LEMMA NoDumpTail ==
    ASSUME NEW s \in Seq(Reply), NoDump(s), s # <<>>
    PROVE  ~DumpPart(Head(s)) /\ NoDump(Tail(s))
  BY DEF NoDump

\* A message is read during a dump: the dump itself, when it is the first and
\* then the only one, or an answer mon has left before it.
LEMMA OneDumpTail ==
    ASSUME NEW s \in Seq(Reply), OneDump(s)
    PROVE  /\ DumpPart(Head(s)) => Len(s) = 1 /\ Tail(s) = <<>>
           /\ ~DumpPart(Head(s)) => OneDump(Tail(s))
<1>1. Len(s) \in Nat \ {0} /\ Head(s) = s[1]
  BY DEF OneDump
<1>2. Len(Tail(s)) = Len(s) - 1 /\ Tail(s) \in Seq(Reply)
      /\ \A k \in 1..(Len(s) - 1) : Tail(s)[k] = s[k + 1]
  BY <1>1
<1>3. CASE DumpPart(Head(s))
  <2>1. ~(1 \in 1..(Len(s) - 1))
    BY <1>1, <1>3, Zenon DEF OneDump
  <2>2. Len(s) = 1
    <3>1. \A n \in Nat \ {0} : n # 1 => 1 \in 1..(n - 1)
      OBVIOUS
    <3>. QED
      BY <1>1, <2>1, <3>1, Zenon
  <2>3. Len(Tail(s)) = 0 /\ Tail(s) \in Seq(Reply)
    BY <1>2, <2>2
  <2>4. Tail(s) = <<>>
    BY <2>3, EmptySeq, Zenon
  <2>. QED
    BY <1>3, <2>2, <2>4
<1>4. CASE ~DumpPart(Head(s))
  <2>1. Len(s) # 1
    BY <1>1, <1>4, Zenon DEF OneDump
  <2>. DEFINE n == Len(s) - 1
  <2>2. n \in Nat \ {0} /\ Len(Tail(s)) = n /\ n + 1 = Len(s) /\ n \in 1..n
    BY <1>1, <1>2, <2>1
  <2>3. Tail(s) # <<>>
    BY <2>2
  <2>4. DumpPart(Tail(s)[n])
    BY <1>2, <2>2, Zenon DEF OneDump
  <2>5. ASSUME NEW k \in 1..(n - 1) PROVE ~DumpPart(Tail(s)[k])
    <3>1. k \in 1..n /\ k + 1 \in 1..n
      BY <2>2
    <3>2. Tail(s)[k] = s[k + 1]
      BY <1>2, <3>1
    <3>. QED
      BY <3>1, <3>2, Zenon DEF OneDump
  <2>. QED
    BY <1>4, <2>2, <2>3, <2>4, <2>5, Zenon DEF OneDump
<1>. QED
  BY <1>3, <1>4

\* A dump is asked for, or goes on.
LEMMA DumpAppended ==
    ASSUME NEW s \in Seq(Reply), NoDump(s), NEW m \in Reply, DumpPart(m)
    PROVE  OneDump(s \o <<m>>) /\ OneDump(Append(s, m))
  BY DEF NoDump, OneDump

\* What nl80211 answers.
LEMMA AnswerShape ==
    ASSUME MonitorTypeOK, NEW s \in Seq(Reply), NoDump(s)
    PROVE  /\ NoDump(s \o AnswerTo("mon")) /\ s \o AnswerTo("mon") # <<>>
           /\ OneDump(s \o AnswerTo("upd"))
<1>1. AnswerTo("mon") \in Seq(Reply) /\ AnswerTo("upd") \in Seq(Reply)
  BY AnswerType DEF Caller
<1>2. AnswerTo("mon") # <<>> /\ NoDump(AnswerTo("mon"))
  BY DEF AnswerTo, Message, NoDump, DumpPart
<1>3. PICK m : AnswerTo("upd") = <<m>> /\ DumpPart(m)
  <2>1. ASSUME NEW S PROVE DumpPart(Message("done", S)) /\ DumpPart(Message("multi", S))
    BY DEF Message, DumpPart
  <2>. QED
    BY <2>1, Zenon DEF AnswerTo
<1>4. m \in Reply
  <2>1. <<m>> \in Seq(Reply)
    BY <1>1, <1>3, Zenon
  <2>2. 1 \in 1..Len(<<m>>) /\ <<m>>[1] = m
    OBVIOUS
  <2>. QED
    BY <2>1, <2>2, ElementOfSeq, Zenon
<1>5. NoDump(s \o AnswerTo("mon")) /\ s \o AnswerTo("mon") # <<>>
  BY <1>1, <1>2 DEF NoDump
<1>. QED
  BY <1>3, <1>4, <1>5, DumpAppended

\* A round begins only when the other thread is outside.
LEMMA OneRoundStep ==
    ASSUME ~Overlap, TypeInv, OwnPlaces, OneRound, Next
    PROVE  OneRound'
<1>. USE DEF TypeInv, OwnPlaces, OneRound, InCall, Caller, vars
<1>0. at \in [Caller -> Place]
  BY DEF MonitorTypeOK
<1>1. CASE Kernel
  BY <1>1, KernelMoves
<1>2. CASE MonEnters \/ MonLeaves \/ SelectFails
  BY <1>0, <1>2, GotoStep DEF MonEnters, MonLeaves, SelectFails, Place
<1>3. CASE DelNetInterface \/ NewNetInterface \/ IgnoreEvent
  BY <1>0, <1>3, GotoStep, Received DEF DelNetInterface, NewNetInterface, IgnoreEvent, Place
<1>4. CASE UpdBegins \/ UpdTests \/ UpdInterrupted
  BY <1>0, <1>4, GotoStep DEF UpdBegins, UpdTests, UpdInterrupted, Place
<1>5. CASE GetInfos("mon") \/ GetInfos("upd")
  BY <1>5, CallMoves
<1>6. CASE StopRequested \/ Delete \/ Clean \/ Closed
  BY <1>6 DEF StopRequested, Delete, Clean, Closed
<1>. QED
  BY <1>1, <1>2, <1>3, <1>4, <1>5, <1>6 DEF Next, Mon, Upd

\* What a request of mon does to the socket.
LEMMA MonReads ==
    ASSUME TypeInv, OwnPlaces, OneRound, SocketContents, GetInfos("mon")
    PROVE  SocketContents'
<1>. USE DEF TypeInv, OwnPlaces, OneRound, InCall, Caller, SocketContents, Dumping
<1>0. at \in [Caller -> Place] /\ multipart \in [Caller -> BOOLEAN] /\ nls \in Seq(Reply) /\ "mon" \in Caller
  BY DEF MonitorTypeOK
<1>1. /\ at["upd"] \in {"idle", "dead"} /\ at'["upd"] = at["upd"]
      /\ NoDump(nls) /\ ~multipart["upd"] /\ ~multipart["mon"]
  BY CallMoves
<1>2. SUFFICES /\ NoDump(nls') /\ multipart' = multipart
               /\ at'["mon"] = "recv" => nls' # <<>>
  BY <1>1
<1>3. CASE Ask("mon")
  BY <1>0, <1>1, <1>3, AnswerShape DEF Ask
<1>4. CASE AskFails("mon")
  BY <1>0, <1>1, <1>4, GotoStep DEF AskFails, AfterCall, Place
<1>5. ASSUME nls # <<>>, nls' = Tail(nls), multipart' = multipart, at'["mon"] # "recv"
      PROVE  /\ NoDump(nls') /\ multipart' = multipart
             /\ at'["mon"] = "recv" => nls' # <<>>
  BY <1>0, <1>1, <1>5, NoDumpTail
<1>6. nls # <<>> => ~DumpPart(Head(nls))
  BY <1>0, <1>1, NoDumpTail
<1>7. CASE RecvInfos("mon")
  <2>1. Head(nls).type # "multi"
    BY <1>6, <1>7 DEF RecvInfos, DumpPart
  <2>2. multipart' = multipart
    BY <1>0, <1>1, <1>7, <2>1, Zenon DEF RecvInfos
  <2>. QED
    BY <1>0, <1>5, <1>7, <2>1, <2>2, GotoStep DEF RecvInfos, Place
<1>8. CASE RecvAck("mon")
  BY <1>0, <1>1, <1>5, <1>8, GotoStep DEF RecvAck, locals, AfterRecvmsgs, Place
<1>9. CASE RecvError("mon")
  <2>1. multipart' = multipart
    BY <1>0, <1>1, <1>9, Zenon DEF RecvError
  <2>. QED
    BY <1>0, <1>5, <1>9, <2>1, GotoStep DEF RecvError, AfterRecvmsgs, Place
<1>10. CASE RecvDone("mon")
  BY <1>6, <1>10 DEF RecvDone, DumpPart
<1>11. ASSUME NEW d \in todo["mon"], PmaddrFails("mon", d)
       PROVE  NoDump(nls') /\ multipart' = multipart /\ at'["mon"] # "recv"
  BY <1>0, <1>1, <1>11, ProceedStep DEF PmaddrFails
<1>12. ASSUME NEW d \in todo["mon"], Pmaddr("mon", d)
       PROVE  NoDump(nls') /\ multipart' = multipart /\ at'["mon"] # "recv"
  BY <1>0, <1>1, <1>12, GotoStep DEF Pmaddr, Place
<1>13. CASE AddDevice("mon")
  BY <1>0, <1>1, <1>13, ProceedStep DEF AddDevice
<1>. QED
  BY <1>3, <1>4, <1>7, <1>8, <1>9, <1>10, <1>11, <1>12, <1>13 DEF GetInfos

\* What a round of upd does to it.
LEMMA UpdReads ==
    ASSUME TypeInv, OwnPlaces, OneRound, SocketContents, GetInfos("upd")
    PROVE  SocketContents'
<1>. USE DEF TypeInv, OwnPlaces, OneRound, InCall, Caller, SocketContents, Dumping
<1>0. at \in [Caller -> Place] /\ multipart \in [Caller -> BOOLEAN] /\ nls \in Seq(Reply) /\ "upd" \in Caller
  BY DEF MonitorTypeOK
<1>1. /\ at["mon"] \in {"unborn", "loop", "ended"} /\ at'["mon"] = at["mon"]
      /\ ~multipart["mon"] /\ multipart["upd"] \in BOOLEAN
  BY <1>0, CallMoves
<1>2. CASE Ask("upd")
  BY <1>0, <1>1, <1>2, AnswerShape, GotoStep DEF Ask, Place
<1>3. CASE AskFails("upd")
  BY <1>0, <1>1, <1>3, GotoStep DEF AskFails, AfterCall, Place
<1>4. ASSUME at["upd"] = "recv", nls # <<>>, ~DumpPart(Head(nls))
      PROVE  OneDump(Tail(nls)) /\ ~multipart["upd"] /\ err = 1
  BY <1>0, <1>4, OneDumpTail DEF DumpPart
<1>5. ASSUME at["upd"] = "recv", nls # <<>>, DumpPart(Head(nls))
      PROVE  Tail(nls) = <<>> /\ err = 1
  BY <1>0, <1>5, OneDumpTail
<1>6. CASE RecvInfos("upd")
  <2>1. at'["upd"] = "perm" /\ err' = err /\ at["upd"] = "recv" /\ nls # <<>>
    BY <1>0, <1>6, GotoStep DEF RecvInfos, Place
  <2>2. CASE Head(nls).type = "multi"
    <3>1. nls' = <<Message("done", {})>>
      <4>1. Tail(nls) = <<>>
        BY <1>5, <2>1, <2>2 DEF DumpPart
      <4>2. nls' = Append(Tail(nls), Message("done", {}))
        BY <1>6, <2>2, Zenon DEF RecvInfos
      <4>3. \A m : Append(<<>>, m) = <<m>>
        OBVIOUS
      <4>. QED
        BY <4>1, <4>2, <4>3, Zenon
    <3>2. OneDump(nls') /\ Len(nls') = 1 /\ nls'[1].type = "done"
      BY <3>1 DEF OneDump, DumpPart, Message
    <3>3. ~multipart'["mon"]
      BY <1>0, <1>1, <1>6, Zenon DEF RecvInfos
    <3>. QED
      BY <1>1, <1>5, <2>1, <2>2, <3>2, <3>3 DEF DumpPart
  <2>3. CASE Head(nls).type # "multi"
    <3>1. nls' = Tail(nls) /\ ~DumpPart(Head(nls))
      BY <1>6, <2>3 DEF RecvInfos, DumpPart
    <3>2. ~multipart'["mon"] /\ ~multipart'["upd"]
      <4>1. ~multipart["upd"]
        BY <1>4, <2>1, <3>1
      <4>. QED
        BY <1>0, <1>1, <1>6, <2>3, <4>1, Zenon DEF RecvInfos
    <3>. QED
      BY <1>1, <1>4, <2>1, <3>1, <3>2
  <2>. QED
    BY <2>2, <2>3
<1>7. CASE RecvAck("upd")
  <2>1. ~DumpPart(Head(nls)) /\ at["upd"] = "recv" /\ nls # <<>>
    BY <1>7 DEF RecvAck, DumpPart
  <2>2. at'["upd"] = "test" /\ err' = err /\ nls' = Tail(nls) /\ multipart' = multipart
    BY <1>0, <1>4, <1>7, <2>1, GotoStep DEF RecvAck, locals, AfterRecvmsgs, Place
  <2>. QED
    BY <1>1, <1>4, <2>1, <2>2
<1>8. CASE RecvError("upd")
  <2>1. ~DumpPart(Head(nls)) /\ at["upd"] = "recv" /\ nls # <<>>
    BY <1>8 DEF RecvError, DumpPart
  <2>2. at'["upd"] = "test" /\ err' = err /\ nls' = Tail(nls)
    BY <1>0, <1>8, GotoStep DEF RecvError, AfterRecvmsgs, Place
  <2>3. ~multipart'["upd"] /\ ~multipart'["mon"]
    BY <1>0, <1>1, <1>8, Zenon DEF RecvError
  <2>. QED
    BY <1>1, <1>4, <2>1, <2>2, <2>3
<1>9. CASE RecvDone("upd")
  <2>1. DumpPart(Head(nls)) /\ at["upd"] = "recv" /\ nls # <<>>
    BY <1>9 DEF RecvDone, DumpPart
  <2>2. at'["upd"] = "test" /\ err' = 0 /\ nls' = <<>>
    BY <1>0, <1>5, <1>9, <2>1, GotoStep DEF RecvDone, AfterRecvmsgs, Place
  <2>3. ~multipart'["upd"] /\ ~multipart'["mon"]
    BY <1>0, <1>1, <1>9, Zenon DEF RecvDone
  <2>. QED
    BY <1>1, <2>2, <2>3 DEF NoDump
<1>10. ASSUME at["upd"] \in {"perm", "add"}, at'["upd"] \in {"perm", "add", "recv", "test"},
              UNCHANGED <<nls, err, multipart>>
       PROVE  SocketContents'
  BY <1>1, <1>10
<1>11. ASSUME NEW d \in todo["upd"], PmaddrFails("upd", d) PROVE SocketContents'
  BY <1>10, <1>11, ProceedStep DEF PmaddrFails, AfterRecvmsgs
<1>12. ASSUME NEW d \in todo["upd"], Pmaddr("upd", d) PROVE SocketContents'
  BY <1>0, <1>10, <1>12, GotoStep DEF Pmaddr, Place
<1>13. CASE AddDevice("upd")
  BY <1>10, <1>13, ProceedStep DEF AddDevice, AfterRecvmsgs
<1>. QED
  BY <1>2, <1>3, <1>6, <1>7, <1>8, <1>9, <1>11, <1>12, <1>13 DEF GetInfos

\* A step keeps what the socket holds.
LEMMA ContentsStep ==
    ASSUME ~Overlap, TypeInv, OwnPlaces, OneRound, SocketContents, Next
    PROVE  SocketContents'
<1>. USE DEF TypeInv, OwnPlaces, OneRound, InCall, Caller, SocketContents, Dumping, kernel, locals, life, vars
<1>0. at \in [Caller -> Place] /\ err \in {0, 1}
  BY DEF MonitorTypeOK
<1>1. CASE Kernel
  BY <1>1, KernelMoves
<1>2. CASE MonEnters \/ MonLeaves \/ SelectFails
  BY <1>0, <1>2, GotoStep DEF MonEnters, MonLeaves, SelectFails, Place
<1>3. CASE DelNetInterface \/ IgnoreEvent
  BY <1>3 DEF DelNetInterface, IgnoreEvent
<1>4. CASE NewNetInterface
  BY <1>0, <1>4, GotoStep, Received DEF NewNetInterface, Place
<1>5. CASE UpdBegins
  BY <1>0, <1>5, GotoStep DEF UpdBegins, Place
<1>6. CASE UpdTests
  BY <1>0, <1>6, GotoStep DEF UpdTests, Place
<1>7. CASE UpdInterrupted
  BY <1>0, <1>7, GotoStep DEF UpdInterrupted, Place
<1>8. CASE StopRequested \/ Delete \/ Clean \/ Closed
  BY <1>8 DEF StopRequested, Delete, Clean, Closed
<1>. QED
  BY <1>1, <1>2, <1>3, <1>4, <1>5, <1>6, <1>7, <1>8, MonReads, UpdReads DEF Next, Mon, Upd

\* What the socket holds, in every behaviour without overlapping rounds.
LEMMA ContentsInvariant ==
    ASSUME ~Overlap
    PROVE  Spec => [](TypeInv /\ OwnPlaces /\ OneRound /\ SocketContents)
<1>1. Init => OneRound /\ SocketContents
  BY DEF Init, OneRound, InCall, SocketContents, Dumping, NoDump, Caller
<1>2. TypeInv /\ OwnPlaces /\ OneRound /\ SocketContents /\ [Next]_vars => (OneRound /\ SocketContents)'
  <2>1. ASSUME OneRound, SocketContents, UNCHANGED vars PROVE OneRound' /\ SocketContents'
    BY <2>1 DEF OneRound, InCall, SocketContents, Dumping, locals, vars
  <2>. QED
    BY <2>1, OneRoundStep, ContentsStep
<1>. QED
  BY <1>1, <1>2, PlacesInvariant, PTL DEF Spec

\* When the rounds do not overlap, no thread waits in nl_recvmsgs for an answer
\* that will not come, however many messages earlier requests have left.
THEOREM ReaderHasAnswer ==
    ASSUME ~Overlap
    PROVE  Spec => []AnswerWaits
<1>1. OwnPlaces /\ SocketContents => AnswerWaits
  BY DEF OwnPlaces, SocketContents, Dumping, OneDump, AnswerWaits, Caller
<1>. QED
  BY <1>1, ContentsInvariant, PTL

\* When the rounds do not overlap, a round of the update leaves nothing in the
\* socket: it reads its dump and all that mon has left.
THEOREM UpdateReadsAll ==
    ASSUME ~Overlap
    PROVE  Spec => []UpdateDrains
<1>1. SocketContents => UpdateDrains
  BY DEF SocketContents, UpdateDrains
<1>. QED
  BY <1>1, ContentsInvariant, PTL

-----------------------------------------------------------------------------
(***************************************************************************)
(* The list, when names are not given twice                                *)
(***************************************************************************)

\* The names of the interfaces.
NameOnce ==
    /\ \A i \in Present : iface[i].name \in usedNames
    /\ \A i, j \in Present : iface[i].name = iface[j].name => i = j

\* An answer is about the only interface that has, or will ever have, the name
\* it gives: an ioctl by that name asks the same interface or none.
Owned(d) == d.name \in usedNames /\ \A i \in Named(d.name) : i = d.index

\* So are all answers that are not yet in the list, however old.
InfosOwned ==
    /\ \A k \in 1..Len(nls) : \A d \in nls[k].infos : Owned(d)
    /\ \A c \in Caller : \A d \in todo[c] : Owned(d)

\* The notification that will erase interface i waits.
Erasing(i) == \E k \in 1..Len(inetsock) : inetsock[k].type = "RTM_DELLINK" /\ inetsock[k].index = i

\* Interface i may be in the list.
Kept(i) == i \in Present \/ Erasing(i)

\* The interface add_device is about to be called for may be.
FoundKept == \A c \in Caller : at[c] = "add" => Kept(found[c].info.index)

\* Those in the list may be.
ListKept == \A i \in Index : list[i] # NoDevice => Kept(i)

\* The inductive invariant of the list.
ListInv == NameOnce /\ InfosOwned /\ FoundKept /\ ListKept

\* A new notification takes none away.
LEMMA NotifyKeeps ==
    ASSUME MonitorTypeOK, NEW e \in Event, Notify(e)
    PROVE  /\ \A i : Erasing(i) => Erasing(i)'
           /\ e.type = "RTM_DELLINK" => Erasing(e.index)'
<1>1. /\ inetsock \in Seq(Event) /\ inetsock' = Append(inetsock, e)
  BY DEF MonitorTypeOK, Notify
<1>2. /\ Len(inetsock') = Len(inetsock) + 1 /\ inetsock'[Len(inetsock) + 1] = e
      /\ \A k \in 1..Len(inetsock) : inetsock'[k] = inetsock[k]
      /\ Len(inetsock) \in Nat
  BY <1>1
<1>. QED
  BY <1>2 DEF Erasing

\* A notification that is read takes away no other.
LEMMA ReceiveKeeps ==
    ASSUME MonitorTypeOK, Receives(Head(inetsock)), NEW i, Erasing(i),
           ~(Head(inetsock).type = "RTM_DELLINK" /\ Head(inetsock).index = i)
    PROVE  Erasing(i)'
<1>1. inetsock \in Seq(Event) /\ inetsock # <<>> /\ inetsock' = Tail(inetsock)
  BY Received DEF MonitorTypeOK
<1>2. PICK k \in 1..Len(inetsock) : inetsock[k].type = "RTM_DELLINK" /\ inetsock[k].index = i
  BY DEF Erasing
<1>3. Head(inetsock) = inetsock[1] /\ Len(inetsock) \in Nat /\ Len(inetsock') = Len(inetsock) - 1
      /\ \A l \in 1..(Len(inetsock) - 1) : inetsock'[l] = inetsock[l + 1]
  BY <1>1
<1>4. k # 1
  BY <1>2, <1>3
<1>5. k - 1 \in 1..Len(inetsock') /\ inetsock'[k - 1] = inetsock[k]
  BY <1>3, <1>4
<1>. QED
  BY <1>2, <1>5 DEF Erasing

\* At most one interface gets a name, a new one; and an interface that goes
\* leaves the notification that erases it.
LEMMA KernelNames ==
    ASSUME ~NameReuse, TypeInv, NameOnce, Kernel
    PROVE  /\ usedNames \subseteq usedNames'
           /\ \A i \in Present' :
                  \/ i \in Present /\ iface'[i].name = iface[i].name
                  \/ /\ iface'[i].name \in usedNames' \ usedNames
                     /\ \A j \in Present' \ {i} : j \in Present /\ iface'[j].name = iface[j].name
           /\ \A i \in Index : Kept(i) => Kept(i)'
<1>. USE DEF TypeInv, Present, Kept
<1>. DEFINE Goal ==
              /\ usedNames \subseteq usedNames'
              /\ \A i \in Present' :
                     \/ i \in Present /\ iface'[i].name = iface[i].name
                     \/ /\ iface'[i].name \in usedNames' \ usedNames
                        /\ \A j \in Present' \ {i} : j \in Present /\ iface'[j].name = iface[j].name
              /\ \A i \in Index : Kept(i) => Kept(i)'
<1>0. iface \in [Index -> Interface]
  BY DEF MonitorTypeOK
<1>1. ASSUME NEW i \in Index, NEW n \in Names, CreateInterface(i, n) PROVE Goal
  <2>1. [type |-> "RTM_NEWLINK", index |-> i, name |-> n] \in Event
    BY DEF Event
  <2>2. \A j : Erasing(j) => Erasing(j)'
    BY <1>1, <2>1, NotifyKeeps DEF CreateInterface
  <2>. QED
    BY <1>0, <1>1, <2>2 DEF CreateInterface, Free
<1>2. ASSUME NEW i \in Index, NEW n \in Names, RenameInterface(i, n) PROVE Goal
  <2>1. [type |-> "RTM_NEWLINK", index |-> i, name |-> n] \in Event
    BY DEF Event
  <2>2. \A j : Erasing(j) => Erasing(j)'
    BY <1>2, <2>1, NotifyKeeps DEF RenameInterface
  <2>3. iface[i] \in [state : {"present"}, name : Names, value : Values]
    BY <1>2, PresentIface DEF RenameInterface
  <2>. QED
    BY <1>0, <1>2, <2>2, <2>3 DEF RenameInterface, Free
<1>3. ASSUME NEW i \in Index, SetTxPower(i) PROVE Goal
  <2>1. iface[i] \in [state : {"present"}, name : Names, value : Values]
    BY <1>3, PresentIface DEF SetTxPower
  <2>2. \A j : Erasing(j) => Erasing(j)'
    BY <1>3 DEF SetTxPower, Erasing
  <2>. QED
    BY <1>0, <1>3, <2>1, <2>2 DEF SetTxPower
<1>4. ASSUME NEW i \in Index, RemoveInterface(i) PROVE Goal
  <2>1. [type |-> "RTM_DELLINK", index |-> i, name |-> iface[i].name] \in Event
    BY <1>4, PresentIface DEF RemoveInterface, Event
  <2>2. Erasing(i)' /\ \A j : Erasing(j) => Erasing(j)'
    BY <1>4, <2>1, NotifyKeeps DEF RemoveInterface
  <2>. QED
    BY <1>0, <1>4, <2>2 DEF RemoveInterface
<1>5. ASSUME NEW i \in Index, NEW type \in {"RTM_NEWLINK", "RTM_DELLINK"}, TouchInterface(i, type)
      PROVE  Goal
  <2>1. [type |-> type, index |-> i, name |-> iface[i].name] \in Event
    BY <1>5, PresentIface DEF TouchInterface, Event
  <2>2. \A j : Erasing(j) => Erasing(j)'
    BY <1>5, <2>1, NotifyKeeps DEF TouchInterface
  <2>. QED
    BY <1>5, <2>2 DEF TouchInterface
<1>6. CASE OtherEvent
  <2>1. [type |-> "other"] \in Event
    BY DEF Event
  <2>2. \A j : Erasing(j) => Erasing(j)'
    BY <1>6, <2>1, NotifyKeeps DEF OtherEvent
  <2>. QED
    BY <1>6, <2>2 DEF OtherEvent
<1>. QED
  BY <1>1, <1>2, <1>3, <1>4, <1>5, <1>6, Zenon DEF Kernel

\* What the kernel does to its interfaces keeps the invariant of the list.
LEMMA KernelKeepsList ==
    ASSUME ~NameReuse, TypeInv, ListInv, Kernel
    PROVE  ListInv'
<1>1. UNCHANGED <<nls, list, at, todo, found>>
  BY KernelMoves DEF locals
<1>2. NameOnce
  BY DEF ListInv
<1>3. NameOnce'
  BY <1>2, KernelNames DEF NameOnce
<1>4. ASSUME NEW d, Owned(d) PROVE Owned(d)'
  BY <1>2, <1>4, KernelNames DEF Owned, Named
<1>5. InfosOwned'
  BY <1>1, <1>4 DEF ListInv, InfosOwned
<1>6. FoundKept'
  <2>. SUFFICES ASSUME NEW c \in Caller, at'[c] = "add" PROVE Kept(found[c].info.index)'
    BY <1>1 DEF FoundKept
  <2>1. found[c] \in [info : Info, machwsim : Index]
    BY <1>1 DEF TypeInv, FoundAtAdd
  <2>2. found[c].info.index \in Index
    BY <2>1 DEF Info
  <2>3. Kept(found[c].info.index)
    BY <1>1 DEF ListInv, FoundKept
  <2>4. PICK i : i = found[c].info.index
    OBVIOUS
  <2>5. Kept(i)' /\ found' = found
    BY <1>1, <1>2, <2>2, <2>3, <2>4, KernelNames
  <2>. QED
    BY <2>4, <2>5
<1>7. ListKept'
  BY <1>1, <1>2, KernelNames DEF ListInv, ListKept
<1>. QED
  BY <1>3, <1>5, <1>6, <1>7 DEF ListInv

\* A notification is read while no thread is about to add, and what it says is
\* done to the list.
LEMMA EventKeepsList ==
    ASSUME ~Overlap, Wlan = Names, TypeInv, ListInv,
           DelNetInterface \/ NewNetInterface \/ IgnoreEvent
    PROVE  ListInv'
<1>. USE DEF TypeInv
<1>1. /\ Receives(Head(inetsock)) /\ UNCHANGED <<iface, usedNames, nls, todo, found>>
  BY DEF DelNetInterface, NewNetInterface, IgnoreEvent, locals
<1>2. NameOnce' /\ InfosOwned'
  BY <1>1 DEF ListInv, NameOnce, InfosOwned, Owned, Named, Present
<1>3. \A c \in Caller : at[c] # "add" /\ at'[c] # "add"
  <2>1. at["mon"] = "loop" /\ ~InCall("upd") /\ at \in [Caller -> Place]
    BY <1>1, Received DEF MonitorTypeOK
  <2>2. at' = at \/ at' = [at EXCEPT !["mon"] = "ask"]
    BY DEF DelNetInterface, NewNetInterface, IgnoreEvent, Goto
  <2>. QED
    BY <2>1, <2>2 DEF InCall, Caller
<1>4. FoundKept'
  BY <1>3 DEF FoundKept
<1>5. ASSUME NEW i \in Index, list'[i] # NoDevice PROVE Kept(i)'
  <2>0. list \in [Index -> Device \cup {NoDevice}]
    BY DEF MonitorTypeOK
  <2>1. list[i] # NoDevice /\ ~(Head(inetsock).type = "RTM_DELLINK" /\ Head(inetsock).index = i)
    <3>1. CASE DelNetInterface
      BY <1>5, <2>0, <3>1 DEF DelNetInterface
    <3>2. CASE NewNetInterface
      BY <1>5, <3>2 DEF NewNetInterface
    <3>3. CASE IgnoreEvent
      BY <1>1, <1>5, <3>3, Received DEF IgnoreEvent, IsWireless
    <3>. QED
      BY <3>1, <3>2, <3>3
  <2>2. Kept(i)
    BY <2>1 DEF ListInv, ListKept
  <2>3. Erasing(i) => Erasing(i)'
    BY <1>1, <2>1, ReceiveKeeps
  <2>. QED
    BY <1>1, <2>2, <2>3 DEF Kept, Present
<1>6. ListKept'
  BY <1>5 DEF ListKept
<1>. QED
  BY <1>2, <1>4, <1>6 DEF ListInv

\* get_winterface_infos adds only what the ioctl has found.
LEMMA CallKeepsList ==
    ASSUME TypeInv, ListInv, NEW c \in Caller, GetInfos(c)
    PROVE  ListInv'
<1>. USE DEF TypeInv
<1>0. /\ at \in [Caller -> Place] /\ nls \in Seq(Reply)
      /\ todo \in [Caller -> SUBSET Info] /\ list \in [Index -> Device \cup {NoDevice}]
      /\ found \in [Caller -> [info : Info, machwsim : Index] \cup {NoDevice}]
  BY DEF MonitorTypeOK
<1>1. UNCHANGED <<iface, usedNames, inetsock>>
  BY DEF GetInfos, Ask, AskFails, RecvInfos, RecvAck, RecvError, RecvDone, PmaddrFails, Pmaddr,
         AddDevice, kernel
<1>2. /\ NameOnce' /\ \A d : Owned(d)' <=> Owned(d)
      /\ \A i : Kept(i)' <=> Kept(i)
  BY <1>1 DEF ListInv, NameOnce, Owned, Named, Kept, Erasing, Present
<1>3. ASSUME \A k \in 1..Len(nls') : \A d \in nls'[k].infos : Owned(d),
             \A b \in Caller : \A d \in todo'[b] : Owned(d),
             \A b \in Caller : at'[b] = "add" => Kept(found'[b].info.index),
             \A i \in Index : list'[i] # NoDevice => Kept(i)
      PROVE  ListInv'
  <2>1. InfosOwned'
    BY <1>2, <1>3 DEF InfosOwned
  <2>2. FoundKept'
    <3>. SUFFICES ASSUME NEW b \in Caller, at'[b] = "add" PROVE Kept(found[b].info.index)'
      BY DEF FoundKept
    <3>1. Kept(found'[b].info.index)
      BY <1>3
    <3>2. PICK i : i = found'[b].info.index
      OBVIOUS
    <3>3. Kept(i)'
      BY <1>2, <3>1, <3>2
    <3>. QED
      BY <3>2, <3>3
  <2>3. ListKept'
    BY <1>2, <1>3 DEF ListKept
  <2>. QED
    BY <1>2, <2>1, <2>2, <2>3 DEF ListInv
<1>4. /\ \A k \in 1..Len(nls) : \A d \in nls[k].infos : Owned(d)
      /\ \A b \in Caller : \A d \in todo[b] : Owned(d)
      /\ \A b \in Caller : at[b] = "add" => Kept(found[b].info.index)
      /\ \A i \in Index : list[i] # NoDevice => Kept(i)
  BY DEF ListInv, InfosOwned, FoundKept, ListKept
<1>5. CASE Ask(c)
  <2>1. \A i \in Present : Owned(InfoOf(i))
    BY DEF ListInv, NameOnce, Owned, Named, InfoOf
  <2>2. \A k \in 1..Len(AnswerTo(c)) : \A d \in AnswerTo(c)[k].infos : Owned(d)
    BY <2>1 DEF AnswerTo, Message
  <2>3. AnswerTo(c) \in Seq(Reply)
    BY AnswerType
  <2>4. \A k \in 1..Len(nls') : \A d \in nls'[k].infos : Owned(d)
    <3>1. nls' = nls \o AnswerTo(c)
      BY <1>5 DEF Ask
    <3>2. PICK a \in Seq(Reply) : a = AnswerTo(c)
      BY <2>3
    <3>3. \A k \in 1..Len(a) : \A d \in a[k].infos : Owned(d)
      BY <2>2, <3>2, Zenon
    <3>4. \A k \in 1..Len(nls \o a) : \A d \in (nls \o a)[k].infos : Owned(d)
      BY <1>0, <1>4, <3>3
    <3>. QED
      BY <3>1, <3>2, <3>4, Zenon
  <2>5. \A b \in Caller : at'[b] = "add" => at[b] = "add"
    BY <1>0, <1>5, GotoStep DEF Ask, Place
  <2>. QED
    BY <1>3, <1>4, <1>5, <2>4, <2>5 DEF Ask
<1>6. CASE AskFails(c)
  <2>1. \A b \in Caller : at'[b] = "add" => at[b] = "add"
    BY <1>0, <1>6, GotoStep DEF AskFails, AfterCall, Place
  <2>. QED
    BY <1>3, <1>4, <1>6, <2>1 DEF AskFails
<1>7. CASE RecvInfos(c)
  <2>1. \A b \in Caller : at'[b] = "add" => at[b] = "add"
    BY <1>0, <1>7, GotoStep DEF RecvInfos, Place
  <2>2. \A d \in Head(nls).infos : Owned(d)
    <3>1. 1 \in 1..Len(nls) /\ Head(nls) = nls[1]
      BY <1>0, <1>7 DEF RecvInfos
    <3>. QED
      BY <1>4, <3>1
  <2>3. \A b \in Caller : \A d \in todo'[b] : Owned(d)
    BY <1>0, <1>4, <1>7, <2>2 DEF RecvInfos
  <2>4. \A k \in 1..Len(Tail(nls)) : \A d \in Tail(nls)[k].infos : Owned(d)
    BY <1>0, <1>4, <1>7 DEF RecvInfos
  <2>5. \A k \in 1..Len(nls') : \A d \in nls'[k].infos : Owned(d)
    BY <1>0, <1>7, <2>4 DEF RecvInfos, Message
  <2>. QED
    BY <1>3, <1>4, <1>7, <2>1, <2>3, <2>5 DEF RecvInfos
<1>8. CASE RecvAck(c) \/ RecvError(c) \/ RecvDone(c)
  <2>1. \A b \in Caller : at'[b] = "add" => at[b] = "add"
    BY <1>0, <1>8, GotoStep DEF RecvAck, RecvError, RecvDone, AfterRecvmsgs, Place
  <2>2. \A k \in 1..Len(nls') : \A d \in nls'[k].infos : Owned(d)
    <3>1. nls # <<>> /\ nls' = Tail(nls)
      BY <1>8 DEF RecvAck, RecvError, RecvDone
    <3>. QED
      BY <1>0, <1>4, <3>1
  <2>. QED
    BY <1>3, <1>4, <1>8, <2>1, <2>2 DEF RecvAck, RecvError, RecvDone, locals
<1>9. ASSUME NEW d \in todo[c], PmaddrFails(c, d) PROVE ListInv'
  <2>1. /\ \A b \in Caller : at'[b] = "add" => at[b] = "add"
        /\ \A b \in Caller : todo'[b] \subseteq todo[b]
    BY <1>9, ProceedStep DEF PmaddrFails, AfterRecvmsgs
  <2>. QED
    BY <1>3, <1>4, <1>9, <2>1 DEF PmaddrFails
<1>10. ASSUME NEW d \in todo[c], Pmaddr(c, d) PROVE ListInv'
  <2>1. PICK i \in Named(d.name) : found' = [found EXCEPT ![c] = [info |-> d, machwsim |-> i]]
    BY <1>10 DEF Pmaddr
  <2>2. i = d.index /\ Kept(d.index)
    BY <1>4, <2>1 DEF Owned, Named, Kept
  <2>3. \A b \in Caller : at'[b] = "add" => Kept(found'[b].info.index)
    <3>1. ASSUME NEW b \in Caller \ {c}, at'[b] = "add" PROVE Kept(found'[b].info.index)
      BY <1>0, <1>4, <1>10, <2>1, <3>1, GotoStep DEF Pmaddr, Place
    <3>2. Kept(found'[c].info.index)
      BY <1>0, <2>1, <2>2
    <3>. QED
      BY <3>1, <3>2
  <2>. QED
    BY <1>3, <1>4, <1>10, <2>3 DEF Pmaddr
<1>11. CASE AddDevice(c)
  <2>1. /\ \A b \in Caller : at'[b] = "add" => at[b] = "add" /\ b # c
        /\ \A b \in Caller : todo'[b] \subseteq todo[b]
    BY <1>11, ProceedStep DEF AddDevice, AfterRecvmsgs
  <2>2. \A b \in Caller : at'[b] = "add" => Kept(found'[b].info.index)
    BY <1>0, <1>4, <1>11, <2>1 DEF AddDevice
  <2>3. \A i \in Index : list'[i] # NoDevice => Kept(i)
    BY <1>0, <1>4, <1>11 DEF AddDevice
  <2>. QED
    BY <1>3, <1>4, <1>11, <2>1, <2>2, <2>3 DEF AddDevice
<1>. QED
  BY <1>5, <1>6, <1>7, <1>8, <1>9, <1>10, <1>11 DEF GetInfos

\* When the rounds do not overlap, no name is given twice and every name is one
\* that checkif_wireless_device accepts, nothing is listed that the kernel no longer
\* has, once all notifications and answers are read: no late answer puts an
\* erased interface back.
THEOREM ListedInterfacesExist ==
    ASSUME ~Overlap, ~NameReuse, Wlan = Names
    PROVE  Spec => []ListedExist
<1>1. Init => ListInv
  BY DEF Init, ListInv, NameOnce, InfosOwned, FoundKept, ListKept, Present, Caller
<1>2. TypeInv /\ OwnPlaces /\ ListInv /\ [Next]_vars => ListInv'
  <2>. SUFFICES ASSUME TypeInv, ListInv, [Next]_vars PROVE ListInv'
    OBVIOUS
  <2>1. ASSUME UNCHANGED <<iface, usedNames, inetsock, nls, list, todo, found>>,
               \A c \in Caller : at'[c] = "add" => at[c] = "add"
        PROVE  ListInv'
    BY <2>1 DEF ListInv, NameOnce, InfosOwned, Owned, Named, FoundKept, ListKept, Kept, Erasing,
                Present
  <2>2. at \in [Caller -> Place]
    BY DEF TypeInv, MonitorTypeOK
  <2>3. CASE MonEnters \/ MonLeaves \/ SelectFails
    BY <2>1, <2>2, <2>3, GotoStep DEF MonEnters, MonLeaves, SelectFails, kernel, locals, Caller, Place
  <2>4. CASE UpdBegins \/ UpdTests \/ UpdInterrupted
    BY <2>1, <2>2, <2>4, GotoStep DEF UpdBegins, UpdTests, UpdInterrupted, kernel, locals, Caller, Place
  <2>5. CASE StopRequested \/ Delete \/ Clean \/ UNCHANGED vars
    BY <2>1, <2>5 DEF StopRequested, Delete, Clean, vars, kernel, locals
  <2>. QED
    BY <2>3, <2>4, <2>5, KernelKeepsList, EventKeepsList, CallKeepsList
    DEF Next, Mon, Upd, Closed, Caller
<1>3. ListInv => ListedExist
  BY DEF ListInv, ListKept, Kept, Erasing, ListedExist, Quiet
<1>. QED
  BY <1>1, <1>2, <1>3, PlacesInvariant, PTL DEF Spec
=============================================================================
