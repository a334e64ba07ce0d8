-------------------------- MODULE InterfaceMonitor --------------------------
(***************************************************************************)
(* The list of wireless interfaces of vwifi-client                         *)
(* (WirelessDeviceList) and the two threads that keep it in step with the  *)
(* kernel, both inside one MonitorWirelessDevice:                          *)
(*    mon  main_loop, woken by the notifications of rtnetlink: it erases   *)
(*         an interface that was deleted and asks nl80211 about one that   *)
(*         is new or has changed;                                          *)
(*    upd  winet_update_loop, which asks nl80211 for all interfaces once a *)
(*         second (the call that start() makes before this thread exists   *)
(*         is its first round).                                            *)
(* Both ask through get_winterface_infos: they share one netlink socket,   *)
(* one flag wifi.err and the callbacks, without a lock.                    *)
(*                                                                         *)
(* libnl asks for an acknowledgement of every request: what is left of it  *)
(* in the socket is read by the next nl_recvmsgs.                          *)
(***************************************************************************)
EXTENDS Integers, Sequences

CONSTANTS
    N,           \* bound: how many interfaces the kernel ever makes
    Names,       \* the names interfaces may have
    Wlan,        \* those that checkif_wireless_device accepts: wlan[0-9]*
    MaxValue,    \* bound: how many powers an interface has had, the first included
    NameReuse,   \* may a name be given to a second interface?
    Overlap,     \* may a round of one thread begin during a round of the other?
    LateStart,   \* may the thread of start() still not have run at the end?
    MaxEvents,   \* bound: notifications that wait in the socket of rtnetlink
    MaxReplies,  \* bound: messages that wait in the socket of nl80211
    MaxFailures  \* bound: how often select() and nlmsg_alloc() fail

ASSUME MonitorAssumption ==
    /\ N \in Nat \ {0}
    /\ Wlan \subseteq Names
    /\ MaxValue \in Nat \ {0}
    /\ NameReuse \in BOOLEAN /\ Overlap \in BOOLEAN /\ LateStart \in BOOLEAN
    /\ MaxEvents \in Nat /\ MaxReplies \in Nat /\ MaxFailures \in Nat

\* The kernel numbers interfaces 1, 2, ... and never uses a number again.  The
\* number also stands for the permanent address of the radio behind it.
Index == 1..N

\* What else nl80211 says of an interface, numbered in the order of its changes.
Values == 1..MaxValue

Interface == [state : {"unborn", "gone"}] \cup [state : {"present"}, name : Names, value : Values]

Caller == {"mon", "upd"}

\* Where a thread can be, in its loop or inside get_winterface_infos.
Place == {"unborn", "loop", "idle", "ask", "recv", "perm", "add", "test", "ended", "dead"}

Info == [index : Index, name : Names, value : Values]

Device == [name : Names, value : Values, machwsim : Index]

NoDevice == [machwsim |-> 0]

Event == [type : {"RTM_NEWLINK", "RTM_DELLINK"}, index : Index, name : Names]
            \cup [type : {"other"}]

Reply == [type : {"info", "multi", "ack", "error", "done"}, infos : SUBSET Info]

VARIABLES
    iface,       \* kernel: the interfaces
    usedNames,   \* kernel: the names given so far
    inetsock,    \* kernel: the notifications in _inetsock
    nls,         \* kernel: the messages in wifi.nls
    list,        \* _wdevices_list
    err,         \* wifi.err
    at,          \* where each thread is
    asked,       \* the ifindex mon is about to ask for, 0 when there is none
    todo,        \* what each nl_recvmsgs has still to give to its callback
    found,       \* the one it is at, with what get_pmaddr found
    multipart,   \* is each nl_recvmsgs in the middle of a dump?
    started, outsideloop, \* the flags of MonitorWirelessDevice
    main,        \* where the thread is that stops and deletes it
    failures     \* what is left of the bound

kernel == <<iface, usedNames, inetsock>>
locals == <<asked, todo, found, multipart>>
life   == <<started, outsideloop, main>>
vars   == <<kernel, nls, list, err, at, locals, life, failures>>

Init ==
    /\ iface = [i \in Index |-> [state |-> "unborn"]]
    /\ usedNames = {}
    /\ inetsock = <<>> /\ nls = <<>>
    /\ list = [i \in Index |-> NoDevice]
    /\ err = 0
    /\ at = [c \in Caller |-> IF c = "mon" THEN "unborn" ELSE "idle"]
    /\ asked = 0
    /\ todo = [c \in Caller |-> {}]
    /\ found = [c \in Caller |-> NoDevice]
    /\ multipart = [c \in Caller |-> FALSE]
    /\ started = TRUE /\ outsideloop = TRUE
    /\ main = "run"
    /\ failures = MaxFailures

-----------------------------------------------------------------------------
(***************************************************************************)
(* The kernel                                                              *)
(***************************************************************************)
Present == {i \in Index : iface[i].state = "present"}

Free(n) ==
    /\ \A i \in Present : iface[i].name # n
    /\ NameReuse \/ n \notin usedNames

InfoOf(i) == [index |-> i, name |-> iface[i].name, value |-> iface[i].value]

Notify(e) ==
    /\ Len(inetsock) < MaxEvents
    /\ inetsock' = Append(inetsock, e)

CreateInterface(i, n) ==
    /\ iface[i].state = "unborn"
    /\ \A j \in 1..(i-1) : iface[j].state # "unborn"
    /\ Free(n)
    /\ iface' = [iface EXCEPT ![i] = [state |-> "present", name |-> n, value |-> 1]]
    /\ usedNames' = usedNames \cup {n}
    /\ Notify([type |-> "RTM_NEWLINK", index |-> i, name |-> n])
    /\ UNCHANGED <<nls, list, err, at, locals, life, failures>>

RemoveInterface(i) ==
    /\ i \in Present
    /\ iface' = [iface EXCEPT ![i] = [state |-> "gone"]]
    /\ Notify([type |-> "RTM_DELLINK", index |-> i, name |-> iface[i].name])
    /\ UNCHANGED <<usedNames, nls, list, err, at, locals, life, failures>>

RenameInterface(i, n) ==
    /\ i \in Present
    /\ Free(n)
    /\ iface' = [iface EXCEPT ![i].name = n]
    /\ usedNames' = usedNames \cup {n}
    /\ Notify([type |-> "RTM_NEWLINK", index |-> i, name |-> n])
    /\ UNCHANGED <<nls, list, err, at, locals, life, failures>>

\* The power of transmission changes without a notification.
SetTxPower(i) ==
    /\ i \in Present
    /\ iface[i].value < MaxValue
    /\ iface' = [iface EXCEPT ![i].value = @ + 1]
    /\ UNCHANGED <<usedNames, inetsock, nls, list, err, at, locals, life, failures>>

\* An interface goes up or down; or it leaves a bridge, which rtnetlink also
\* reports with RTM_DELLINK (in the family AF_BRIDGE).
TouchInterface(i, type) ==
    /\ i \in Present
    /\ Notify([type |-> type, index |-> i, name |-> iface[i].name])
    /\ UNCHANGED <<iface, usedNames, nls, list, err, at, locals, life, failures>>

\* An event of an interface that is not wireless, or of an address.
OtherEvent ==
    /\ Notify([type |-> "other"])
    /\ UNCHANGED <<iface, usedNames, nls, list, err, at, locals, life, failures>>

\* What happens behind closed sockets is of no interest.
Kernel ==
    /\ main # "closed"
    /\ \/ \E i \in Index, n \in Names : CreateInterface(i, n) \/ RenameInterface(i, n)
       \/ \E i \in Index : SetTxPower(i) \/ RemoveInterface(i)
       \/ \E i \in Index, type \in {"RTM_NEWLINK", "RTM_DELLINK"} : TouchInterface(i, type)
       \/ OtherEvent

-----------------------------------------------------------------------------
(***************************************************************************)
(* main_loop and recv_inet_event                                           *)
(***************************************************************************)
Goto(c, label) == at' = [at EXCEPT ![c] = label]

InCall(c) == at[c] \in {"ask", "recv", "perm", "add", "test"}

MonEnters ==
    /\ at["mon"] = "unborn"
    /\ outsideloop' = FALSE
    /\ Goto("mon", "loop")
    /\ UNCHANGED <<kernel, nls, list, err, locals, started, main, failures>>

\* Mutant of MonLeaves: the loop never looks at _started.
MonNeverLeaves == at["mon"] = "loop" /\ ~started /\ UNCHANGED vars

MonLeaves ==
    /\ at["mon"] = "loop"
    /\ ~started
    /\ outsideloop' = TRUE
    /\ Goto("mon", "ended")
    /\ UNCHANGED <<kernel, nls, list, err, locals, started, main, failures>>

\* select() fails: stop().
SelectFails ==
    /\ at["mon"] = "loop"
    /\ started
    /\ failures > 0
    /\ failures' = failures - 1
    /\ started' = FALSE
    /\ UNCHANGED <<kernel, nls, list, err, at, locals, outsideloop, main>>

\* recvmsg() returns the next notification.
Receives(e) ==
    /\ at["mon"] = "loop"
    /\ started
    /\ Overlap \/ ~InCall("upd")
    /\ inetsock # <<>>
    /\ e = Head(inetsock)
    /\ inetsock' = Tail(inetsock)

IsWireless(e) == e.type # "other" /\ e.name \in Wlan

\* Mutant of DelNetInterface: the notification is not passed on.
DelNetInterfaceNever ==
    /\ Receives(Head(inetsock))
    /\ IsWireless(Head(inetsock)) /\ Head(inetsock).type = "RTM_DELLINK"
    /\ UNCHANGED <<iface, usedNames, nls, list, err, at, locals, life, failures>>

\* del_net_interface and delete_device.
DelNetInterface ==
    /\ Receives(Head(inetsock))
    /\ IsWireless(Head(inetsock)) /\ Head(inetsock).type = "RTM_DELLINK"
    /\ list' = [list EXCEPT ![Head(inetsock).index] = NoDevice]
    /\ UNCHANGED <<iface, usedNames, nls, err, at, locals, life, failures>>

\* new_net_interface: get_winterface_infos(ifindex) begins.
NewNetInterface ==
    /\ Receives(Head(inetsock))
    /\ IsWireless(Head(inetsock)) /\ Head(inetsock).type = "RTM_NEWLINK"
    /\ Len(nls) + 2 <= MaxReplies
    /\ asked' = Head(inetsock).index
    /\ err' = 1
    /\ Goto("mon", "ask")
    /\ UNCHANGED <<iface, usedNames, nls, list, todo, found, multipart, life, failures>>

\* Any other notification is dropped.
IgnoreEvent ==
    /\ Receives(Head(inetsock))
    /\ ~IsWireless(Head(inetsock))
    /\ UNCHANGED <<iface, usedNames, nls, list, err, at, locals, life, failures>>

-----------------------------------------------------------------------------
(***************************************************************************)
(* get_winterface_infos                                                    *)
(***************************************************************************)

\* winet_update_loop calls get_winterface_infos(0).
UpdBegins ==
    /\ at["upd"] = "idle"
    /\ main = "run"
    /\ Overlap \/ ~InCall("mon")
    /\ err' = 1
    /\ Goto("upd", "ask")
    /\ UNCHANGED <<kernel, nls, list, locals, life, failures>>

Message(type, infos) == [type |-> type, infos |-> infos]

\* The answer to a request about one interface and its acknowledgement; a
\* dump comes in two messages, of which the second is made when the first
\* is read.
AnswerTo(c) ==
    IF c = "mon"
    THEN IF asked \in Present
         THEN <<Message("info", {InfoOf(asked)}), Message("ack", {})>>
         ELSE <<Message("error", {})>>
    ELSE IF Present = {} THEN <<Message("done", {})>>
                         ELSE <<Message("multi", {InfoOf(i) : i \in Present})>>

\* nl_send_auto: the kernel answers at once.
Ask(c) ==
    /\ at[c] = "ask"
    /\ nls' = nls \o AnswerTo(c)
    /\ asked' = IF c = "mon" THEN 0 ELSE asked
    /\ Goto(c, "recv")
    /\ UNCHANGED <<kernel, list, err, todo, found, multipart, life, failures>>

\* Mutant of AfterRecvmsgs: a single interface is also waited for in a loop.
AfterRecvmsgsAgain(c) == IF c = "mon" THEN "recv" ELSE "test"

\* Where a thread is after nl_recvmsgs, and after get_winterface_infos.
AfterRecvmsgs(c) == IF c = "mon" THEN "loop" ELSE "test"

AfterCall(c) == IF c = "mon" THEN "loop" ELSE "idle"

\* nlmsg_alloc fails.
AskFails(c) ==
    /\ at[c] = "ask"
    /\ failures > 0
    /\ failures' = failures - 1
    /\ asked' = IF c = "mon" THEN 0 ELSE asked
    /\ Goto(c, AfterCall(c))
    /\ UNCHANGED <<kernel, nls, list, err, todo, found, multipart, life>>

\* Mutant of RecvInfos: an answer counts as the end of a dump.
RecvInfosFinishes(c) ==
    /\ at[c] = "recv"
    /\ nls # <<>>
    /\ Head(nls).type \in {"info", "multi"}
    /\ todo' = [todo EXCEPT ![c] = Head(nls).infos]
    /\ multipart' = [multipart EXCEPT ![c] = @ \/ Head(nls).type = "multi"]
    /\ nls' = IF Head(nls).type = "multi" THEN Append(Tail(nls), Message("done", {}))
                                          ELSE Tail(nls)
    /\ err' = 0
    /\ Goto(c, "perm")
    /\ UNCHANGED <<kernel, list, asked, found, life, failures>>

\* nl_recvmsgs: a message that calls recv_winterface_infos ...
RecvInfos(c) ==
    /\ at[c] = "recv"
    /\ nls # <<>>
    /\ Head(nls).type \in {"info", "multi"}
    /\ todo' = [todo EXCEPT ![c] = Head(nls).infos]
    /\ multipart' = [multipart EXCEPT ![c] = @ \/ Head(nls).type = "multi"]
    /\ nls' = IF Head(nls).type = "multi" THEN Append(Tail(nls), Message("done", {}))
                                          ELSE Tail(nls)
    /\ Goto(c, "perm")
    /\ UNCHANGED <<kernel, list, err, asked, found, life, failures>>

\* ... the acknowledgement of an earlier request ...
RecvAck(c) ==
    /\ at[c] = "recv"
    /\ nls # <<>>
    /\ Head(nls).type = "ack"
    /\ nls' = Tail(nls)
    /\ Goto(c, IF multipart[c] THEN "recv" ELSE AfterRecvmsgs(c))
    /\ UNCHANGED <<kernel, list, err, locals, life, failures>>

\* ... an error, which ends nl_recvmsgs ...
RecvError(c) ==
    /\ at[c] = "recv"
    /\ nls # <<>>
    /\ Head(nls).type = "error"
    /\ nls' = Tail(nls)
    /\ multipart' = [multipart EXCEPT ![c] = FALSE]
    /\ Goto(c, AfterRecvmsgs(c))
    /\ UNCHANGED <<kernel, list, err, asked, todo, found, life, failures>>

\* ... or the end of a dump: handle_iee80211_com_finish.
RecvDone(c) ==
    /\ at[c] = "recv"
    /\ nls # <<>>
    /\ Head(nls).type = "done"
    /\ nls' = Tail(nls)
    /\ err' = 0
    /\ multipart' = [multipart EXCEPT ![c] = FALSE]
    /\ Goto(c, AfterRecvmsgs(c))
    /\ UNCHANGED <<kernel, list, asked, todo, found, life, failures>>

\* The callback returns: the next interface of the message, or the next message
\* of a dump, or the end of nl_recvmsgs.
Proceed(c, d) ==
    /\ todo' = [todo EXCEPT ![c] = @ \ {d}]
    /\ Goto(c, CASE todo[c] # {d} -> "perm"
                 [] todo[c] = {d} /\ multipart[c] -> "recv"
                 [] OTHER -> AfterRecvmsgs(c))

\* The interfaces that have name n now.
Named(n) == {i \in Present : iface[i].name = n}

\* Mutant of PmaddrFails: the result of get_pmaddr is not looked at.
PmaddrIgnored(c, d) ==
    /\ at[c] = "perm"
    /\ d \in todo[c]
    /\ Named(d.name) = {}
    /\ found' = [found EXCEPT ![c] = [info |-> d, machwsim |-> 0]]
    /\ Goto(c, "add")
    /\ UNCHANGED <<kernel, nls, list, err, asked, todo, multipart, life, failures>>

\* recv_winterface_infos, and get_pmaddr in the handler it calls: there is no
\* interface of that name any more ...
PmaddrFails(c, d) ==
    /\ at[c] = "perm"
    /\ d \in todo[c]
    /\ Named(d.name) = {}
    /\ Proceed(c, d)
    /\ UNCHANGED <<kernel, nls, list, err, asked, found, multipart, life, failures>>

\* ... or the ioctl returns the permanent address of its radio.
Pmaddr(c, d) ==
    /\ at[c] = "perm"
    /\ d \in todo[c]
    /\ \E i \in Named(d.name) : found' = [found EXCEPT ![c] = [info |-> d, machwsim |-> i]]
    /\ Goto(c, "add")
    /\ UNCHANGED <<kernel, nls, list, err, asked, todo, multipart, life, failures>>

DeviceOf(f) == [name |-> f.info.name, value |-> f.info.value, machwsim |-> f.machwsim]

\* Mutant of AddDevice: an entry that exists is not replaced (map::insert).
AddDeviceOnce(c) ==
    /\ at[c] = "add"
    /\ list' = [list EXCEPT ![found[c].info.index] = IF @ # NoDevice THEN @ ELSE DeviceOf(found[c])]
    /\ Proceed(c, found[c].info)
    /\ found' = [found EXCEPT ![c] = NoDevice]
    /\ UNCHANGED <<kernel, nls, err, asked, multipart, life, failures>>

\* setMachwsim and add_device.
AddDevice(c) ==
    /\ at[c] = "add"
    /\ list' = [list EXCEPT ![found[c].info.index] = DeviceOf(found[c])]
    /\ Proceed(c, found[c].info)
    /\ found' = [found EXCEPT ![c] = NoDevice]
    /\ UNCHANGED <<kernel, nls, err, asked, multipart, life, failures>>

\* while (wifi.err > 0).
UpdTests ==
    /\ at["upd"] = "test"
    /\ Goto("upd", IF err > 0 THEN "recv" ELSE "idle")
    /\ UNCHANGED <<kernel, nls, list, err, locals, life, failures>>

-----------------------------------------------------------------------------
(***************************************************************************)
(* The end: the threads are interrupted and joined, the object deleted     *)
(***************************************************************************)
StopRequested ==
    /\ main = "run"
    /\ main' = "interrupted"
    /\ UNCHANGED <<kernel, nls, list, err, at, locals, started, outsideloop, failures>>

UpdInterrupted ==
    /\ at["upd"] = "idle"
    /\ main = "interrupted"
    /\ Goto("upd", "dead")
    /\ UNCHANGED <<kernel, nls, list, err, locals, life, failures>>

\* The destructor: stop() ...
Delete ==
    /\ main = "interrupted"
    /\ at["upd"] = "dead"
    /\ LateStart \/ at["mon"] # "unborn"
    /\ started' = FALSE
    /\ main' = "delete"
    /\ UNCHANGED <<kernel, nls, list, err, at, locals, outsideloop, failures>>

\* Mutant of Clean: the destructor does not wait.
CleanAtOnce ==
    /\ main = "delete"
    /\ main' = "closed"
    /\ UNCHANGED <<kernel, nls, list, err, at, locals, started, outsideloop, failures>>

\* ... while(!outside_loop()); clean().
Clean ==
    /\ main = "delete"
    /\ outsideloop
    /\ main' = "closed"
    /\ UNCHANGED <<kernel, nls, list, err, at, locals, started, outsideloop, failures>>

-----------------------------------------------------------------------------
GetInfos(c) ==
    \/ Ask(c) \/ AskFails(c)
    \/ RecvInfos(c) \/ RecvAck(c) \/ RecvError(c) \/ RecvDone(c)
    \/ \E d \in todo[c] : PmaddrFails(c, d) \/ Pmaddr(c, d)
    \/ AddDevice(c)

Mon ==
    \/ MonEnters \/ MonLeaves \/ SelectFails
    \/ DelNetInterface \/ NewNetInterface \/ IgnoreEvent
    \/ GetInfos("mon")

Upd == UpdBegins \/ UpdTests \/ UpdInterrupted \/ GetInfos("upd")

Closed == main = "closed" /\ UNCHANGED vars

Next == Kernel \/ Mon \/ Upd \/ StopRequested \/ Delete \/ Clean \/ Closed

Spec == Init /\ [][Next]_vars

\* The threads are scheduled by the operating system.
FairSpec == Spec /\ WF_vars(Mon) /\ WF_vars(Upd) /\ WF_vars(Delete \/ Clean)

-----------------------------------------------------------------------------
(***************************************************************************)
(* Properties                                                              *)
(***************************************************************************)

\* The type of every variable.
MonitorTypeOK ==
    /\ iface \in [Index -> Interface]
    /\ usedNames \subseteq Names
    /\ inetsock \in Seq(Event)
    /\ nls \in Seq(Reply)
    /\ list \in [Index -> Device \cup {NoDevice}]
    /\ err \in {0, 1}
    /\ at \in [Caller -> Place]
    /\ asked \in Index \cup {0}
    /\ todo \in [Caller -> SUBSET Info]
    /\ found \in [Caller -> [info : Info, machwsim : Index] \cup {NoDevice}]
    /\ multipart \in [Caller -> BOOLEAN]
    /\ started \in BOOLEAN /\ outsideloop \in BOOLEAN
    /\ main \in {"run", "interrupted", "delete", "closed"}
    /\ failures \in Nat

\* Nobody waits in nl_recvmsgs for an answer that will not come: as long as
\* the rounds of the threads do not overlap, a thread that reads has a message to
\* read, whatever earlier requests have left in the socket.
AnswerWaits == \A c \in Caller : at[c] = "recv" => nls # <<>>

\* A round of the update reads its whole dump, and with it everything the
\* requests of the other thread have left in the socket.
UpdateDrains == at["upd"] = "test" /\ err = 0 => nls = <<>>

\* clean() closes the sockets under no thread: main_loop has ended.
CleanedUnused == main = "closed" => at["mon"] = "ended"

\* Nothing is under way that could change the list.
Quiet ==
    /\ inetsock = <<>> /\ nls = <<>>
    /\ \A c \in Caller : ~InCall(c)

\* When nothing is under way, every interface in the list exists: no late answer has
\* put an interface back that a notification had erased.
ListedExist == Quiet => \A i \in Index : list[i] # NoDevice => i \in Present

\* The list says what the kernel says of interface i.
Truthful(i) ==
    /\ i \in Present
    /\ list[i] = [name |-> iface[i].name, value |-> iface[i].value, machwsim |-> i]

\* What the list says of an interface becomes true, also when a bridge or a failure
\* made the client miss it: unless it is removed, it comes to be listed with its
\* name, its power and the address of its own radio.
EventuallyListed ==
    \A i \in Index : i \in Present ~> (Truthful(i) \/ i \notin Present \/ main # "run")

\* A client that is stopped closes its sockets: neither thread keeps it waiting.
MonitorEnds == main = "interrupted" ~> main = "closed"

=============================================================================
