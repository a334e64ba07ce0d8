---------------------------- MODULE VwifiClient ----------------------------
(***************************************************************************)
(* vwifi-client: CKernelWifi (ckernelwifi.cc) with its socket (CWifiClient,*)
(* CSocketClient), its scheduler and its interruptible threads (cthread).  *)
(*                                                                         *)
(* The main thread runs start(): it waits for the mac80211_hwsim driver,   *)
(* connects to vwifi-server, starts five threads and joins them.  SIGINT   *)
(* runs stop() on the main thread, on top of whatever start() is doing.    *)
(*    hwsim    passes the frames of the driver on to the server            *)
(*    server   passes the frames of the server on to the driver            *)
(*    conn     reconnects when another thread found the connection lost    *)
(*    monitor  initialises again when the driver was unloaded              *)
(*    winet    asks for the state of the interfaces, once a second         *)
(* The threads share the flags below without a common lock.                *)
(***************************************************************************)
EXTENDS Integers, FiniteSets, FiniteSetsExt

CONSTANTS
    MaxFd,           \* bound: the descriptors that come and go are 1..MaxFd
    DriverAtStart,   \* may the driver be absent, or present, at the start?
    PermAddrSockets, \* does winet find interfaces, so that get_pmaddr is called?
    NetlinkMayFail,  \* may the calls of libnl fail?
    MaxUnread,       \* bound: frames of the server that wait in the socket
    MaxCrashes,      \* bound: how often the server goes down
    MaxReloads,      \* bound: how often the driver is unloaded
    MaxSigint        \* bound: how often SIGINT is sent

ASSUME ClientAssumption ==
    /\ MaxFd \in Nat \ {0}
    /\ DriverAtStart \subseteq BOOLEAN
    /\ PermAddrSockets \in BOOLEAN /\ NetlinkMayFail \in BOOLEAN
    /\ MaxUnread \in Nat /\ MaxCrashes \in Nat /\ MaxReloads \in Nat /\ MaxSigint \in Nat

Fd == 1..MaxFd

Thread == {"hwsim", "server", "conn", "monitor", "winet"}

\* Where a thread can be: "none" before it was started, "top" at the beginning
\* of a round of its loop, "dead" and "returned" when it has left.
Place == {"none", "top", "wait", "blocked", "action", "recv", "stuck", "deliver", "send", "failed",
          "close", "connect", "reconnected", "init", "register", "ioctl", "dead", "returned"}

\* A process that has left: normally, or killed by a signal.
Ended == {"Exited", "Killed"}

VARIABLES
    main,               \* where start() is
    handler,            \* where stop() is, "off" when no signal is being handled
    at,                 \* where each thread is
    interrupted,        \* the InterruptFlag of each thread
    number_thread,      \* InterruptibleThread::number_thread
    being_initialized, being_started, initialized, connected, \* the flags of CKernelWifi
    family,             \* is m_family_id the number of a family?
    Master,             \* the descriptor of the CSocket, -1 when closed
    nodes,              \* the descriptors in the scheduler's fd_set
    first,              \* its first node, ListNodes[0]; -1 when there is none
    Dup,                \* what the last pselect reported
    fresh,              \* Buffer holds: "nothing", a "new" or an "old" frame
    holder,             \* kernel: who holds each descriptor
    link,               \* kernel: the connection behind Master, [alive, unread]
    up,                 \* is the server running?
    driver,             \* kernel: is the driver loaded, is the client registered?
    budget              \* what is left of the bounds

socket    == <<Master, holder, link>>
scheduler == <<nodes, first, Dup>>
flags     == <<being_initialized, being_started, initialized, connected>>
threads   == <<at, interrupted, number_thread>>
kernel    == <<up, driver, budget>>
vars      == <<main, handler, threads, flags, family, socket, scheduler, fresh, kernel>>

NoLink == [alive |-> FALSE, unread |-> 0]

Init ==
    /\ main = "init" /\ handler = "off"
    /\ at = [t \in Thread |-> "none"]
    /\ interrupted = [t \in Thread |-> FALSE]
    /\ number_thread = Cardinality(Thread)
    /\ being_initialized = TRUE /\ being_started = FALSE
    /\ initialized = FALSE /\ connected = FALSE
    /\ family = FALSE
    /\ Master = -1 /\ holder = [f \in Fd |-> "free"] /\ link = NoLink
    /\ nodes = {} /\ first = -1 /\ Dup = {}
    /\ fresh = "nothing"
    /\ up \in BOOLEAN
    /\ driver \in [loaded : DriverAtStart, registered : {FALSE}]
    /\ budget = [crashes |-> MaxCrashes, reloads |-> MaxReloads, sigints |-> MaxSigint]

-----------------------------------------------------------------------------
(***************************************************************************)
(* The socket                                                              *)
(***************************************************************************)
FreeFd == {f \in Fd : holder[f] = "free"}

\* A read on the connection would return at once.
SocketReady == Master # -1 /\ (link.unread > 0 \/ ~link.alive)

\* Mutant of Close: the descriptor is forgotten, not closed.
CloseForgets ==
    /\ Master' = -1
    /\ link' = NoLink
    /\ UNCHANGED holder

\* CSocket::Close.
Close ==
    /\ holder' = [f \in Fd |-> IF f = Master THEN "free" ELSE holder[f]]
    /\ Master' = -1
    /\ link' = NoLink

\* Mutant of ConnectSucceeds: the scheduler is not given the new socket.
ConnectWithoutNode ==
    /\ up /\ FreeFd # {}
    /\ Master' = Min(FreeFd)
    /\ holder' = [holder EXCEPT ![Min(FreeFd)] = "server"]
    /\ link' = [alive |-> TRUE, unread |-> 0]
    /\ UNCHANGED scheduler

\* _Connect of CWifiClient: a new socket takes the lowest descriptor, and the
\* scheduler gets it in addition to the nodes it has.
ConnectSucceeds ==
    /\ up /\ FreeFd # {}
    /\ Master' = Min(FreeFd)
    /\ holder' = [holder EXCEPT ![Min(FreeFd)] = "server"]
    /\ link' = [alive |-> TRUE, unread |-> 0]
    /\ nodes' = nodes \cup {Min(FreeFd)}
    /\ first' = IF first = -1 THEN Min(FreeFd) ELSE first
    /\ UNCHANGED Dup

\* socket() or connect() fails; after a failed connect() the socket is closed.
ConnectFails == ~up \/ FreeFd = {}

-----------------------------------------------------------------------------
(***************************************************************************)
(* start()                                                                 *)
(***************************************************************************)
MainAt(label) == main = label /\ handler = "off"

\* init_netlink_first: the loop that waits for the driver ...
DriverFound ==
    /\ MainAt("init")
    /\ driver.loaded
    /\ family' = TRUE
    /\ main' = "register"
    /\ UNCHANGED <<handler, threads, flags, socket, scheduler, fresh, kernel>>

\* ... is left without it when stop() has cleared _being_initialized.
WaitAbandoned ==
    /\ MainAt("init")
    /\ ~driver.loaded /\ ~being_initialized
    /\ main' = "Exited"
    /\ UNCHANGED <<handler, threads, flags, family, socket, scheduler, fresh, kernel>>

\* send_register_msg of init_first, and the two flags behind it.
RegisterFirst ==
    /\ MainAt("register")
    /\ driver' = [driver EXCEPT !.registered = driver.loaded]
    /\ initialized' = TRUE
    /\ being_initialized' = FALSE
    /\ main' = "interfaces"
    /\ UNCHANGED <<handler, threads, being_started, connected, family, socket, scheduler,
                   fresh, up, budget>>

\* The MonitorWirelessDevice is made and asked for the interfaces.
MonitorCreated ==
    /\ MainAt("interfaces")
    /\ being_started' = TRUE
    /\ main' = "connect"
    /\ UNCHANGED <<handler, threads, being_initialized, initialized, connected, family, socket,
                   scheduler, fresh, kernel>>

\* A call of libnl fails before start() has connected: start() returns 0.
StartFails ==
    /\ NetlinkMayFail
    /\ MainAt("register") \/ MainAt("interfaces")
    /\ main' = "Exited"
    /\ UNCHANGED <<handler, threads, flags, family, socket, scheduler, fresh, kernel>>

FirstConnect ==
    /\ MainAt("connect")
    /\ ConnectSucceeds
    /\ main' = "spawn"
    /\ UNCHANGED <<handler, threads, flags, family, fresh, kernel>>

FirstConnectFails ==
    /\ MainAt("connect")
    /\ ConnectFails
    /\ main' = "retry"
    /\ UNCHANGED <<handler, threads, flags, family, socket, scheduler, fresh, kernel>>

\* Mutant of RetryConnect: _being_started is not looked at.
RetryConnectAlways ==
    /\ MainAt("retry")
    /\ main' = "connect"
    /\ UNCHANGED <<handler, threads, flags, family, socket, scheduler, fresh, kernel>>

\* The loop around the first _Connect looks at _being_started only after a
\* failure.
RetryConnect ==
    /\ MainAt("retry")
    /\ main' = IF being_started THEN "connect" ELSE "Exited"
    /\ UNCHANGED <<handler, threads, flags, family, socket, scheduler, fresh, kernel>>

SpawnThreads ==
    /\ MainAt("spawn")
    /\ connected' = TRUE
    /\ at' = [t \in Thread |-> "top"]
    /\ main' = "spawned"
    /\ UNCHANGED <<handler, interrupted, number_thread, being_initialized, being_started,
                   initialized, family, socket, scheduler, fresh, kernel>>

StartDone ==
    /\ MainAt("spawned")
    /\ being_started' = FALSE
    /\ main' = "join"
    /\ UNCHANGED <<handler, threads, being_initialized, initialized, connected, family, socket,
                   scheduler, fresh, kernel>>

\* The threads that have returned, with or without a call of dead().
Returned == {t \in Thread : at[t] \in {"dead", "returned"}}

JoinThreads ==
    /\ MainAt("join")
    /\ Returned = Thread
    /\ main' = "Exited"
    /\ UNCHANGED <<handler, threads, flags, family, socket, scheduler, fresh, kernel>>

Start ==
    \/ DriverFound \/ WaitAbandoned \/ RegisterFirst \/ MonitorCreated \/ StartFails
    \/ FirstConnect \/ FirstConnectFails \/ RetryConnect
    \/ SpawnThreads \/ StartDone \/ JoinThreads

-----------------------------------------------------------------------------
(***************************************************************************)
(* stop(), run by the signal handler on the main thread                    *)
(***************************************************************************)
StopAt(label) == handler = label /\ main \notin Ended

Sigint ==
    /\ StopAt("off")
    /\ budget.sigints > 0
    /\ budget' = [budget EXCEPT !.sigints = @ - 1]
    /\ handler' = "enter"
    /\ UNCHANGED <<main, threads, flags, family, socket, scheduler, fresh, up, driver>>

\* The two early returns: start() is still waiting for the driver, or
\* connecting for the first time.
StopEarly ==
    /\ StopAt("enter")
    /\ \/ /\ being_initialized
          /\ being_initialized' = FALSE
          /\ UNCHANGED being_started
       \/ /\ ~being_initialized /\ being_started
          /\ being_started' = FALSE
          /\ UNCHANGED being_initialized
    /\ handler' = "off"
    /\ UNCHANGED <<main, threads, initialized, connected, family, socket, scheduler, fresh, kernel>>

\* is_connected_to_server() is asked before the socket is closed.
StopChecks ==
    /\ StopAt("enter")
    /\ ~being_initialized /\ ~being_started
    /\ handler' = IF connected THEN "close" ELSE "interruptConn"
    /\ UNCHANGED <<main, threads, flags, family, socket, scheduler, fresh, kernel>>

\* A recv() that waits on the connection is not woken by close().
StopCloses ==
    /\ StopAt("close")
    /\ Close
    /\ LET reading == at["server"] = "recv" /\ link.alive /\ link.unread = 0
       IN  at' \in {at} \cup IF reading THEN {[at EXCEPT !["server"] = "stuck"]} ELSE {}
    /\ handler' = "interruptConn"
    /\ UNCHANGED <<main, interrupted, number_thread, flags, family, scheduler, fresh, kernel>>

\* interrupt(): a thread that was not started has no flag.
Interrupt(T) ==
    interrupted' = [t \in Thread |-> interrupted[t] \/ (t \in T /\ at[t] # "none")]

StopInterruptsConn ==
    /\ StopAt("interruptConn")
    /\ Interrupt({"conn"})
    /\ handler' = "kill"
    /\ UNCHANGED <<main, at, number_thread, flags, family, socket, scheduler, fresh, kernel>>

\* pthread_kill(serverloop_id, SIGUSR1): a pselect that is blocked returns;
\* anywhere else the signal does nothing and is gone.  Before the threads
\* were started serverloop_id has no value.
StopSignalsServer ==
    /\ StopAt("kill")
    /\ at' = [at EXCEPT !["server"] = IF @ = "blocked" THEN "top" ELSE @]
    /\ handler' = "interruptServer"
    /\ main' \in IF at["server"] = "none" THEN {main, "Killed"} ELSE {main}
    /\ UNCHANGED <<interrupted, number_thread, flags, family, socket, scheduler, fresh, kernel>>

StopInterruptsServer ==
    /\ StopAt("interruptServer")
    /\ Interrupt({"server"})
    /\ handler' = "interruptOthers"
    /\ UNCHANGED <<main, at, number_thread, flags, family, socket, scheduler, fresh, kernel>>

StopInterruptsOthers ==
    /\ StopAt("interruptOthers")
    /\ Interrupt({"hwsim", "monitor", "winet"})
    /\ handler' = "wait"
    /\ UNCHANGED <<main, at, number_thread, flags, family, socket, scheduler, fresh, kernel>>

\* Mutant of StopReturns: a wait without its predicate, which the first
\* notify_all ends.
StopReturnsAtNotify ==
    /\ StopAt("wait")
    /\ number_thread < Cardinality(Thread)
    /\ handler' = "off"
    /\ UNCHANGED <<main, threads, flags, family, socket, scheduler, fresh, kernel>>

\* _condition.wait: all_thread_interrupted().
StopReturns ==
    /\ StopAt("wait")
    /\ number_thread = 0
    /\ handler' = "off"
    /\ UNCHANGED <<main, threads, flags, family, socket, scheduler, fresh, kernel>>

Stop ==
    \/ StopEarly \/ StopChecks \/ StopCloses \/ StopInterruptsConn \/ StopSignalsServer
    \/ StopInterruptsServer \/ StopInterruptsOthers \/ StopReturns

-----------------------------------------------------------------------------
(***************************************************************************)
(* What the loops of all threads begin with                                *)
(***************************************************************************)
At(t, label) == at[t] = label /\ main \notin Ended

\* Mutant of ThreadInterrupted: the thread is uncounted by dead() and once
\* more when it returns.
ThreadUncountedTwice(t) ==
    /\ At(t, "top")
    /\ interrupted[t]
    /\ number_thread' = number_thread - 2
    /\ at' = [at EXCEPT ![t] = "dead"]
    /\ UNCHANGED <<main, handler, interrupted, flags, family, socket, scheduler, fresh, kernel>>

\* interruption_point() throws: dead(), and the thread returns.
ThreadInterrupted(t) ==
    /\ At(t, "top")
    /\ interrupted[t]
    /\ number_thread' = number_thread - 1
    /\ at' = [at EXCEPT ![t] = "dead"]
    /\ UNCHANGED <<main, handler, interrupted, flags, family, socket, scheduler, fresh, kernel>>

\* A round of thread t that the interrupt flag does not stop.
Round(t) == At(t, "top") /\ ~interrupted[t]

Goto(t, label) == at' = [at EXCEPT ![t] = label]

-----------------------------------------------------------------------------
(***************************************************************************)
(* recv_msg_from_server_loop_start and recv_from_server                    *)
(***************************************************************************)
ServerRound ==
    /\ Round("server")
    /\ initialized /\ connected
    /\ Goto("server", "wait")
    /\ UNCHANGED <<main, handler, interrupted, number_thread, flags, family, socket, scheduler,
                   fresh, kernel>>

\* What pselect may report of its nodes: the connection when it has input,
\* and a netlink socket that has taken the number of an old node.
Reports ==
    LET surely == IF SocketReady THEN nodes \cap {Master} ELSE {}
        maybe  == {f \in nodes : holder[f] = "netlink" /\ driver.registered}
    IN  {surely \cup S : S \in SUBSET maybe}

\* pselect: it fails on a node that is closed, returns at once, or blocks.
ServerWaits ==
    /\ At("server", "wait")
    /\ \/ /\ \E f \in nodes : holder[f] = "free"
          /\ Goto("server", "top")
          /\ UNCHANGED Dup
       \/ /\ \A f \in nodes : holder[f] # "free"
          /\ Dup' \in Reports
          /\ Goto("server", IF Dup' # {} THEN "action" ELSE "blocked")
    /\ UNCHANGED <<main, handler, interrupted, number_thread, flags, family, socket, nodes, first,
                   fresh, kernel>>

ServerWakes ==
    /\ At("server", "blocked")
    /\ Dup' \in Reports \ {{}}
    /\ Goto("server", "action")
    /\ UNCHANGED <<main, handler, interrupted, number_thread, flags, family, socket, nodes, first,
                   fresh, kernel>>

\* NodeHasAction(0) asks for the first node the scheduler was ever given.
ServerLooks ==
    /\ At("server", "action")
    /\ Goto("server", IF first \in Dup THEN "recv" ELSE "top")
    /\ UNCHANGED <<main, handler, interrupted, number_thread, flags, family, socket, scheduler,
                   fresh, kernel>>

\* _RecvSignal reads from the socket's current descriptor.
ServerReceives ==
    /\ At("server", "recv")
    /\ Master # -1 /\ link.unread > 0
    /\ link' = [link EXCEPT !.unread = @ - 1]
    /\ fresh' = "new"
    /\ Goto("server", "deliver")
    /\ UNCHANGED <<main, handler, interrupted, number_thread, flags, family, Master, holder,
                   scheduler, kernel>>

\* _RecvSignal fails: the socket is closed, or its other end.
ServerReceiveFails ==
    /\ At("server", "recv")
    /\ Master = -1 \/ (link.unread = 0 /\ ~link.alive)
    /\ Goto("server", "failed")
    /\ UNCHANGED <<main, handler, interrupted, number_thread, flags, family, socket, scheduler,
                   fresh, kernel>>

\* Mutant of ServerReports: the failed read is not reported.
ServerReportsNothing ==
    /\ At("server", "failed")
    /\ Goto("server", "deliver")
    /\ UNCHANGED <<main, handler, interrupted, number_thread, flags, family, socket, scheduler,
                   fresh, kernel>>

\* manage_server_crash(), whatever has become of the connection since; then
\* recv_from_server goes on with what the buffer still holds.
ServerReports ==
    /\ At("server", "failed")
    /\ connected' = FALSE
    /\ Goto("server", "deliver")
    /\ UNCHANGED <<main, handler, interrupted, number_thread, being_initialized, being_started,
                   initialized, family, socket, scheduler, fresh, kernel>>

\* The frame in the buffer, if there is one, is sent to every interface.
ServerDelivers ==
    /\ At("server", "deliver")
    /\ fresh' = IF fresh = "nothing" THEN "nothing" ELSE "old"
    /\ Goto("server", "top")
    /\ UNCHANGED <<main, handler, interrupted, number_thread, flags, family, socket, scheduler,
                   kernel>>

ServerLoop ==
    \/ ThreadInterrupted("server") \/ ServerRound \/ ServerWaits \/ ServerWakes \/ ServerLooks
    \/ ServerReceives \/ ServerReceiveFails \/ ServerReports \/ ServerDelivers

-----------------------------------------------------------------------------
(***************************************************************************)
(* recv_msg_from_hwsim_loop_start and process_messages                     *)
(***************************************************************************)

\* nl_recvmsgs_default returns a frame of the driver while connected.  (A
\* timeout, or a frame without a connection, leaves everything as it is.)
HwsimFrame ==
    /\ Round("hwsim")
    /\ initialized /\ connected /\ driver.registered
    /\ Goto("hwsim", "send")
    /\ UNCHANGED <<main, handler, interrupted, number_thread, flags, family, socket, scheduler,
                   fresh, kernel>>

\* _SendSignal: without a connection it fails.  To a server that is gone the
\* two send() calls may still go into the buffers of the kernel, or fail, or
\* the second one raises SIGPIPE.
HwsimSends ==
    /\ At("hwsim", "send")
    /\ \E next \in CASE Master = -1 -> {"failed"}
                     [] Master # -1 /\ link.alive -> {"top"}
                     [] OTHER -> {"top", "failed"} :
          Goto("hwsim", next)
    /\ main' \in IF Master # -1 /\ ~link.alive THEN {main, "Killed"} ELSE {main}
    /\ UNCHANGED <<handler, interrupted, number_thread, flags, family, socket, scheduler, fresh,
                   kernel>>

\* manage_server_crash(), whatever has become of the connection since.
HwsimReports ==
    /\ At("hwsim", "failed")
    /\ connected' = FALSE
    /\ Goto("hwsim", "top")
    /\ UNCHANGED <<main, handler, interrupted, number_thread, being_initialized, being_started,
                   initialized, family, socket, scheduler, fresh, kernel>>

HwsimWork == ThreadInterrupted("hwsim") \/ HwsimSends \/ HwsimReports

HwsimLoop == HwsimFrame \/ HwsimWork

-----------------------------------------------------------------------------
(***************************************************************************)
(* manage_server_crash_loop and reconnect_to_server                        *)
(***************************************************************************)
ConnRound ==
    /\ Round("conn")
    /\ ~connected
    /\ Goto("conn", "close")
    /\ UNCHANGED <<main, handler, interrupted, number_thread, flags, family, socket, scheduler,
                   fresh, kernel>>

\* Mutant of ConnCloses: reconnect_to_server does not close the old socket.
ConnClosesNothing ==
    /\ At("conn", "close")
    /\ Goto("conn", "connect")
    /\ UNCHANGED <<main, handler, interrupted, number_thread, flags, family, socket, scheduler,
                   fresh, kernel>>

\* A pselect that was blocked on the connection has its end to report.
ConnCloses ==
    /\ At("conn", "close")
    /\ Close
    /\ LET wakes == at["server"] = "blocked" /\ SocketReady /\ Master \in nodes
       IN  /\ Dup' = IF wakes THEN {Master} ELSE Dup
           /\ at' = [at EXCEPT !["conn"] = "connect", !["server"] = IF wakes THEN "action" ELSE @]
    /\ UNCHANGED <<main, handler, interrupted, number_thread, flags, family, nodes, first, fresh,
                   kernel>>

Reconnect ==
    /\ At("conn", "connect")
    /\ ConnectSucceeds
    /\ Goto("conn", "reconnected")
    /\ UNCHANGED <<main, handler, interrupted, number_thread, flags, family, fresh, kernel>>

ReconnectFails ==
    /\ At("conn", "connect")
    /\ ConnectFails
    /\ Goto("conn", "top")
    /\ UNCHANGED <<main, handler, interrupted, number_thread, flags, family, socket, scheduler,
                   fresh, kernel>>

Reconnected ==
    /\ At("conn", "reconnected")
    /\ connected' = TRUE
    /\ Goto("conn", "top")
    /\ UNCHANGED <<main, handler, interrupted, number_thread, being_initialized, being_started,
                   initialized, family, socket, scheduler, fresh, kernel>>

ConnLoop ==
    \/ ThreadInterrupted("conn") \/ ConnRound \/ ConnCloses \/ Reconnect \/ ReconnectFails
    \/ Reconnected

-----------------------------------------------------------------------------
(***************************************************************************)
(* monitor_hwsim_loop and init                                             *)
(***************************************************************************)

\* genl_ctrl_resolve does not find the driver.
MonitorMisses ==
    /\ Round("monitor")
    /\ ~driver.loaded
    /\ initialized' = FALSE
    /\ Goto("monitor", "init")
    /\ UNCHANGED <<main, handler, interrupted, number_thread, being_initialized, being_started,
                   connected, family, socket, scheduler, fresh, kernel>>

\* init_netlink: a new netlink socket, the old one is not closed.  The loop
\* that waits for the driver is left at once, for _being_initialized has been
\* false since the start.
MonitorInit ==
    /\ At("monitor", "init")
    /\ FreeFd # {}
    /\ holder' = [holder EXCEPT ![Min(FreeFd)] = "netlink"]
    /\ family' = driver.loaded
    /\ Goto("monitor", "register")
    /\ UNCHANGED <<main, handler, interrupted, number_thread, flags, Master, link, scheduler, fresh,
                   kernel>>

\* init() returns 0: the thread returns, without dead().
MonitorInitFails ==
    /\ At("monitor", "init")
    /\ NetlinkMayFail \/ FreeFd = {}
    /\ Goto("monitor", "returned")
    /\ UNCHANGED <<main, handler, interrupted, number_thread, flags, family, socket, scheduler, fresh,
                   kernel>>

\* send_register_msg reaches a driver only with the number of its family.
MonitorRegisters ==
    /\ At("monitor", "register")
    /\ driver' = [driver EXCEPT !.registered = family /\ driver.loaded]
    /\ initialized' = TRUE
    /\ Goto("monitor", "top")
    /\ UNCHANGED <<main, handler, interrupted, number_thread, being_initialized, being_started,
                   connected, family, socket, scheduler, fresh, up, budget>>

MonitorLoop ==
    \/ ThreadInterrupted("monitor") \/ MonitorMisses \/ MonitorInit \/ MonitorInitFails
    \/ MonitorRegisters

-----------------------------------------------------------------------------
(***************************************************************************)
(* winet_update_loop, and the get_pmaddr of its callback                   *)
(***************************************************************************)
WinetOpens ==
    /\ Round("winet")
    /\ initialized /\ PermAddrSockets
    /\ FreeFd # {}
    /\ holder' = [holder EXCEPT ![Min(FreeFd)] = "winet"]
    /\ Goto("winet", "ioctl")
    /\ UNCHANGED <<main, handler, interrupted, number_thread, flags, family, Master, link, scheduler,
                   fresh, kernel>>

\* The socket is closed after the ioctl, but not when the ioctl fails
\* because the interface has gone with the driver.
WinetAsks ==
    /\ At("winet", "ioctl")
    /\ holder' = [f \in Fd |-> IF holder[f] # "winet" THEN holder[f]
                               ELSE IF driver.loaded THEN "free" ELSE "leaked"]
    /\ Goto("winet", "top")
    /\ UNCHANGED <<main, handler, interrupted, number_thread, flags, family, Master, link, scheduler,
                   fresh, kernel>>

WinetLoop == ThreadInterrupted("winet") \/ WinetOpens \/ WinetAsks

-----------------------------------------------------------------------------
(***************************************************************************)
(* The server and the driver                                               *)
(***************************************************************************)
Running == main \notin Ended

ServerDown ==
    /\ Running
    /\ up /\ budget.crashes > 0
    /\ up' = FALSE
    /\ link' = [link EXCEPT !.alive = FALSE]
    /\ budget' = [budget EXCEPT !.crashes = @ - 1]
    /\ UNCHANGED <<main, handler, threads, flags, family, Master, holder, scheduler, fresh, driver>>

ServerUp ==
    /\ Running
    /\ ~up
    /\ up' = TRUE
    /\ UNCHANGED <<main, handler, threads, flags, family, socket, scheduler, fresh, driver, budget>>

ServerSends ==
    /\ Running
    /\ link.alive /\ link.unread < MaxUnread
    /\ link' = [link EXCEPT !.unread = @ + 1]
    /\ UNCHANGED <<main, handler, threads, flags, family, Master, holder, scheduler, fresh, kernel>>

DriverUnload ==
    /\ Running
    /\ driver.loaded /\ budget.reloads > 0
    /\ driver' = [loaded |-> FALSE, registered |-> FALSE]
    /\ budget' = [budget EXCEPT !.reloads = @ - 1]
    /\ UNCHANGED <<main, handler, threads, flags, family, socket, scheduler, fresh, up>>

DriverLoad ==
    /\ Running
    /\ ~driver.loaded
    /\ driver' = [driver EXCEPT !.loaded = TRUE]
    /\ UNCHANGED <<main, handler, threads, flags, family, socket, scheduler, fresh, up, budget>>

Environment == Sigint \/ ServerDown \/ ServerUp \/ ServerSends \/ DriverUnload \/ DriverLoad

\* A process that has ended stays so.
EndedStep == main \in Ended /\ UNCHANGED vars

Next ==
    \/ Start \/ Stop \/ ServerLoop \/ HwsimLoop \/ ConnLoop \/ MonitorLoop \/ WinetLoop
    \/ Environment \/ EndedStep

Spec == Init /\ [][Next]_vars

\* Every thread of the process is scheduled by the operating system.  The
\* frames of the driver (HwsimFrame) are not promised.
Fairness ==
    /\ WF_vars(Start) /\ WF_vars(Stop)
    /\ WF_vars(ServerLoop) /\ WF_vars(HwsimWork) /\ WF_vars(ConnLoop)
    /\ WF_vars(MonitorLoop) /\ WF_vars(WinetLoop)

FairSpec == Spec /\ Fairness

-----------------------------------------------------------------------------
(***************************************************************************)
(* Properties                                                              *)
(***************************************************************************)

\* The type of every variable.
ClientTypeOK ==
    /\ main \in {"init", "register", "interfaces", "connect", "retry", "spawn", "spawned", "join"}
                    \cup Ended
    /\ handler \in {"off", "enter", "close", "interruptConn", "kill", "interruptServer",
                    "interruptOthers", "wait"}
    /\ at \in [Thread -> Place]
    /\ interrupted \in [Thread -> BOOLEAN]
    /\ number_thread \in Nat
    /\ being_initialized \in BOOLEAN /\ being_started \in BOOLEAN
    /\ initialized \in BOOLEAN /\ connected \in BOOLEAN /\ family \in BOOLEAN
    /\ Master \in Fd \cup {-1} /\ first \in Fd \cup {-1}
    /\ nodes \subseteq Fd /\ Dup \subseteq Fd
    /\ fresh \in {"nothing", "new", "old"}
    /\ holder \in [Fd -> {"free", "server", "netlink", "winet", "leaked"}]
    /\ link \in [alive : BOOLEAN, unread : Nat]
    /\ up \in BOOLEAN
    /\ driver \in [loaded : BOOLEAN, registered : BOOLEAN]
    /\ budget \in [crashes : Nat, reloads : Nat, sigints : Nat]

\* The process holds one socket to the server at most, and it is Master:
\* neither a failed attempt, nor a reconnection, nor stop() leaves a socket
\* open, and no thread closes or takes a descriptor of another one.
OneServerSocket == \A f \in Fd : holder[f] = "server" <=> f = Master

\* stop() waits for all threads: start() can join them, for the handler is
\* left only when every one of them has seen its interrupt flag.
StopWaitsForAll ==
    (handler = "off" /\ \E t \in Thread : interrupted[t])
        => \A t \in Thread : at[t] = "dead"

\* After a reconnection the server thread listens to the new socket: it is
\* the one pselect waits on and the one NodeHasAction(0) asks for.
ReconnectedIsHeard == connected /\ Master # -1 => nodes = {Master} /\ first = Master

\* A SIGINT that arrives while start() joins its threads ends the process.
StopStops == (handler = "enter" /\ main = "join") ~> main \in Ended

\* A SIGINT that arrives while start() waits for the driver ends the process
\* unless the driver appears, and one that arrives while it tries to connect
\* for the first time unless the server appears.
StopWhileRetrying ==
    /\ (handler = "enter" /\ main = "init" /\ ~driver.loaded)
            ~> (main \in Ended \/ driver.loaded)
    /\ (handler = "enter" /\ main \in {"connect", "retry"} /\ ~up)
            ~> (main \in Ended \/ up)

\* A lost connection is found and replaced while the server is there, unless
\* the client is stopped or killed.
EventuallyReconnected ==
    (main = "join" /\ up) ~> ((connected /\ link.alive) \/ ~up \/ handler # "off" \/ main \in Ended)

\* A frame the server has sent on a live connection is received, unless the
\* connection is lost or the client stops.
EventuallyReceived ==
    (connected /\ link.unread > 0) ~> (link.unread = 0 \/ handler # "off" \/ main \in Ended)

=============================================================================
