---------------------------- MODULE VwifiServer ----------------------------
(***************************************************************************)
(* The main loop of vwifi-server (vwifi-server.cc) with the objects it     *)
(* drives: the guests' CWifiServer (the VTCP and the ITCP server share one *)
(* set of lists), the spies' CWifiServer, the control server and the       *)
(* CSelect scheduler.                                                      *)
(*                                                                         *)
(* The server is one thread.  An iteration of its loop is the sequence of  *)
(* phases                                                                  *)
(*    Wait, VTCP, ITCP, SPY, CTRL, wifi, spy                               *)
(* (pselect; one accept per ready listener; one control order; ForwardData *)
(* over the guests, then over the spies); pc names the phase.  Guests,     *)
(* spies and vwifi-ctrl act between any two steps of the server: what      *)
(* pselect reported may be old when it is used.                            *)
(***************************************************************************)
EXTENDS Integers, Sequences, FiniteSets, CSelect, CWifiServer

CONSTANTS
    CID,          \* the cids that occur, in connections or in control orders
    Coo,          \* positions of guests
    DefaultCoo,   \* the position of a new CCoordinate, (0,0,0)
    Names,        \* names of guests
    DefaultName,  \* the empty name
    Scales,       \* values of the global Scale
    MaxFd,        \* the largest descriptor the process may open
    ListenFd,     \* the descriptor of each listening socket
    MaxDeconnected, \* MaxClientDeconnected of each server
    PortsOf,      \* the ports a guest connects to
    LossOption,   \* the values CanLostPackets may have at the start (option -l)
    OrderTypes,   \* the orders vwifi-ctrl is used for
    Takeover,     \* may a guest connect again before the server removed it?
    MaxBacklog,   \* bound: connections waiting for accept, per port
    MaxUnread,    \* bound: frames waiting in a connection
    MaxOrders     \* bound: control connections waiting for accept

\* TCID_GUEST_MIN: the smallest cid of a guest.
TCID_GUEST_MIN == 3

Guest == {c \in CID : c >= TCID_GUEST_MIN}

\* The listening sockets guests and spies connect to, and the one server
\* object (set of lists) behind each of them.
Port == {"VTCP", "ITCP", "SPY"}

Srv == {"wifi", "spy"}

SrvOf(p) == IF p = "SPY" THEN "spy" ELSE "wifi"

OtherSrv(s) == IF s = "wifi" THEN "spy" ELSE "wifi"

Fd == 0..MaxFd

Listener == {ListenFd[p] : p \in Port \cup {"CTRL"}}

ClientFd == Fd \ Listener

Phase == {"Wait", "CTRL"} \cup Port \cup Srv

\* Mutant of Succ: the control order comes before the accepts.
SuccCtrlFirst(ph) ==
    CASE ph = "Wait" -> "CTRL"
      [] ph = "CTRL" -> "VTCP"
      [] ph = "VTCP" -> "ITCP"
      [] ph = "ITCP" -> "SPY"
      [] ph = "SPY"  -> "wifi"
      [] ph = "wifi" -> "spy"
      [] ph = "spy"  -> "Wait"

\* The order of the loop body.
Succ(ph) ==
    CASE ph = "Wait" -> "VTCP"
      [] ph = "VTCP" -> "ITCP"
      [] ph = "ITCP" -> "SPY"
      [] ph = "SPY"  -> "CTRL"
      [] ph = "CTRL" -> "wifi"
      [] ph = "wifi" -> "spy"
      [] ph = "spy"  -> "Wait"

ASSUME ConstantsAssumption ==
    /\ CID \subseteq Nat
    /\ DefaultCoo \in Coo /\ DefaultName \in Names
    /\ MaxFd \in Nat
    /\ ListenFd \in [Port \cup {"CTRL"} -> Fd]
    /\ \A p, q \in Port \cup {"CTRL"} : ListenFd[p] = ListenFd[q] => p = q
    /\ MaxDeconnected \in [Srv -> Nat \ {0}]
    /\ PortsOf \in [Guest -> SUBSET Port]
    /\ LossOption \subseteq BOOLEAN
    /\ Takeover \in BOOLEAN
    /\ MaxBacklog \in Nat /\ MaxUnread \in Nat /\ MaxOrders \in Nat

InfoSocket == [fd : ClientFd, enable : BOOLEAN]

InfoWifi == [cid : Guest, coo : Coo, name : Names]

\* A connection as the kernel sees it from the server's side: is the peer
\* still there, and how many frames can be read.
Connection == [cid : Guest, port : Port, open : BOOLEAN, unread : Nat]

NoConnection == [cid |-> 0, port |-> "none", open |-> FALSE, unread |-> 0]

\* The orders of vwifi-ctrl.  "no" stands for every control connection that
\* brings no complete order: closed early, timed out, unknown order.
Order == [type : {"no", "list", "status", "show", "close"}]
            \cup [type : {"coordinate"}, cid : CID, coo : Coo]
            \cup [type : {"name"}, cid : CID, name : Names]
            \cup [type : {"loss"}, value : BOOLEAN]
            \cup [type : {"scale"}, scale : Scales]
            \cup [type : {"distance"}, cid1 : CID, cid2 : CID]

VARIABLES
    InfoSockets, InfoWifis, InfoWifisDeconnected, \* [Srv -> list], module CWifiServer
    scheduler,       \* the CSelect object: [nodes, Master, MaxDescriptor]
    Dup,             \* its copy of Master, filtered by the last pselect
    CanLostPackets, Scale, \* the globals a control order may change
    pc,              \* the phase the server is in, or "Exited"
    index,           \* the loop variable of ForwardData
    served,          \* history: the descriptors read in this iteration
    sock,            \* kernel: the connection behind each open descriptor
    backlog,         \* kernel: connections waiting for accept, per port
    orders           \* kernel: control connections waiting for accept

lists    == <<InfoSockets, InfoWifis, InfoWifisDeconnected>>
settings == <<CanLostPackets, Scale>>
kernel   == <<sock, backlog, orders>>
vars     == <<lists, scheduler, Dup, settings, pc, index, served, kernel>>

-----------------------------------------------------------------------------
(***************************************************************************)
(* The kernel                                                              *)
(***************************************************************************)
IsOpen(f) == f \in Listener \/ (f \in ClientFd /\ sock[f] # NoConnection)

\* The descriptors accept may return: it takes the lowest free one.
FreeFd == {f \in ClientFd : sock[f] = NoConnection}

LowestFree(f) == f \in FreeFd /\ \A g \in FreeFd : f <= g

\* A read on this descriptor would not block: data, or the end of the stream.
HasInput(f) == sock[f] # NoConnection /\ (sock[f].unread > 0 \/ ~sock[f].open)

Readable ==
    {f \in ClientFd : HasInput(f)}
        \cup {ListenFd[p] : p \in {q \in Port : backlog[q] # <<>>}}
        \cup {f \in {ListenFd["CTRL"]} : orders # <<>>}

\* close() of a set of descriptors.
CloseFds(F) == [f \in ClientFd |-> IF f \in F THEN NoConnection ELSE sock[f]]

-----------------------------------------------------------------------------
Init ==
    /\ InfoSockets = [s \in Srv |-> <<>>]
    /\ InfoWifis = [s \in Srv |-> <<>>]
    /\ InfoWifisDeconnected = [s \in Srv |-> <<>>]
    /\ scheduler = [ nodes         |-> [f \in Fd |-> IF f \in Listener THEN 1 ELSE 0],
                     Master        |-> Listener,
                     MaxDescriptor |-> MaxOver(Listener) ]
    /\ Dup = {}
    /\ CanLostPackets \in LossOption
    /\ Scale \in Scales
    /\ pc = "Wait"
    /\ index = 1
    /\ served = {}
    /\ sock = [f \in ClientFd |-> NoConnection]
    /\ backlog = [p \in Port |-> <<>>]
    /\ orders = <<>>

(***************************************************************************)
(* Scheduler.Wait(): the server sleeps until a descriptor of Master is     *)
(* readable.  A descriptor in Master that is not open makes pselect fail   *)
(* (EBADF), and the server returns.                                        *)
(***************************************************************************)
Wait ==
    /\ pc = "Wait"
    /\ LET bad == {f \in scheduler.Master : ~IsOpen(f)}
       IN  /\ Dup' = Activity(scheduler, Readable)
           /\ bad = {} => Dup' # {}
           /\ pc' = IF bad = {} THEN Succ(pc) ELSE "Exited"
    /\ index' = 1
    /\ served' = {}
    /\ UNCHANGED <<lists, scheduler, settings, kernel>>

(***************************************************************************)
(* The accept phases.  CWifiServer::Accept and the AddNode that follows.   *)
(***************************************************************************)
AcceptNothing(p) ==
    /\ pc = p
    /\ ListenFd[p] \notin Dup
    /\ pc' = Succ(pc)
    /\ UNCHANGED <<lists, scheduler, Dup, settings, index, served, kernel>>

\* accept() finds no free descriptor: exit(EXIT_FAILURE).
AcceptFails(p) ==
    /\ pc = p
    /\ ListenFd[p] \in Dup
    /\ FreeFd = {}
    /\ pc' = "Exited"
    /\ UNCHANGED <<lists, scheduler, Dup, settings, index, served, kernel>>

\* What every successful Accept does: the new descriptor goes to the end of
\* InfoSockets, the CInfoWifi to the end of InfoWifis, and the descriptor
\* into the scheduler.  infoSockets and infoWifisDeconnected are the two
\* other lists as the search for the guest's old place has left them.
Admit(p, infoSockets, infoWifisDeconnected, coo, name) ==
    \E f \in ClientFd :
        /\ LowestFree(f)
        /\ LET s == SrvOf(p)
               conn == Head(backlog[p])
           IN  /\ InfoSockets' = [InfoSockets EXCEPT ![s] =
                                    Append(infoSockets, [fd |-> f, enable |-> TRUE])]
               /\ InfoWifis' = [InfoWifis EXCEPT ![s] =
                                    Append(@, [cid |-> conn.cid, coo |-> coo, name |-> name])]
               /\ InfoWifisDeconnected' =
                        [InfoWifisDeconnected EXCEPT ![s] = infoWifisDeconnected]
               /\ sock' = [sock EXCEPT ![f] = conn]
        /\ backlog' = [backlog EXCEPT ![p] = Tail(@)]
        /\ scheduler' = AddNode(scheduler, f)
        /\ pc' = Succ(pc)
        /\ UNCHANGED <<Dup, settings, index, served, orders>>

\* A connection is waiting on port p, and from which guest.
Incoming(p) ==
    /\ pc = p
    /\ ListenFd[p] \in Dup
    /\ FreeFd # {}

\* Mutant of AcceptReturning: the saved entry is not erased.
AcceptReturningKeepsSaved(p) ==
    /\ Incoming(p)
    /\ LET s == SrvOf(p)
           saved == InfoWifisDeconnected[s]
           d == IndexByCID(saved, Head(backlog[p]).cid)
       IN  d # 0 /\ Admit(p, InfoSockets[s], saved, saved[d].coo, saved[d].name)

\* Mutant of AcceptReturning: the saved entry is erased and not used.
AcceptReturningForgets(p) ==
    /\ Incoming(p)
    /\ LET s == SrvOf(p)
           saved == InfoWifisDeconnected[s]
           d == IndexByCID(saved, Head(backlog[p]).cid)
       IN  d # 0 /\ Admit(p, InfoSockets[s], RemoveAt(saved, d), DefaultCoo, DefaultName)

\* RecoverInfosOfInfoWifiDeconnected succeeds: the guest left before, its
\* first saved entry is consumed.  The connected list is not looked at.
AcceptReturning(p) ==
    /\ Incoming(p)
    /\ LET s == SrvOf(p)
           saved == InfoWifisDeconnected[s]
           d == IndexByCID(saved, Head(backlog[p]).cid)
       IN  /\ d # 0
           /\ Admit(p, InfoSockets[s], RemoveAt(saved, d), saved[d].coo, saved[d].name)

\* RecoverInfosOfInfoWifi succeeds: an enabled connection of the same cid
\* gives its place to the new one and is disabled.
AcceptTakeover(p) ==
    /\ Incoming(p)
    /\ LET s == SrvOf(p)
           cid == Head(backlog[p]).cid
           w == EnabledIndexByCID(InfoSockets[s], InfoWifis[s], cid)
       IN  /\ IndexByCID(InfoWifisDeconnected[s], cid) = 0
           /\ w # 0
           /\ Admit(p, DisableClients(InfoSockets[s], {w}), InfoWifisDeconnected[s],
                    InfoWifis[s][w].coo, InfoWifis[s][w].name)

\* Neither search succeeds: a new CInfoWifi.
AcceptNew(p) ==
    /\ Incoming(p)
    /\ LET s == SrvOf(p)
           cid == Head(backlog[p]).cid
       IN  /\ IndexByCID(InfoWifisDeconnected[s], cid) = 0
           /\ EnabledIndexByCID(InfoSockets[s], InfoWifis[s], cid) = 0
           /\ Admit(p, InfoSockets[s], InfoWifisDeconnected[s], DefaultCoo, DefaultName)

-----------------------------------------------------------------------------
(***************************************************************************)
(* The control phase: CCTRLServer::ReceiveOrder.  The control connection   *)
(* is accepted, its order executed and the connection closed in one call,  *)
(* so it holds a descriptor only inside the step.                          *)
(***************************************************************************)

\* No control connection, or accept() fails and ReceiveOrder returns.
NoOrder ==
    /\ pc = "CTRL"
    /\ ListenFd["CTRL"] \notin Dup \/ FreeFd = {}
    /\ pc' = Succ(pc)
    /\ UNCHANGED <<lists, scheduler, Dup, settings, index, served, kernel>>

\* Accept, GetOrder and the closing CloseClient(0) around every order.
ReceiveOrder(types) ==
    /\ pc = "CTRL"
    /\ ListenFd["CTRL"] \in Dup
    /\ FreeFd # {}
    /\ Head(orders).type \in types
    /\ orders' = Tail(orders)
    /\ pc' = Succ(pc)
    /\ UNCHANGED <<Dup, index, served, backlog>>

\* SendList: for each server it announces the size of the list, then sends
\* the entries whose connection is enabled.
SendList == [s \in Srv |->
                [ number |-> Len(InfoSockets[s]),
                  sent   |-> [k \in Enabled(InfoSockets[s]) |-> InfoWifis[s][k]] ]]

\* The search of SendDistance: the connected guests, then those that left.
Located(cid) ==
    \/ IndexByCID(InfoWifis["wifi"], cid) # 0
    \/ IndexByCID(InfoWifisDeconnected["wifi"], cid) # 0

PlaceFound(cid) ==
    LET w == IndexByCID(InfoWifis["wifi"], cid)
    IN  IF w # 0 THEN InfoWifis["wifi"][w].coo
        ELSE InfoWifisDeconnected["wifi"][IndexByCID(InfoWifisDeconnected["wifi"], cid)].coo

\* SendDistance: an error code, or the two places the distance is taken of.
SendDistance(cid1, cid2) ==
    IF ~Located(cid1) THEN [code |-> -1]
    ELSE IF ~Located(cid2) THEN [code |-> -2]
    ELSE [code |-> 0, from |-> PlaceFound(cid1), to |-> PlaceFound(cid2)]

\* SendList, SendStatus, SendShow, SendDistance and TORDER_NO answer, or do
\* nothing, and change nothing.
Answer ==
    /\ ReceiveOrder({"no", "list", "status", "show", "distance"})
    /\ UNCHANGED <<lists, scheduler, settings, sock>>

\* An answer of several send() calls to a vwifi-ctrl that is gone: the first
\* one provokes a reset, the next one raises SIGPIPE, which nothing handles.
AnswerKilled ==
    /\ pc = "CTRL"
    /\ ListenFd["CTRL"] \in Dup
    /\ FreeFd # {}
    /\ LET o == Head(orders)
       IN  \/ o.type \in {"list", "status", "show"}
           \/ o.type = "distance" /\ SendDistance(o.cid1, o.cid2).code = 0
    /\ pc' = "Exited"
    /\ UNCHANGED <<lists, scheduler, Dup, settings, index, served, kernel>>

\* ChangeCoordinate: the first entry of the cid among the connected guests,
\* else among those that left, else a new entry with those that left.
ChangeCoordinate ==
    /\ ReceiveOrder({"coordinate"})
    /\ LET o == Head(orders)
           saved == InfoWifisDeconnected["wifi"]
           w == IndexByCID(InfoWifis["wifi"], o.cid)
           d == IndexByCID(saved, o.cid)
       IN  \/ /\ o.cid < TCID_GUEST_MIN
              /\ UNCHANGED <<InfoWifis, InfoWifisDeconnected>>
           \/ /\ o.cid >= TCID_GUEST_MIN /\ w # 0
              /\ InfoWifis' = [InfoWifis EXCEPT !["wifi"][w].coo = o.coo]
              /\ UNCHANGED InfoWifisDeconnected
           \/ /\ o.cid >= TCID_GUEST_MIN /\ w = 0 /\ d # 0
              /\ InfoWifisDeconnected' = [InfoWifisDeconnected EXCEPT !["wifi"][d].coo = o.coo]
              /\ UNCHANGED InfoWifis
           \/ /\ o.cid >= TCID_GUEST_MIN /\ w = 0 /\ d = 0
              /\ InfoWifisDeconnected' = [InfoWifisDeconnected EXCEPT !["wifi"] =
                    AddInfoWifiDeconnected(saved, MaxDeconnected["wifi"],
                        [cid |-> o.cid, coo |-> o.coo, name |-> DefaultName])]
              /\ UNCHANGED InfoWifis
    /\ UNCHANGED <<InfoSockets, scheduler, settings, sock>>

\* SetName: the connected guests, those that left, the connected spies; a
\* cid found nowhere is ignored.
SetName ==
    /\ ReceiveOrder({"name"})
    /\ LET o == Head(orders)
           w == IndexByCID(InfoWifis["wifi"], o.cid)
           d == IndexByCID(InfoWifisDeconnected["wifi"], o.cid)
           y == IndexByCID(InfoWifis["spy"], o.cid)
       IN  \/ /\ o.cid >= TCID_GUEST_MIN /\ w # 0
              /\ InfoWifis' = [InfoWifis EXCEPT !["wifi"][w].name = o.name]
              /\ UNCHANGED InfoWifisDeconnected
           \/ /\ o.cid >= TCID_GUEST_MIN /\ w = 0 /\ d # 0
              /\ InfoWifisDeconnected' = [InfoWifisDeconnected EXCEPT !["wifi"][d].name = o.name]
              /\ UNCHANGED InfoWifis
           \/ /\ o.cid >= TCID_GUEST_MIN /\ w = 0 /\ d = 0 /\ y # 0
              /\ InfoWifis' = [InfoWifis EXCEPT !["spy"][y].name = o.name]
              /\ UNCHANGED InfoWifisDeconnected
           \/ /\ o.cid < TCID_GUEST_MIN \/ (w = 0 /\ d = 0 /\ y = 0)
              /\ UNCHANGED <<InfoWifis, InfoWifisDeconnected>>
    /\ UNCHANGED <<InfoSockets, scheduler, settings, sock>>

ChangePacketLoss ==
    /\ ReceiveOrder({"loss"})
    /\ CanLostPackets' = Head(orders).value
    /\ UNCHANGED <<lists, scheduler, Scale, sock>>

SetScale ==
    /\ ReceiveOrder({"scale"})
    /\ Scale' = Head(orders).scale
    /\ UNCHANGED <<lists, scheduler, CanLostPackets, sock>>

\* Mutant of CloseAllClient: the list of the spies is not emptied.
CloseAllClientKeepsSpies ==
    /\ ReceiveOrder({"close"})
    /\ scheduler' = DelNodes(scheduler, UNION {Descriptors(InfoSockets[s]) : s \in Srv})
    /\ sock' = CloseFds(UNION {EnabledDescriptors(InfoSockets[s]) : s \in Srv})
    /\ InfoSockets' = [InfoSockets EXCEPT !["wifi"] = <<>>]
    /\ InfoWifis' = [InfoWifis EXCEPT !["wifi"] = <<>>]
    /\ UNCHANGED <<InfoWifisDeconnected, settings>>

\* CloseAllClient: every connection of a guest and of a spy leaves the
\* scheduler, is closed (if enabled) and erased; the CInfoWifis are saved.
CloseAllClient ==
    /\ ReceiveOrder({"close"})
    /\ scheduler' = DelNodes(scheduler, UNION {Descriptors(InfoSockets[s]) : s \in Srv})
    /\ sock' = CloseFds(UNION {EnabledDescriptors(InfoSockets[s]) : s \in Srv})
    /\ InfoWifisDeconnected' = [s \in Srv |->
            AddAllDeconnected(InfoWifisDeconnected[s], MaxDeconnected[s], InfoWifis[s])]
    /\ InfoSockets' = [s \in Srv |-> <<>>]
    /\ InfoWifis' = [s \in Srv |-> <<>>]
    /\ UNCHANGED settings

-----------------------------------------------------------------------------
(***************************************************************************)
(* The forwarding phases: ForwardData over InfoSockets[s], s = pc.         *)
(***************************************************************************)

\* Mutant of RemoveClient: the CInfoWifi is saved but not erased.
RemoveClientKeepsWifi(s, k) ==
    LET info == InfoSockets[s][k]
    IN  /\ sock' = CloseFds(IF info.enable THEN {info.fd} ELSE {})
        /\ InfoSockets' = [InfoSockets EXCEPT ![s] = RemoveAt(@, k)]
        /\ InfoWifisDeconnected' = [InfoWifisDeconnected EXCEPT ![s] =
                AddInfoWifiDeconnected(@, MaxDeconnected[s], InfoWifis[s][k])]
        /\ UNCHANGED InfoWifis
        /\ scheduler' = DelNode(scheduler, info.fd)

\* RemoveClient(srv, i): CloseClient (the descriptor is closed only if the
\* connection is enabled, the CInfoWifi is saved, both entries are erased),
\* then DelNode.
RemoveClient(s, k) ==
    LET info == InfoSockets[s][k]
    IN  /\ sock' = CloseFds(IF info.enable THEN {info.fd} ELSE {})
        /\ InfoSockets' = [InfoSockets EXCEPT ![s] = RemoveAt(@, k)]
        /\ InfoWifisDeconnected' = [InfoWifisDeconnected EXCEPT ![s] =
                AddInfoWifiDeconnected(@, MaxDeconnected[s], InfoWifis[s][k])]
        /\ InfoWifis' = [InfoWifis EXCEPT ![s] = RemoveAt(@, k)]
        /\ scheduler' = DelNode(scheduler, info.fd)

\* ForwardData looks at connection index of server s.
Visiting(s) == pc = s /\ index <= Len(InfoSockets[s])

\* Mutant of ForwardRemove: the loop goes on behind the entry that moved up.
ForwardRemoveSkips(s) ==
    /\ Visiting(s)
    /\ ~InfoSockets[s][index].enable
    /\ RemoveClient(s, index)
    /\ index' = index + 1
    /\ UNCHANGED <<Dup, settings, pc, served, backlog, orders>>

\* A connection disabled by a takeover or a failed send is removed.
ForwardRemove(s) ==
    /\ Visiting(s)
    /\ ~InfoSockets[s][index].enable
    /\ RemoveClient(s, index)
    /\ UNCHANGED <<Dup, settings, pc, index, served, backlog, orders>>

ForwardIdle(s) ==
    /\ Visiting(s)
    /\ InfoSockets[s][index].enable
    /\ InfoSockets[s][index].fd \notin Dup
    /\ index' = index + 1
    /\ UNCHANGED <<lists, scheduler, Dup, settings, pc, served, kernel>>

\* RecvSignal is about to read from an enabled connection pselect reported.
Reading(s, f) ==
    /\ Visiting(s)
    /\ InfoSockets[s][index].enable
    /\ f = InfoSockets[s][index].fd
    /\ f \in Dup

\* RecvSignal fails: the end of the stream, or a frame that is too long,
\* truncated, or late by more than the receive timeout.
ForwardRecvError(s) ==
    \E f \in ClientFd :
        /\ Reading(s, f)
        /\ HasInput(f)
        /\ served' = served \cup {f}
        /\ RemoveClient(s, index)
        /\ UNCHANGED <<Dup, settings, pc, index, backlog, orders>>

\* The connections a frame read at index of server s is meant for: every
\* other enabled one of s, every enabled one of the other server.
Targets(s, t) == IF t = s THEN Enabled(InfoSockets[t]) \ {index} ELSE Enabled(InfoSockets[t])

\* The guests PacketIsLost may spare: none unless a guest is the sender and
\* losses are switched on.
MayBeLost(s, t) == IF s = "wifi" /\ t = "wifi" /\ CanLostPackets THEN Targets(s, t) ELSE {}

\* A send() to a peer that is there fails only by the send timeout of the
\* TCP sockets; the vsock sockets have none.
SendMayFail(f) == sock[f].port # "VTCP" \/ ~sock[f].open

\* Mutant of ForwardFrame: the loop does not go on to the next connection.
ForwardFrameRereads(s) ==
    \E f \in ClientFd :
        /\ Reading(s, f)
        /\ sock[f].unread > 0
        /\ sock' = [sock EXCEPT ![f].unread = @ - 1]
        /\ served' = served \cup {f}
        /\ UNCHANGED <<lists, scheduler, Dup, settings, pc, index, backlog, orders>>

\* RecvSignal returns a frame, which SendAllOtherClients (or its variant
\* without loss) and SendAllClientsWithoutLoss pass on.  sent[t] are the
\* connections of server t the frame is really sent to, failed[t] those of
\* them whose send fails: they are disabled.
ForwardFrame(s) ==
    \E f \in ClientFd :
        /\ Reading(s, f)
        /\ sock[f].unread > 0
        /\ sock' = [sock EXCEPT ![f].unread = @ - 1]
        /\ served' = served \cup {f}
        /\ \E lost \in SUBSET MayBeLost(s, s) :
           \E failed \in SUBSET {k \in Targets(s, s) \ lost : SendMayFail(InfoSockets[s][k].fd)} :
           \E otherFailed \in SUBSET {k \in Targets(s, OtherSrv(s)) :
                                        SendMayFail(InfoSockets[OtherSrv(s)][k].fd)} :
              InfoSockets' = [t \in Srv |->
                  DisableClients(InfoSockets[t], IF t = s THEN failed ELSE otherFailed)]
        /\ index' = index + 1
        /\ UNCHANGED <<InfoWifis, InfoWifisDeconnected, scheduler, Dup, settings, pc,
                       backlog, orders>>

\* A signal is two send() calls.  On a connection whose peer is gone the
\* first one provokes a reset and a later one raises SIGPIPE.
ForwardKilled(s) ==
    \E f \in ClientFd :
        /\ Reading(s, f)
        /\ sock[f].unread > 0
        /\ \E t \in Srv : \E k \in Targets(s, t) : ~sock[InfoSockets[t][k].fd].open
        /\ pc' = "Exited"
        /\ UNCHANGED <<lists, scheduler, Dup, settings, index, served, kernel>>

ForwardDone(s) ==
    /\ pc = s
    /\ index > Len(InfoSockets[s])
    /\ pc' = Succ(pc)
    /\ index' = 1
    /\ UNCHANGED <<lists, scheduler, Dup, settings, served, kernel>>

-----------------------------------------------------------------------------
(***************************************************************************)
(* Guests, spies and vwifi-ctrl                                            *)
(***************************************************************************)

\* The server still holds, or is about to accept, a connection of this cid.
Present(s, cid) ==
    \/ IndexByCID(InfoWifis[s], cid) # 0
    \/ \E p \in Port : SrvOf(p) = s /\ \E k \in 1..Len(backlog[p]) : backlog[p][k].cid = cid

\* A guest (or a spy) connects.  Without Takeover it does so only after the
\* server has removed its last connection.
GuestConnect(cid, p) ==
    /\ pc # "Exited"
    /\ p \in PortsOf[cid]
    /\ Len(backlog[p]) < MaxBacklog
    /\ Takeover \/ ~Present(SrvOf(p), cid)
    /\ backlog' = [backlog EXCEPT ![p] =
            Append(@, [cid |-> cid, port |-> p, open |-> TRUE, unread |-> 0])]
    /\ UNCHANGED <<lists, scheduler, Dup, settings, pc, index, served, sock, orders>>

\* The descriptors of the connections the server knows.
Listed == UNION {Descriptors(InfoSockets[s]) : s \in Srv}

\* What happens on a connection the server no longer lists is never seen by
\* it, so guests act on listed connections only.
GuestSend(f) ==
    /\ pc # "Exited"
    /\ f \in Listed /\ sock[f].open
    /\ sock[f].unread < MaxUnread
    /\ sock' = [sock EXCEPT ![f].unread = @ + 1]
    /\ UNCHANGED <<lists, scheduler, Dup, settings, pc, index, served, backlog, orders>>

GuestClose(f) ==
    /\ pc # "Exited"
    /\ f \in Listed /\ sock[f].open
    /\ sock' = [sock EXCEPT ![f].open = FALSE]
    /\ UNCHANGED <<lists, scheduler, Dup, settings, pc, index, served, backlog, orders>>

\* A guest closes its connection before the server has accepted it.
GuestAbort(p) ==
    /\ pc # "Exited"
    /\ \E k \in 1..Len(backlog[p]) :
          /\ backlog[p][k].open
          /\ backlog' = [backlog EXCEPT ![p][k].open = FALSE]
    /\ UNCHANGED <<lists, scheduler, Dup, settings, pc, index, served, sock, orders>>

CtrlConnect(o) ==
    /\ pc # "Exited"
    /\ o.type \in OrderTypes
    /\ Len(orders) < MaxOrders
    /\ orders' = Append(orders, o)
    /\ UNCHANGED <<lists, scheduler, Dup, settings, pc, index, served, sock, backlog>>

Accepting(p) ==
    AcceptNothing(p) \/ AcceptFails(p) \/ AcceptReturning(p) \/ AcceptTakeover(p) \/ AcceptNew(p)

Controlling ==
    NoOrder \/ Answer \/ AnswerKilled \/ ChangeCoordinate \/ SetName \/ ChangePacketLoss
        \/ SetScale \/ CloseAllClient

Forwarding(s) ==
    ForwardRemove(s) \/ ForwardIdle(s) \/ ForwardRecvError(s) \/ ForwardFrame(s)
        \/ ForwardKilled(s) \/ ForwardDone(s)

\* A step of the server, and one of its environment.
ServerStep ==
    \/ Wait
    \/ \E p \in Port : Accepting(p)
    \/ Controlling
    \/ \E s \in Srv : Forwarding(s)

Environment ==
    \/ \E cid \in Guest, p \in Port : GuestConnect(cid, p)
    \/ \E f \in ClientFd : GuestSend(f) \/ GuestClose(f)
    \/ \E p \in Port : GuestAbort(p)
    \/ \E o \in Order : CtrlConnect(o)

\* A server that has exited stays so.
Exited == pc = "Exited" /\ UNCHANGED vars

Next == ServerStep \/ Environment \/ Exited

Spec == Init /\ [][Next]_vars

\* The server's thread is scheduled by the operating system.
FairSpec == Spec /\ WF_vars(ServerStep)

-----------------------------------------------------------------------------
(***************************************************************************)
(* Properties                                                              *)
(***************************************************************************)

\* The type of every variable.
TypeOK ==
    /\ InfoSockets \in [Srv -> Seq(InfoSocket)]
    /\ InfoWifis \in [Srv -> Seq(InfoWifi)]
    /\ InfoWifisDeconnected \in [Srv -> Seq(InfoWifi)]
    /\ scheduler \in SelectType(MaxFd)
    /\ Dup \subseteq Fd
    /\ CanLostPackets \in BOOLEAN
    /\ Scale \in Scales
    /\ pc \in Phase \cup {"Exited"}
    /\ index \in Nat \ {0}
    /\ served \subseteq ClientFd
    /\ sock \in [ClientFd -> Connection \cup {NoConnection}]
    /\ backlog \in [Port -> Seq(Connection)]
    /\ orders \in Seq(Order)

\* InfoSockets and InfoWifis are two vectors that CloseClient, Accept and
\* DisableClient index with the same number: at every index the descriptor
\* is open and belongs to the guest whose CInfoWifi stands there.
Aligned ==
    \A s \in Srv :
        /\ Len(InfoSockets[s]) = Len(InfoWifis[s])
        /\ \A k \in 1..Len(InfoSockets[s]) :
              LET conn == sock[InfoSockets[s][k].fd]
              IN  conn # NoConnection /\ conn.cid = InfoWifis[s][k].cid

\* No descriptor is listed twice, in one server or in both, although the
\* kernel hands the numbers of closed connections out again.
DistinctDescriptors ==
    \A s, t \in Srv : \A j \in 1..Len(InfoSockets[s]), k \in 1..Len(InfoSockets[t]) :
        InfoSockets[s][j].fd = InfoSockets[t][k].fd => s = t /\ j = k

\* The scheduler waits on the listening sockets and on every listed
\* connection, on nothing else, each once, and pselect is told to look as
\* far as the largest of them.  A forgotten or a stale node would make a
\* guest mute, or pselect fail and the server stop.
SchedulerExact == WaitsOn(scheduler, Listener \cup Listed)

\* The connections of server s that ForwardData has not visited yet in this
\* iteration.
Unvisited(s) ==
    CASE pc \in {"Wait", "Exited"}       -> {}
      [] pc = s                          -> index..Len(InfoSockets[s])
      [] pc = "spy" /\ s = "wifi"        -> {}
      [] OTHER                           -> 1..Len(InfoSockets[s])

\* The phases of an iteration in which the listening socket p has not been
\* looked at.
Upcoming(p) ==
    CASE p = "VTCP" -> {"VTCP"}
      [] p = "ITCP" -> {"VTCP", "ITCP"}
      [] p = "SPY"  -> {"VTCP", "ITCP", "SPY"}
      [] p = "CTRL" -> {"VTCP", "ITCP", "SPY", "CTRL"}

\* When the server comes to a listening socket whose bit is set in Dup, a
\* connection is waiting there: accept() does not block the only thread.
AcceptNeverBlocks ==
    /\ \A p \in Port : pc \in Upcoming(p) /\ ListenFd[p] \in Dup => backlog[p] # <<>>
    /\ pc \in Upcoming("CTRL") /\ ListenFd["CTRL"] \in Dup => orders # <<>>

\* When ForwardData comes to a connection whose bit is set in Dup, there is
\* something to read: neither the accepts, nor a control order, nor the
\* removal of other connections has made the bit stand for another
\* connection.  RecvSignal would otherwise block the only thread.
ReadyMeansInput ==
    \A s \in Srv : \A k \in Unvisited(s) :
        InfoSockets[s][k].fd \in Dup => HasInput(InfoSockets[s][k].fd)

\* At the end of an iteration every enabled connection pselect reported has
\* been read, although connections were erased while ForwardData was
\* running over the list.
EveryReadyServed ==
    pc = "Wait" => \A s \in Srv : \A k \in Enabled(InfoSockets[s]) :
        InfoSockets[s][k].fd \in Dup => InfoSockets[s][k].fd \in served

\* The facts that make these properties inductive.  Until the last
\* accept of an iteration no descriptor pselect reported has been closed, so
\* none of them is handed out for a new connection.
DupIsOpen == pc \in Upcoming("SPY") => \A f \in Dup : IsOpen(f)

\* The enabled connections ForwardData has passed in this iteration were
\* read if pselect reported them.
VisitedServed ==
    pc # "Exited" => \A s \in Srv : \A k \in 1..Len(InfoSockets[s]) :
        \/ k \in Unvisited(s)
        \/ InfoSockets[s][k].enable /\ InfoSockets[s][k].fd \in Dup
              => InfoSockets[s][k].fd \in served

\* ForwardData starts at the first connection.
IndexAtStart == pc \in Upcoming("CTRL") => index = 1

\* The inductive invariant.
IInv ==
    /\ TypeOK
    /\ Aligned
    /\ DistinctDescriptors
    /\ SchedulerExact
    /\ AcceptNeverBlocks
    /\ ReadyMeansInput
    /\ DupIsOpen
    /\ VisitedServed
    /\ IndexAtStart

\* An iteration reads a connection at most once: one talkative guest does
\* not keep the others waiting.
ReadOnce == [][\A f \in ClientFd : f \in served /\ f \in served' => sock'[f].unread >= sock[f].unread]_vars


\* A connection that waits on a listening socket is accepted sooner or
\* later, whatever the connected guests do, unless the server exits.
EventuallyAccepted ==
    \A p \in Port : backlog[p] # <<>> ~> (backlog[p] = <<>> \/ pc = "Exited")

\* A control order that waits is executed, unless the server exits or has
\* no descriptor left to accept it with.
EventuallyObeyed ==
    orders # <<>> ~> (orders = <<>> \/ pc = "Exited" \/ FreeFd = {})

\* A frame that waits in an enabled connection is read, or the connection
\* is given up, unless the server exits.
EventuallyRead ==
    \A f \in ClientFd :
        (f \in Listed /\ sock[f].unread > 0)
            ~> (f \notin Listed \/ sock[f].unread = 0 \/ pc = "Exited")

=============================================================================
