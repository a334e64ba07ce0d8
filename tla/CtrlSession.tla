---------------------------- MODULE CtrlSession ----------------------------
(***************************************************************************)
(* The conversation between vwifi-ctrl (vwifi-ctrl.cc) and the control     *)
(* server of vwifi-server (cctrlserver.cc), over a TCP connection.         *)
(*                                                                         *)
(* vwifi-ctrl sends an order and its arguments, one send() per field, and  *)
(* for some orders reads an answer, one recv() per field; the server does  *)
(* the reverse.  Neither side marks where a field begins: what a recv()    *)
(* returns is a number of bytes, whatever fields they belong to.           *)
(***************************************************************************)
EXTENDS Integers, Sequences, SequencesExt

CONSTANTS
    Requests,       \* what the user may ask for: [order, args]
    Lists,          \* what the lists of the server may be: [spies, clients, left]
    ENABLE_VHOST,   \* was the server built with vsock?
    MAX_SIZE_NAME,  \* the longest name
    MaxShort,       \* bound: how many reads of vwifi-ctrl return too little
    MaxGarbage,     \* bound: a value made of parts of other fields is at most this
    CtrlMayStop     \* may vwifi-ctrl be killed or lose its network?

TORDER_NO == 0
TORDER_LIST == 1
TORDER_SHOW == 2
TORDER_CHANGE_COORDINATE == 3
TORDER_SETNAME == 4
TORDER_PACKET_LOSS == 5
TORDER_STATUS == 6
TORDER_DISTANCE_BETWEEN_CID == 7
TORDER_SET_SCALE == 8
TORDER_CLOSE_ALL_CLIENT == 9

\* An entry of a list: its cid, whether it is enabled, the length of its name.
Entry == [cid : Nat, enabled : BOOLEAN, name : 0..MAX_SIZE_NAME]

ASSUME CtrlAssumption ==
    /\ MAX_SIZE_NAME \in Nat /\ MaxShort \in Nat /\ MaxGarbage \in Nat
    /\ ENABLE_VHOST \in BOOLEAN /\ CtrlMayStop \in BOOLEAN
    /\ \A l \in Lists : l.spies \in Seq(Entry) /\ l.clients \in Seq(Entry) /\ l.left \subseteq Nat
    /\ Requests \subseteq [order : TORDER_LIST..TORDER_CLOSE_ALL_CLIENT, args : Seq(Nat)]

-----------------------------------------------------------------------------
(***************************************************************************)
(* Fields and bytes                                                        *)
(***************************************************************************)

\* A field on its way: what it is and its value; the value of a name is its
\* length, that of a place is left out.
Field(kind, v) == [kind |-> kind, v |-> v]

SizeOf(kind) ==
    CASE kind \in {"loss", "spy"} -> 1
      [] kind \in {"vhost", "inet"} -> 2
      [] kind \in {"scale", "distance"} -> 8
      [] kind = "coo" -> 12
      [] kind = "name" -> MAX_SIZE_NAME + 1
      [] OTHER -> 4

\* A name is sent with its last \0 and without what it does not fill.
Width(field) == IF field.kind = "name" THEN field.v + 1 ELSE SizeOf(field.kind)

Bytes(field) == [i \in 1..Width(field) |-> [of |-> field, pos |-> i]]

\* The values bytes may stand for: a whole field has its value, whatever kind
\* it was sent as; parts of fields may be anything.
Values(bytes) ==
    IF bytes = Bytes(bytes[1].of) THEN {bytes[1].of.v} ELSE 0..MaxGarbage

\* A field that is to be read: what the reader takes it for, how many bytes
\* it asks for.
Item(kind) == [kind |-> kind, size |-> SizeOf(kind)]

Items(kinds) == [i \in 1..Len(kinds) |-> Item(kinds[i])]

-----------------------------------------------------------------------------
(***************************************************************************)
(* What is sent and read for each order                                    *)
(***************************************************************************)
Arguments(order) ==
    Items(CASE order = TORDER_CHANGE_COORDINATE -> <<"cid", "coo">>
            [] order = TORDER_SETNAME -> <<"cid", "size", "name">>
            [] order = TORDER_PACKET_LOSS -> <<"value">>
            [] order = TORDER_DISTANCE_BETWEEN_CID -> <<"cid", "cid">>
            [] order = TORDER_SET_SCALE -> <<"scale">>
            [] OTHER -> <<>>)

\* vwifi-ctrl checks how many arguments it was given, and cuts a name that is
\* too long.
ASSUME RequestAssumption ==
    \A r \in Requests :
        /\ Len(r.args) = Len(Arguments(r.order))
        /\ r.order = TORDER_SETNAME => r.args[3] <= MAX_SIZE_NAME

\* The fields vwifi-ctrl sends.
Sent(r) ==
    <<Field("order", r.order)>>
        \o [i \in 1..Len(r.args) |-> Field(Arguments(r.order)[i].kind, r.args[i])]

\* The fields vwifi-ctrl reads; the entries of a list are added when their
\* number has been read, the distance when there is one.
Expected(order) ==
    Items(CASE order = TORDER_LIST -> <<"spies", "clients">>
            [] order = TORDER_SHOW -> <<"loss", "scale", "spy">>
            [] order = TORDER_STATUS -> <<"loss", "scale", "vhost", "inet", "limit", "spy">>
            [] order = TORDER_DISTANCE_BETWEEN_CID -> <<"error", "distance">>
            [] OTHER -> <<>>)

Enabled(list) == SelectSeq(list, LAMBDA e : e.enabled)

\* SendCInfoWifi.
SendCInfoWifi(e) ==
    <<Field("cid", e.cid), Field("coo", 0), Field("size", e.name)>>
        \o IF e.name > 0 THEN <<Field("name", e.name)>> ELSE <<>>

SendCInfoWifis(list) == FlattenSeq([i \in 1..Len(list) |-> SendCInfoWifi(list[i])])

\* Mutant of SendList: the number of spies stands before both lists.
SendListOneNumber(l) ==
    <<Field("spies", Len(l.spies))>> \o SendCInfoWifis(Enabled(l.spies))
        \o <<Field("clients", Len(l.spies))>> \o SendCInfoWifis(Enabled(l.clients))

\* SendList: the number of all entries, then the enabled ones.
SendList(l) ==
    <<Field("spies", Len(l.spies))>> \o SendCInfoWifis(Enabled(l.spies))
        \o <<Field("clients", Len(l.clients))>> \o SendCInfoWifis(Enabled(l.clients))

\* A guest that is connected, or has left and is remembered.
Known(l, c) == c \in l.left \/ \E i \in 1..Len(l.clients) : l.clients[i].cid = c

SendDistance(l, args) ==
    CASE ~Known(l, args[1]) -> <<Field("error", -1)>>
      [] Known(l, args[1]) /\ ~Known(l, args[2]) -> <<Field("error", -2)>>
      [] OTHER -> <<Field("error", 0), Field("distance", 0)>>

Spy(l) == Field("spy", IF l.spies = <<>> THEN 0 ELSE 1)

SendStatus(l) ==
    <<Field("loss", 0), Field("scale", 1)>>
        \o (IF ENABLE_VHOST THEN <<Field("vhost", 8211)>> ELSE <<>>)
        \o <<Field("inet", 8212), Field("limit", 15), Spy(l)>>

SendShow(l) == <<Field("loss", 0), Field("scale", 1), Spy(l)>>

\* The fields the server sends.  (The settings are given fixed values.)
Reply(order, args, l) ==
    CASE order = TORDER_LIST -> SendList(l)
      [] order = TORDER_STATUS -> SendStatus(l)
      [] order = TORDER_SHOW -> SendShow(l)
      [] order = TORDER_DISTANCE_BETWEEN_CID -> SendDistance(l, args)
      [] OTHER -> <<>>

-----------------------------------------------------------------------------
VARIABLES
    \* vwifi-ctrl
    cpc,        \* "connect", "run", or how it ended
    request,    \* the order it is busy with
    sending,    \* the fields still to be sent
    expect,     \* the items still to be read, and what is to be printed
    cid,        \* the local of GetCInfoWifi
    info,       \* the cid in the CInfoWifi of AskList
    shown,      \* what it has printed for this order
    \* the control server
    spc,        \* "idle", "read", "reply" or "Killed"
    order, args,
    reading,    \* the items still to be read
    replying,   \* the fields still to be sent
    lists,      \* the lists of the server
    \* the connection
    ctrlEnd, serverEnd,
    toServer, toCtrl,
    short,      \* what is left of the bound on short reads
    \* history
    asked, executed,
    snapshot    \* the lists when the last order was executed

ctrl    == <<cpc, request, sending, expect, cid, info, shown>>
server  == <<spc, order, args, reading, replying, lists>>
net     == <<ctrlEnd, serverEnd, toServer, toCtrl, short>>
history == <<asked, executed, snapshot>>
vars    == <<ctrl, server, net, history>>

\* How vwifi-ctrl may have ended: with its exit code, by a signal, or it has
\* gone without a word to the server.
Ended == {"Exit0", "Exit1", "Killed", "Gone"}

Init ==
    /\ cpc = "connect" /\ request \in Requests
    /\ sending = <<>> /\ expect = <<>> /\ cid = 0 /\ info = 0 /\ shown = <<>>
    /\ spc = "idle" /\ order = TORDER_NO /\ args = <<>> /\ reading = <<>> /\ replying = <<>>
    /\ lists \in Lists
    /\ ctrlEnd = "none" /\ serverEnd = "none" /\ toServer = <<>> /\ toCtrl = <<>>
    /\ short = MaxShort
    /\ asked = <<>> /\ executed = <<>> /\ snapshot = lists

-----------------------------------------------------------------------------
(***************************************************************************)
(* vwifi-ctrl                                                              *)
(***************************************************************************)

\* ConnectLoop.  The second connection of show waits in the backlog until the
\* server is done with the first one; the wait is made before it here.
Connect ==
    /\ cpc = "connect" /\ spc = "idle"
    /\ cpc' = "run"
    /\ sending' = Sent(request) /\ expect' = Expected(request.order)
    /\ info' = 0 /\ shown' = <<>>
    /\ ctrlEnd' = "open" /\ serverEnd' = "backlog" /\ toServer' = <<>> /\ toCtrl' = <<>>
    /\ asked' = Append(asked, request)
    /\ UNCHANGED <<request, cid, server, short, executed, snapshot>>

\* vwifi-ctrl ends, and with it its side of the connection.
CtrlExits(how) ==
    /\ cpc' = how
    /\ ctrlEnd' = "closed"
    /\ UNCHANGED <<request, sending, expect, cid, info, shown, server, serverEnd, toServer, toCtrl,
                   short, history>>

CtrlSends ==
    /\ cpc = "run" /\ sending # <<>>
    /\ toServer' = toServer \o Bytes(Head(sending))
    /\ sending' = Tail(sending)
    /\ UNCHANGED <<cpc, request, expect, cid, info, shown, server, ctrlEnd, serverEnd, toCtrl, short,
                   history>>

\* A server that has closed the connection: send() fails or raises SIGPIPE.
CtrlSendFails ==
    /\ cpc = "run" /\ sending # <<>>
    /\ serverEnd = "closed"
    /\ CtrlExits("Exit1") \/ CtrlExits("Killed")

Reads(kinds) ==
    cpc = "run" /\ sending = <<>> /\ expect # <<>> /\ Head(expect).kind \in kinds

\* The reads of GetCInfoWifi, whose failures AskList does not notice: they
\* make it return 1, and SOCKET_ERROR is -1.
InEntry == {"cid", "coo", "size", "name"}

OfAnswer == {"spies", "clients", "error", "loss", "scale", "vhost", "inet", "limit", "spy",
             "distance"}

Printed == OfAnswer \ {"spies", "clients", "error"}

\* The rest of an entry is skipped, its line is printed.
SkipEntry == LET line == CHOOSE i \in 1..Len(expect) :
                            /\ expect[i].kind \in {"S", "C"}
                            /\ \A j \in 1..(i - 1) : expect[j].kind \notin {"S", "C"}
             IN  SubSeq(expect, line, Len(expect))

\* The loops of AskList: number times GetCInfoWifi and a line.
GetCInfoWifis(number, line) ==
    FlattenSeq([i \in 1..number |-> Items(<<"cid", "coo", "size", "store", line>>)])

\* What is left to be read after v was read for the first item.
After(v) ==
    CASE Head(expect).kind = "spies" -> GetCInfoWifis(v, "S") \o Tail(expect)
      [] Head(expect).kind = "clients" -> GetCInfoWifis(v, "C") \o Tail(expect)
      [] Head(expect).kind = "size" /\ v > MAX_SIZE_NAME -> SkipEntry
      [] Head(expect).kind = "size" /\ v \in 1..MAX_SIZE_NAME ->
            <<[kind |-> "name", size |-> v + 1]>> \o Tail(expect)
      [] OTHER -> Tail(expect)

\* CSocketClient::Read: one recv(), which may return less than it was asked
\* for.
CtrlReads ==
    /\ Reads(InEntry \cup OfAnswer)
    /\ toCtrl # <<>>
    /\ LET most == IF Len(toCtrl) < Head(expect).size THEN Len(toCtrl) ELSE Head(expect).size
       IN  \E n \in IF short > 0 THEN 1..most ELSE {most} :
             \E v \in Values(SubSeq(toCtrl, 1, n)) :
                /\ toCtrl' = SubSeq(toCtrl, n + 1, Len(toCtrl))
                /\ short' = IF n < most THEN short - 1 ELSE short
                /\ cid' = IF Head(expect).kind = "cid" THEN v ELSE cid
                /\ shown' = IF Head(expect).kind \in Printed
                            THEN Append(shown, Field(Head(expect).kind, v)) ELSE shown
                /\ IF Head(expect).kind = "error" /\ v \in {-1, -2}
                   THEN expect' = <<>> /\ cpc' = "Exit1" /\ ctrlEnd' = "closed"
                   ELSE expect' = After(v) /\ UNCHANGED <<cpc, ctrlEnd>>
    /\ UNCHANGED <<request, sending, info, server, serverEnd, toServer, history>>

\* The server has closed the connection.
CtrlReadFails ==
    /\ Reads(OfAnswer)
    /\ toCtrl = <<>> /\ serverEnd = "closed"
    /\ CtrlExits("Exit1")

CtrlReadFailsInEntry ==
    /\ Reads(InEntry)
    /\ toCtrl = <<>> /\ serverEnd = "closed"
    /\ expect' = SkipEntry
    /\ UNCHANGED <<cpc, request, sending, cid, info, shown, server, net, history>>

\* GetCInfoWifi fills in the CInfoWifi when it has read all of it.
CtrlStores ==
    /\ Reads({"store"})
    /\ info' = cid
    /\ expect' = Tail(expect)
    /\ UNCHANGED <<cpc, request, sending, cid, shown, server, net, history>>

CtrlPrints ==
    /\ Reads({"S", "C"})
    /\ shown' = Append(shown, Field(Head(expect).kind, info))
    /\ expect' = Tail(expect)
    /\ UNCHANGED <<cpc, request, sending, cid, info, server, net, history>>

\* The order is done; AskShow goes on with AskList.
CtrlDone ==
    /\ cpc = "run" /\ sending = <<>> /\ expect = <<>>
    /\ IF request.order = TORDER_SHOW
       THEN cpc' = "connect" /\ request' = [order |-> TORDER_LIST, args |-> <<>>]
       ELSE cpc' = "Exit0" /\ UNCHANGED request
    /\ ctrlEnd' = "closed"
    /\ UNCHANGED <<sending, expect, cid, info, shown, server, serverEnd, toServer, toCtrl, short,
                   history>>

\* vwifi-ctrl is killed, or its host is lost and the connection stays open.
CtrlStops ==
    /\ CtrlMayStop /\ cpc = "run"
    /\ \/ CtrlExits("Killed")
       \/ /\ cpc' = "Gone"
          /\ UNCHANGED <<request, sending, expect, cid, info, shown, server, net, history>>

CtrlStep ==
    \/ Connect \/ CtrlSends \/ CtrlSendFails \/ CtrlReads \/ CtrlReadFails \/ CtrlReadFailsInEntry
    \/ CtrlStores \/ CtrlPrints \/ CtrlDone

-----------------------------------------------------------------------------
(***************************************************************************)
(* The control server                                                      *)
(***************************************************************************)

\* ReceiveOrder accepts the connection; GetOrder reads the order first.
Accept ==
    /\ spc = "idle" /\ serverEnd = "backlog"
    /\ spc' = "read" /\ serverEnd' = "open"
    /\ reading' = Items(<<"order">>) /\ args' = <<>>
    /\ UNCHANGED <<ctrl, order, replying, lists, ctrlEnd, toServer, toCtrl, short, history>>

\* CCTRLServer::Read, once for the order and once for each argument.
ServerReads ==
    /\ spc = "read" /\ reading # <<>>
    /\ toServer # <<>>
    /\ LET n == IF Len(toServer) < Head(reading).size THEN Len(toServer) ELSE Head(reading).size
       IN  /\ toServer' = SubSeq(toServer, n + 1, Len(toServer))
           /\ \E v \in Values(SubSeq(toServer, 1, n)) :
                 IF Head(reading).kind = "order"
                 THEN order' = v /\ reading' = Arguments(v) /\ UNCHANGED args
                 ELSE args' = Append(args, v) /\ reading' = Tail(reading) /\ UNCHANGED order
    /\ UNCHANGED <<ctrl, spc, replying, lists, ctrlEnd, serverEnd, toCtrl, short, history>>

\* Mutant of CloseClient: the connection is forgotten, not closed.
CloseClientForgets ==
    /\ spc' = "idle"
    /\ UNCHANGED <<ctrl, order, args, reading, replying, lists, net, history>>

\* ReceiveOrder ends with CloseClient(0).
CloseClient ==
    /\ spc' = "idle"
    /\ serverEnd' = "closed"
    /\ UNCHANGED <<ctrl, order, args, reading, replying, lists, ctrlEnd, toServer, toCtrl, short,
                   history>>

\* Mutant of ServerReadFails: a connection without SO_RCVTIMEO.
ServerReadFailsAtEnd ==
    /\ spc = "read" /\ reading # <<>>
    /\ toServer = <<>> /\ ctrlEnd = "closed"
    /\ CloseClient

\* recv() fails: at the end of the connection, or after SO_RCVTIMEO.
ServerReadFails ==
    /\ spc = "read" /\ reading # <<>>
    /\ toServer = <<>>
    /\ CloseClient

\* recv() waits: SO_RCVTIMEO is not over.
ServerWaits == spc = "read" /\ reading # <<>> /\ toServer = <<>> /\ UNCHANGED vars

\* Mutant of Execute: SetName does not wait for the name.
ExecuteEarly ==
    /\ spc = "read" /\ (reading # <<>> => Head(reading).kind = "name")
    /\ executed' = Append(executed, [order |-> order, args |-> args])
    /\ snapshot' = lists
    /\ replying' = Reply(order, args, lists)
    /\ spc' = "reply"
    /\ UNCHANGED <<ctrl, order, args, reading, lists, net, asked>>

\* The order is carried out, all of its arguments having been read; what it
\* does to the lists is in VwifiServer.
Execute ==
    /\ spc = "read" /\ reading = <<>>
    /\ executed' = Append(executed, [order |-> order, args |-> args])
    /\ snapshot' = lists
    /\ replying' = Reply(order, args, lists)
    /\ spc' = "reply"
    /\ UNCHANGED <<ctrl, order, args, reading, lists, net, asked>>

ServerSends ==
    /\ spc = "reply" /\ replying # <<>>
    /\ toCtrl' = toCtrl \o Bytes(Head(replying))
    /\ replying' = Tail(replying)
    /\ UNCHANGED <<ctrl, spc, order, args, reading, lists, ctrlEnd, serverEnd, toServer, short,
                   history>>

\* A vwifi-ctrl that has ended: send() fails, or raises SIGPIPE.
ServerSendFails ==
    /\ spc = "reply" /\ replying # <<>>
    /\ ctrlEnd = "closed"
    /\ \/ CloseClient
       \/ /\ spc' = "Killed"
          /\ serverEnd' = "closed"
          /\ UNCHANGED <<ctrl, order, args, reading, replying, lists, ctrlEnd, toServer, toCtrl,
                         short, history>>

OrderDone ==
    /\ spc = "reply" /\ replying = <<>>
    /\ CloseClient

ServerStep ==
    \/ Accept \/ ServerReads \/ ServerReadFails \/ Execute \/ ServerSends \/ ServerSendFails
    \/ OrderDone

\* Between two orders guests come and go.
ListsChange ==
    /\ spc = "idle" /\ cpc \notin Ended
    /\ lists' \in Lists
    /\ UNCHANGED <<ctrl, spc, order, args, reading, replying, net, history>>

\* ConnectLoop goes round for ever when there is no server any more.
ConnectRefused == cpc = "connect" /\ spc = "Killed" /\ UNCHANGED vars

\* Both sides are done with each other.
Over == cpc \in Ended /\ spc \in {"idle", "Killed"} /\ serverEnd # "backlog" /\ UNCHANGED vars

Next == CtrlStep \/ CtrlStops \/ ServerStep \/ ServerWaits \/ ListsChange \/ ConnectRefused \/ Over

Spec == Init /\ [][Next]_vars

\* Both processes are scheduled; ServerStep contains the end of the timeout.
FairSpec == Spec /\ WF_vars(CtrlStep) /\ WF_vars(ServerStep)

-----------------------------------------------------------------------------
(***************************************************************************)
(* Properties                                                              *)
(***************************************************************************)

\* What vwifi-ctrl should print once the order has been executed: the
\* connected spies and clients, the settings, the distance if both guests
\* are known.
Truth ==
    LET done == executed[Len(executed)]
        lines(list, line) == [i \in 1..Len(Enabled(list)) |-> Field(line, Enabled(list)[i].cid)]
    IN  IF Len(executed) < Len(asked) \/ executed = <<>> THEN <<>>
        ELSE CASE done.order = TORDER_LIST ->
                    lines(snapshot.spies, "S") \o lines(snapshot.clients, "C")
               [] done.order = TORDER_SHOW -> SendShow(snapshot)
               [] done.order = TORDER_STATUS -> SendStatus(snapshot)
               [] /\ done.order = TORDER_DISTANCE_BETWEEN_CID
                  /\ \A i \in 1..2 : Known(snapshot, done.args[i]) -> <<Field("distance", 0)>>
               [] OTHER -> <<>>

\* What vwifi-ctrl prints is true, line by line, and complete when it ends
\* an order without an error: "List the Clients", "Display the status".
AnswerAgrees ==
    /\ IsPrefix(shown, Truth)
    /\ (cpc = "run" /\ sending = <<>> /\ expect = <<>>) => shown = Truth

\* Both programs agree on the fields of every answer, as long as no entry is
\* disabled and every recv() of vwifi-ctrl returns what it was asked for.
AnswerIsTrue ==
    (/\ short = MaxShort
     /\ Enabled(snapshot.spies) = snapshot.spies
     /\ Enabled(snapshot.clients) = snapshot.clients)
        => AnswerAgrees

\* The server carries out what the user asked for, whole and in order, and
\* nothing else, wherever vwifi-ctrl stops.
OrderIsWhole == IsPrefix(executed, asked)

\* vwifi-ctrl does not wait for ever, even for entries that do not come: the
\* server closes the connection after every order.  (Only if the server dies
\* between the two orders of show does it try to connect for ever.)
SessionEnds == <>(cpc \in Ended \/ (cpc = "connect" /\ spc = "Killed"))

\* The control connection does not hold up the main loop of the server: not
\* even a vwifi-ctrl that falls silent in the middle of its order.
ServerFree == spc # "idle" ~> spc \in {"idle", "Killed"}

=============================================================================
