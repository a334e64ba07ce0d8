----------------------------- MODULE WireFrames -----------------------------
(***************************************************************************)
(* Frames on their way: from the driver of a guest through its socket to   *)
(* vwifi-server, and from there to the other guests.  A frame is sent as a *)
(* power (one byte) and a netlink message, whose header says how long the  *)
(* message is; both sides of every connection read it with                 *)
(* CWifi::RecvSignalWithSocket into a buffer that they use again for the   *)
(* next frame.  A socket carries bytes: a read returns some of what was    *)
(* sent, a connection may end, or fall silent, after any byte.             *)
(*                                                                         *)
(* The order in which the server serves the guests, and how a guest finds  *)
(* its way back to the server, are in VwifiServer and VwifiClient.         *)
(***************************************************************************)
EXTENDS Integers, Sequences

CONSTANTS
    Guests,
    Server,               \* the other reader
    HeaderSize,           \* sizeof(struct nlmsghdr)
    MTU,                  \* the longest message that is read
    DEFAULT_SIZE_BUFFER,
    Sizes,                \* how long the messages of the driver may be
    Overtake,             \* may a guest reconnect while a thread of it is in a frame?
    MaxFrames,            \* bound: how many frames are transmitted
    Capacity,             \* bound: the bytes that fit into a connection
    MaxEnds               \* bound: how often the server or a guest ends

ASSUME WireAssumption ==
    /\ Server \notin Guests
    /\ HeaderSize \in Nat \ {0} /\ MTU \in Nat /\ DEFAULT_SIZE_BUFFER \in Nat
    /\ HeaderSize <= DEFAULT_SIZE_BUFFER /\ HeaderSize <= MTU
    /\ Sizes \subseteq {s \in Nat : s >= HeaderSize}
    /\ Overtake \in BOOLEAN
    /\ MaxFrames \in Nat /\ Capacity \in Nat \ {0} /\ MaxEnds \in Nat

Reader == Guests \cup {Server}

\* Byte pos of frame number frame; the power is byte 0.
Byte == [frame : 1..MaxFrames, pos : Nat]

\* What new char[] finds in memory.
Junk == [frame |-> 0, pos |-> 0]

\* How far a reader is: pos bytes of the total are in Buffer.
Stage == {"idle", "power", "head", "rest", "done", "failed", "send"}

Reading == [at : Stage, pos : Nat, total : Nat, Buffer : Seq(Byte \cup {Junk})]

VARIABLES
    frames,     \* the frames the drivers have transmitted, [from, len]
    out,        \* what the hwsim thread of each guest has still to send
    connected,  \* _connected_to_server of each guest
    conn,       \* kernel: the connection of each guest
    up, down,   \* kernel: the bytes in it, to the server and to the guest
    rd,         \* how far each reader is in RecvSignalWithSocket, and its Buffer
    src,        \* the guest whose frame the server handles
    to,         \* the guests it has still to be sent to
    dst,        \* the one it is being sent to
    sending,    \* what is left to send to it
    given,      \* what the driver of each guest was given
    ends        \* what is left of the bound

server == <<src, to, dst, sending>>
vars   == <<frames, out, connected, conn, up, down, rd, server, given, ends>>

CDynBuffer == [i \in 1..DEFAULT_SIZE_BUFFER |-> Junk]

NewReader == [at |-> "idle", pos |-> 0, total |-> 0, Buffer |-> CDynBuffer]

Init ==
    /\ frames = <<>>
    /\ out = [g \in Guests |-> <<>>]
    /\ connected = [g \in Guests |-> TRUE]
    /\ conn = [g \in Guests |-> "open"]
    /\ up = [g \in Guests |-> <<>>] /\ down = [g \in Guests |-> <<>>]
    /\ rd = [r \in Reader |-> NewReader]
    /\ src = Server /\ to = {} /\ dst = Server /\ sending = <<>>
    /\ given = [g \in Guests |-> {}]
    /\ ends = MaxEnds

\* The netlink message of frame k, of len bytes, and the power sent before it.
Message(k, len) == [i \in 1..len |-> [frame |-> k, pos |-> i]]

Power(k) == <<[frame |-> k, pos |-> 0]>>

Drop(bytes, n) == SubSeq(bytes, n + 1, Len(bytes))

-----------------------------------------------------------------------------
(***************************************************************************)
(* CDynBuffer                                                              *)
(***************************************************************************)

Allocate(buffer, size, keepValues) ==
    [i \in 1..size |-> IF keepValues /\ i <= Len(buffer) THEN buffer[i] ELSE Junk]

\* Mutant of NeededSize: the size that is compared is one too small.
NeededSizeShort(buffer, size, keepValues) ==
    IF size <= Len(buffer) + 1 THEN buffer ELSE Allocate(buffer, size, keepValues)

NeededSize(buffer, size, keepValues) ==
    IF size <= Len(buffer) THEN buffer ELSE Allocate(buffer, size, keepValues)

\* recv() writes bytes behind the first pos bytes of the buffer.
Filled(buffer, pos, bytes) ==
    [i \in 1..Len(buffer) |-> IF i - pos \in 1..Len(bytes) THEN bytes[i - pos] ELSE buffer[i]]

-----------------------------------------------------------------------------
(***************************************************************************)
(* RecvSignalWithSocket                                                    *)
(***************************************************************************)

\* The connection that reader r reads, and the bytes in it.
Peer(r) == IF r = Server THEN src ELSE r

In(r) == IF r # Server THEN down[r] ELSE IF src = Server THEN <<>> ELSE up[src]

Takes(r, n) ==
    IF r = Server THEN up' = [up EXCEPT ![src] = Drop(@, n)] /\ UNCHANGED down
                  ELSE down' = [down EXCEPT ![r] = Drop(@, n)] /\ UNCHANGED up

\* How many bytes ReadEqualSize is to read in all.
SizeToRead(r) == IF rd[r].at = "head" THEN HeaderSize ELSE rd[r].total

\* The power is one byte, which one Read gets.
ReadPower(r) ==
    /\ rd[r].at = "power"
    /\ In(r) # <<>>
    /\ Takes(r, 1)
    /\ rd' = [rd EXCEPT ![r] = [at |-> "head", pos |-> 0, total |-> @.total,
                                Buffer |-> NeededSize(@.Buffer, HeaderSize, FALSE)]]
    /\ UNCHANGED <<frames, out, connected, conn, server, given, ends>>

\* ReadEqualSize: a Read returns n of the bytes that are missing.
ReadSome(r, n) ==
    /\ rd[r].at \in {"head", "rest"}
    /\ n <= SizeToRead(r) - rd[r].pos
    /\ Takes(r, n)
    /\ rd' = [rd EXCEPT ![r] =
                [at |-> @.at, pos |-> @.pos + n, total |-> @.total,
                 Buffer |-> Filled(@.Buffer, @.pos, SubSeq(In(r), 1, n))]]
    /\ UNCHANGED <<frames, out, connected, conn, server, given, ends>>

\* nlmsg_len of the header in the buffer: anything when it is no header.
NlmsgLen(buffer) ==
    LET whole == {k \in DOMAIN frames :
                    \A i \in 1..HeaderSize : buffer[i] = [frame |-> k, pos |-> i]}
    IN  IF whole # {} THEN {frames[k].len : k \in whole} ELSE 0..(MTU + 1)

\* The header is there: the size of the message is compared with the MTU.
ReadHeader(r) ==
    /\ rd[r].at = "head"
    /\ rd[r].pos = HeaderSize
    /\ \E len \in NlmsgLen(rd[r].Buffer) :
           rd' = [rd EXCEPT ![r] =
                    IF len > MTU
                    THEN [@ EXCEPT !.at = "failed"]
                    ELSE [at |-> "rest", pos |-> @.pos, total |-> len,
                          Buffer |-> NeededSize(@.Buffer, len, TRUE)]]
    /\ UNCHANGED <<frames, out, connected, conn, up, down, server, given, ends>>

ReadDone(r) ==
    /\ rd[r].at = "rest"
    /\ rd[r].pos >= rd[r].total
    /\ rd' = [rd EXCEPT ![r].at = "done"]
    /\ UNCHANGED <<frames, out, connected, conn, up, down, server, given, ends>>

\* Mutant of ReadFails: the sockets of the server have no timeout.
ReadFailsAtEnd(r) ==
    /\ \/ rd[r].at = "power"
       \/ rd[r].at \in {"head", "rest"} /\ rd[r].pos < SizeToRead(r)
    /\ In(r) = <<>>
    /\ conn[Peer(r)] \in {"left", "closed"}
    /\ rd' = [rd EXCEPT ![r].at = "failed"]
    /\ UNCHANGED <<frames, out, connected, conn, up, down, server, given, ends>>

\* recv() finds no byte: the other end is closed, or, at the server, has sent
\* nothing for the time of SO_RCVTIMEO.
ReadFails(r) ==
    /\ \/ rd[r].at = "power"
       \/ rd[r].at \in {"head", "rest"} /\ rd[r].pos < SizeToRead(r)
    /\ In(r) = <<>>
    /\ conn[Peer(r)] \in {"left", "closed"} \/ (r = Server /\ rd[r].at # "power")
    /\ rd' = [rd EXCEPT ![r].at = "failed"]
    /\ UNCHANGED <<frames, out, connected, conn, up, down, server, given, ends>>

RecvSignal(r) ==
    \/ ReadPower(r) \/ (\E n \in 1..Len(In(r)) : ReadSome(r, n))
    \/ ReadHeader(r) \/ ReadDone(r) \/ ReadFails(r)

-----------------------------------------------------------------------------
(***************************************************************************)
(* The server                                                              *)
(***************************************************************************)
ServerAt(label) == rd[Server].at = label

ServerGoes(label) == rd' = [rd EXCEPT ![Server].at = label]

\* ForwardData: guest g is enabled and has input.
ServerSelects(g) ==
    /\ ServerAt("idle")
    /\ \/ conn[g] = "open" /\ up[g] # <<>>
       \/ conn[g] = "left"
    /\ src' = g
    /\ ServerGoes("power")
    /\ UNCHANGED <<frames, out, connected, conn, up, down, to, dst, sending, given, ends>>

\* RecvSignal has failed: RemoveClient closes the connection.
ServerRemoves ==
    /\ ServerAt("failed")
    /\ conn' = [conn EXCEPT ![src] = "closed"]
    /\ up' = [up EXCEPT ![src] = <<>>]
    /\ src' = Server
    /\ ServerGoes("idle")
    /\ UNCHANGED <<frames, out, connected, down, to, dst, sending, given, ends>>

\* Mutant of ServerForwards: the guest that has sent the frame is not left out.
ServerForwardsToAll ==
    /\ ServerAt("done")
    /\ to' = {g \in Guests : conn[g] \in {"open", "left"}}
    /\ ServerGoes("send")
    /\ UNCHANGED <<frames, out, connected, conn, up, down, src, dst, sending, given, ends>>

\* SendAllOtherClients: the other guests that are enabled.
ServerForwards ==
    /\ ServerAt("done")
    /\ to' = {g \in Guests \ {src} : conn[g] \in {"open", "left"}}
    /\ ServerGoes("send")
    /\ UNCHANGED <<frames, out, connected, conn, up, down, src, dst, sending, given, ends>>

\* The frame is lost on the way to g (PacketIsLost).
ServerLoses(g) ==
    /\ ServerAt("send") /\ sending = <<>>
    /\ g \in to
    /\ to' = to \ {g}
    /\ UNCHANGED <<frames, out, connected, conn, up, down, rd, src, dst, sending, given, ends>>

\* Mutant of ServerBegins: all of Buffer is sent.
ServerBeginsAll(g) ==
    /\ ServerAt("send") /\ sending = <<>>
    /\ g \in to
    /\ dst' = g
    /\ to' = to \ {g}
    /\ sending' = Power(rd[Server].Buffer[1].frame) \o rd[Server].Buffer
    /\ UNCHANGED <<frames, out, connected, conn, up, down, rd, src, given, ends>>

\* SendSignal to g: the power at the place of g, and valread bytes of Buffer.
ServerBegins(g) ==
    /\ ServerAt("send") /\ sending = <<>>
    /\ g \in to
    /\ dst' = g
    /\ to' = to \ {g}
    /\ sending' = Power(rd[Server].Buffer[1].frame)
                     \o SubSeq(rd[Server].Buffer, 1, rd[Server].total)
    /\ UNCHANGED <<frames, out, connected, conn, up, down, rd, src, given, ends>>

\* send() copies n bytes into the connection; those for a guest that has left
\* are lost.
ServerSends(n) ==
    /\ conn[dst] = "left" \/ Len(down[dst]) + n <= Capacity
    /\ down' = IF conn[dst] = "left" THEN down
               ELSE [down EXCEPT ![dst] = @ \o SubSeq(sending, 1, n)]
    /\ sending' = Drop(sending, n)
    /\ UNCHANGED <<frames, out, connected, conn, up, rd, src, to, dst, given, ends>>

\* Mutant of ServerSendFails: a send() that copied less is taken for a success.
ServerSendFailsUnseen ==
    /\ sending # <<>>
    /\ conn[dst] = "left" \/ Len(down[dst]) = Capacity
    /\ sending' = <<>>
    /\ UNCHANGED <<frames, out, connected, conn, up, down, rd, src, to, dst, given, ends>>

\* send() returns less than it was given: the guest has left, or has read
\* nothing for the time of SO_SNDTIMEO.  DisableIt: the entry is erased in the
\* next ForwardData, by a Close that does not close what is disabled.
ServerSendFails ==
    /\ sending # <<>>
    /\ conn[dst] = "left" \/ Len(down[dst]) = Capacity
    /\ conn' = [conn EXCEPT ![dst] = IF @ = "left" THEN "closed" ELSE "leaked"]
    /\ sending' = <<>>
    /\ UNCHANGED <<frames, out, connected, up, down, rd, src, to, dst, given, ends>>

ServerForwarded ==
    /\ ServerAt("send") /\ sending = <<>> /\ to = {}
    /\ src' = Server /\ dst' = Server
    /\ ServerGoes("idle")
    /\ UNCHANGED <<frames, out, connected, conn, up, down, to, sending, given, ends>>

ServerStep ==
    \/ \E g \in Guests : ServerSelects(g) \/ ServerLoses(g) \/ ServerBegins(g)
    \/ RecvSignal(Server)
    \/ ServerRemoves \/ ServerForwards
    \/ \E n \in 1..Len(sending) : ServerSends(n)
    \/ ServerSendFails \/ ServerForwarded

\* The server ends, and a new one begins.
ServerEnds ==
    /\ ends > 0
    /\ ends' = ends - 1
    /\ conn' = [g \in Guests |-> "closed"]
    /\ up' = [g \in Guests |-> <<>>]
    /\ rd' = [rd EXCEPT ![Server] = NewReader]
    /\ src' = Server /\ to' = {} /\ dst' = Server /\ sending' = <<>>
    /\ UNCHANGED <<frames, out, connected, down, given>>

-----------------------------------------------------------------------------
(***************************************************************************)
(* A guest                                                                 *)
(***************************************************************************)

\* process_messages: the driver transmits a frame of s bytes.
Transmit(g, s) ==
    /\ connected[g]
    /\ out[g] = <<>>
    /\ Len(frames) < MaxFrames
    /\ frames' = Append(frames, [from |-> g, len |-> s])
    /\ out' = [out EXCEPT ![g] = Power(Len(frames) + 1) \o Message(Len(frames) + 1, s)]
    /\ UNCHANGED <<connected, conn, up, down, rd, server, given, ends>>

\* send() copies n bytes into the connection.
GuestSends(g, n) ==
    /\ conn[g] \in {"open", "leaked"}
    /\ Len(up[g]) + n <= Capacity
    /\ up' = [up EXCEPT ![g] = @ \o SubSeq(out[g], 1, n)]
    /\ out' = [out EXCEPT ![g] = Drop(@, n)]
    /\ UNCHANGED <<frames, connected, conn, down, rd, server, given, ends>>

\* The connection is closed: what is left of the frame is lost.
GuestSendFails(g) ==
    /\ out[g] # <<>>
    /\ conn[g] = "closed"
    /\ out' = [out EXCEPT ![g] = <<>>]
    /\ connected' = [connected EXCEPT ![g] = FALSE]
    /\ UNCHANGED <<frames, conn, up, down, rd, server, given, ends>>

\* recv_from_server: the scheduler reports the connection.
GuestWakes(g) ==
    /\ rd[g].at = "idle"
    /\ connected[g]
    /\ down[g] # <<>> \/ conn[g] = "closed"
    /\ rd' = [rd EXCEPT ![g].at = "power"]
    /\ UNCHANGED <<frames, out, connected, conn, up, down, server, given, ends>>

\* The frame that a buffer begins with, 0 for anything else.
FrameIn(buffer) ==
    LET IsIn(k, len) == len <= Len(buffer) /\ SubSeq(buffer, 1, len) = Message(k, len)
        whole        == {k \in DOMAIN frames : IsIn(k, frames[k].len)}
    IN  IF whole # {} THEN CHOOSE k \in whole : TRUE ELSE 0

\* The frame is cloned for the interfaces.
GuestHandsOn(g) ==
    /\ rd[g].at = "done"
    /\ given' = [given EXCEPT ![g] = @ \cup
                   {[frame |-> FrameIn(SubSeq(rd[g].Buffer, 1, rd[g].total)), read |-> TRUE]}]
    /\ rd' = [rd EXCEPT ![g].at = "idle"]
    /\ UNCHANGED <<frames, out, connected, conn, up, down, server, ends>>

\* Mutant of GuestReadFailed: the frame that was begun is handed on.
GuestReadFailedShort(g) ==
    /\ rd[g].at = "failed"
    /\ connected' = [connected EXCEPT ![g] = FALSE]
    /\ given' = [given EXCEPT ![g] = @ \cup {[frame |-> rd[g].Buffer[1].frame, read |-> FALSE]}]
    /\ rd' = [rd EXCEPT ![g].at = "idle"]
    /\ UNCHANGED <<frames, out, conn, up, down, server, ends>>

\* manage_server_crash; and then recv_from_server goes on with what is in Buffer.
GuestReadFailed(g) ==
    /\ rd[g].at = "failed"
    /\ connected' = [connected EXCEPT ![g] = FALSE]
    /\ given' = [given EXCEPT ![g] = @ \cup {[frame |-> FrameIn(rd[g].Buffer), read |-> FALSE]}]
    /\ rd' = [rd EXCEPT ![g].at = "idle"]
    /\ UNCHANGED <<frames, out, conn, up, down, server, ends>>

\* reconnect_to_server: _Close, _Connect, and the server accepts.  A thread that is
\* in a frame has kept the number of the old descriptor, which the new
\* socket gets: it goes on there, except when it is in the middle of a send().
Reconnect(g) ==
    /\ ~connected[g]
    /\ ServerAt("idle")
    /\ Overtake \/ (rd[g].at = "idle" /\ out[g] = <<>>)
    /\ connected' = [connected EXCEPT ![g] = TRUE]
    /\ conn' = [conn EXCEPT ![g] = "open"]
    /\ up' = [up EXCEPT ![g] = <<>>] /\ down' = [down EXCEPT ![g] = <<>>]
    /\ out' = [out EXCEPT ![g] = IF @ # <<>> /\ Head(@).pos <= 1 THEN @ ELSE <<>>]
    /\ UNCHANGED <<frames, rd, server, given, ends>>

\* The guest ends, wherever it is, and begins again.
GuestEnds(g) ==
    /\ ends > 0
    /\ ends' = ends - 1
    /\ connected' = [connected EXCEPT ![g] = FALSE]
    /\ conn' = [conn EXCEPT ![g] = IF @ \in {"open", "left"} THEN "left" ELSE "closed"]
    /\ out' = [out EXCEPT ![g] = <<>>]
    /\ down' = [down EXCEPT ![g] = <<>>]
    /\ rd' = [rd EXCEPT ![g] = NewReader]
    /\ UNCHANGED <<frames, up, server, given>>

GuestStep(g) ==
    \/ \E s \in Sizes : Transmit(g, s)
    \/ (\E n \in 1..Len(out[g]) : GuestSends(g, n)) \/ GuestSendFails(g)
    \/ GuestWakes(g) \/ RecvSignal(g) \/ GuestHandsOn(g) \/ GuestReadFailed(g)
    \/ Reconnect(g) \/ GuestEnds(g)

-----------------------------------------------------------------------------
Next == ServerStep \/ ServerEnds \/ \E g \in Guests : GuestStep(g)

Spec == Init /\ [][Next]_vars

\* The server is scheduled by its operating system.
FairSpec == Spec /\ WF_vars(ServerStep)

-----------------------------------------------------------------------------
(***************************************************************************)
(* Properties                                                              *)
(***************************************************************************)

\* The type of every variable.
WireTypeOK ==
    /\ frames \in Seq([from : Guests, len : Sizes])
    /\ out \in [Guests -> Seq(Byte)]
    /\ connected \in [Guests -> BOOLEAN]
    /\ conn \in [Guests -> {"open", "left", "closed", "leaked"}]
    /\ up \in [Guests -> Seq(Byte)] /\ down \in [Guests -> Seq(Byte)]
    /\ rd \in [Reader -> Reading]
    /\ src \in Guests \cup {Server} /\ dst \in Guests \cup {Server}
    /\ to \subseteq Guests
    /\ sending \in Seq(Byte)
    /\ given \in [Guests -> SUBSET [frame : 0..MaxFrames, read : BOOLEAN]]
    /\ ends \in Nat

\* Nothing is read into memory behind the buffer, which grows to the longest
\* message and no further: "to avoid that a error packet overfulls the memory".
BufferFits ==
    \A r \in Reader :
        /\ rd[r].at \in {"head", "rest"} => SizeToRead(r) <= Len(rd[r].Buffer)
        /\ Len(rd[r].Buffer) <= DEFAULT_SIZE_BUFFER \/ Len(rd[r].Buffer) <= MTU

\* Both readers stay in step with their senders, wherever reads are cut: the
\* next byte in a connection is the one its reader takes it for.
InStep ==
    \A r \in Reader :
        In(r) # <<>> =>
            /\ rd[r].at = "power" => Head(In(r)).pos = 0
            /\ rd[r].at \in {"head", "rest"} /\ rd[r].pos < SizeToRead(r) =>
                   /\ Head(In(r)).pos = rd[r].pos + 1
                   /\ rd[r].pos > 0 => Head(In(r)).frame = rd[r].Buffer[1].frame

\* A read that failed gives the driver no frame it has not had before: what it
\* hands on is no frame at all, or one that was handed on already.
FailedReadAddsNothing ==
    \A g \in Guests : \A x \in given[g] :
        ~x.read /\ x.frame # 0 => [x EXCEPT !.read = TRUE] \in given[g]

\* What the guests have read.
Got == [g \in Guests |-> {x.frame : x \in {y \in given[g] : y.read}}]

Medium == INSTANCE FrameMedium WITH got <- Got

\* Sockets that carry bytes, buffers that are used again, ends and timeouts in the
\* middle of frames implement a medium that carries whole frames and may lose some.
ImplementsMedium == Medium!Spec

\* No guest keeps the server: it comes back to its loop from every read and
\* every send, whether the guest goes on, falls silent or ends.
ServerComesBack == ~ServerAt("idle") ~> ServerAt("idle")

=============================================================================
