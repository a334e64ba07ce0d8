-------------------------- MODULE WireFramesProofs --------------------------
(***************************************************************************)
(* What the two sides of every connection keep for every number of guests, *)
(* of frames and of ends, every size of frames and every way in which      *)
(* reads and sends are cut: the types; that the buffers have room for what *)
(* is read into them; and, when no reconnection overtakes a thread that is *)
(* inside a frame, that the readers stay in step with the senders, that a  *)
(* read that failed gives no new frame, and that the whole is a medium     *)
(* (FrameMedium) that carries whole frames, in order and each at most once.*)
(***************************************************************************)
EXTENDS WireFrames, SequenceTheorems, NaturalsInduction, WellFoundedInduction, TLAPS

-----------------------------------------------------------------------------
(***************************************************************************)
(* Buffers and bytes                                                       *)
(***************************************************************************)

\* What a buffer may hold.
Cell == Byte \cup {Junk}

\* A function on 1..n is a sequence.
LEMMA FunctionIsSeq ==
    ASSUME NEW S, NEW n \in Nat, NEW f \in [1..n -> S]
    PROVE  f \in Seq(S) /\ Len(f) = n
<1>1. f \in Seq(S)
  BY SeqDef, Zenon
<1>2. DOMAIN f = 1..n /\ DOMAIN f = 1..Len(f) /\ Len(f) \in Nat
  BY <1>1, LenProperties
<1>3. Len(f) = n
  BY <1>2
<1>. QED
  BY <1>1, <1>3

\* NeededSize makes room.
LEMMA NeededSizeFits ==
    ASSUME NEW b \in Seq(Cell), NEW size \in Nat, NEW keep \in BOOLEAN
    PROVE  /\ NeededSize(b, size, keep) \in Seq(Cell)
           /\ Len(NeededSize(b, size, keep)) = IF size <= Len(b) THEN Len(b) ELSE size
<1>1. CASE size <= Len(b)
  BY <1>1 DEF NeededSize
<1>2. CASE ~(size <= Len(b))
  <2>. DEFINE a == Allocate(b, size, keep)
  <2>1. a \in [1..size -> Cell]
    BY DEF Allocate, Cell
  <2>2. a \in Seq(Cell) /\ Len(a) = size
    BY <2>1, FunctionIsSeq
  <2>. HIDE DEF a
  <2>. QED
    BY <1>2, <2>2 DEF NeededSize, a
<1>. QED
  BY <1>1, <1>2

\* When asked to, it keeps what there is.
LEMMA NeededSizeKeeps ==
    ASSUME NEW b \in Seq(Cell), NEW size \in Nat
    PROVE  \A i \in 1..Len(b) : NeededSize(b, size, TRUE)[i] = b[i]
<1>1. CASE size <= Len(b)
  BY <1>1 DEF NeededSize
<1>2. CASE ~(size <= Len(b))
  BY <1>2 DEF NeededSize, Allocate
<1>. QED
  BY <1>1, <1>2

\* recv() changes the bytes behind the first pos and no others.
LEMMA FilledBuffer ==
    ASSUME NEW b \in Seq(Cell), NEW pos \in Nat, NEW bytes \in Seq(Byte), pos + Len(bytes) <= Len(b)
    PROVE  /\ Filled(b, pos, bytes) \in Seq(Cell)
           /\ Len(Filled(b, pos, bytes)) = Len(b)
           /\ \A i \in 1..pos : Filled(b, pos, bytes)[i] = b[i]
           /\ \A i \in 1..Len(bytes) : Filled(b, pos, bytes)[pos + i] = bytes[i]
<1>. DEFINE a == Filled(b, pos, bytes)
<1>1. a \in [1..Len(b) -> Cell]
  BY DEF Filled, Cell
<1>2. a \in Seq(Cell) /\ Len(a) = Len(b)
  BY <1>1, FunctionIsSeq, SMTT(30)
<1>3. ASSUME NEW i \in 1..pos PROVE a[i] = b[i]
  <2>1. ~(i - pos \in 1..Len(bytes)) /\ i \in 1..Len(b)
    OBVIOUS
  <2>. QED
    BY <2>1 DEF Filled
<1>4. ASSUME NEW i \in 1..Len(bytes) PROVE a[pos + i] = bytes[i]
  <2>1. pos + i \in 1..Len(b) /\ (pos + i) - pos = i
    OBVIOUS
  <2>. QED
    BY <2>1 DEF Filled
<1>. HIDE DEF a
<1>. QED
  BY <1>2, <1>3, <1>4 DEF a

\* What is left after n bytes, and the n bytes.
LEMMA Dropped ==
    ASSUME NEW S, NEW s \in Seq(S), NEW n \in 0..Len(s)
    PROVE  /\ Drop(s, n) \in Seq(S) /\ Len(Drop(s, n)) = Len(s) - n
           /\ \A i \in 1..(Len(s) - n) : Drop(s, n)[i] = s[n + i]
           /\ SubSeq(s, 1, n) \in Seq(S) /\ Len(SubSeq(s, 1, n)) = n
           /\ \A i \in 1..n : SubSeq(s, 1, n)[i] = s[i]
  BY DEF Drop

\* Bytes behind other bytes.
LEMMA Joined ==
    ASSUME NEW S, NEW a \in Seq(S), NEW b \in Seq(S)
    PROVE  /\ a \o b \in Seq(S) /\ Len(a \o b) = Len(a) + Len(b)
           /\ \A i \in 1..Len(a) : (a \o b)[i] = a[i]
           /\ \A i \in 1..Len(b) : (a \o b)[Len(a) + i] = b[i]
  OBVIOUS

\* The bytes c are those of a, and behind them those of b.
IsJoined(c, a, b) ==
    /\ Len(c) = Len(a) + Len(b)
    /\ \A i \in 1..Len(a) : c[i] = a[i]
    /\ \A i \in 1..Len(b) : c[Len(a) + i] = b[i]

\* That is what bytes behind others are.
LEMMA JoinedBytes ==
    ASSUME NEW a \in Seq(Byte), NEW b \in Seq(Byte)
    PROVE  IsJoined(a \o b, a, b)
  BY Joined DEF IsJoined

\* The bytes of a frame.
LEMMA FrameBytes ==
    ASSUME NEW k \in 1..MaxFrames, NEW len \in Nat
    PROVE  /\ Power(k) \in Seq(Byte) /\ Len(Power(k)) = 1 /\ Power(k)[1] = [frame |-> k, pos |-> 0]
           /\ Message(k, len) \in Seq(Byte) /\ Len(Message(k, len)) = len
           /\ \A i \in 1..len : Message(k, len)[i] = [frame |-> k, pos |-> i]
<1>1. [frame |-> k, pos |-> 0] \in Byte
  BY DEF Byte
<1>2. Message(k, len) \in [1..len -> Byte]
  BY DEF Message, Byte
<1>3. Message(k, len) \in Seq(Byte) /\ Len(Message(k, len)) = len
  BY <1>2, FunctionIsSeq
<1>4. \A i \in 1..len : Message(k, len)[i] = [frame |-> k, pos |-> i]
  BY DEF Message
<1>. QED
  BY <1>1, <1>3, <1>4 DEF Power

-----------------------------------------------------------------------------
(***************************************************************************)
(* The types and the buffers                                               *)
(***************************************************************************)

\* What is read into the buffer of reader x fits, and what fits was read: all of the
\* header before the size is used, all of the message before it is handed on.
BufferOK(x) ==
    /\ x.pos <= Len(x.Buffer)
    /\ Len(x.Buffer) <= DEFAULT_SIZE_BUFFER \/ Len(x.Buffer) <= MTU
    /\ x.at = "head" => x.pos <= HeaderSize /\ HeaderSize <= Len(x.Buffer)
    /\ x.at \in {"rest", "done", "send"} => HeaderSize <= x.pos /\ x.total <= Len(x.Buffer)
    /\ x.at \in {"done", "send"} => x.total <= x.pos
    /\ x.at \in {"head", "rest", "done", "send"} => \A i \in 1..x.pos : x.Buffer[i] \in Byte

\* This holds for the server and for every guest.
BuffersOK == \A r \in Reader : BufferOK(rd[r])

\* The inductive invariant of the types and the buffers.
WireInv == WireTypeOK /\ Len(frames) <= MaxFrames /\ BuffersOK

\* A step of one reader leaves the buffers of the others.
LEMMA ReaderStep ==
    ASSUME WireInv, NEW r \in Reader, NEW y \in Reading, BufferOK(y), rd' = [rd EXCEPT ![r] = y]
    PROVE  rd' \in [Reader -> Reading] /\ BuffersOK'
  BY DEF WireInv, WireTypeOK, BuffersOK

\* The other variables keep their types when only the readers change.
LEMMA OnlyReaders ==
    ASSUME WireInv, rd' \in [Reader -> Reading], BuffersOK',
           UNCHANGED <<frames, out, connected, conn, up, down, server, given, ends>>
    PROVE  WireInv'
  BY DEF WireInv, WireTypeOK, server

\* A reader reads bytes.
LEMMA InType ==
    ASSUME WireTypeOK, NEW r \in Reader
    PROVE  In(r) \in Seq(Byte)
  BY DEF WireTypeOK, Reader, In

\* What is taken from a connection leaves bytes in it.
LEMMA TakesType ==
    ASSUME WireTypeOK, NEW r \in Reader, NEW n \in 1..Len(In(r)), Takes(r, n)
    PROVE  up' \in [Guests -> Seq(Byte)] /\ down' \in [Guests -> Seq(Byte)]
<1>0. up \in [Guests -> Seq(Byte)] /\ down \in [Guests -> Seq(Byte)] /\ src \in Guests \cup {Server}
  BY DEF WireTypeOK
<1>1. CASE r = Server
  <2>1. src \in Guests /\ In(r) = up[src]
    BY <1>0, <1>1 DEF In
  <2>2. Drop(up[src], n) \in Seq(Byte)
    BY <1>0, <2>1, Dropped
  <2>. QED
    BY <1>0, <1>1, <2>1, <2>2 DEF Takes
<1>2. CASE r # Server
  <2>1. r \in Guests /\ In(r) = down[r]
    BY <1>2 DEF In, Reader
  <2>2. Drop(down[r], n) \in Seq(Byte)
    BY <1>0, <2>1, Dropped
  <2>. QED
    BY <1>0, <1>2, <2>1, <2>2 DEF Takes
<1>. QED
  BY <1>1, <1>2

\* A reader that goes to another stage keeps the rest.
LEMMA NewStage ==
    ASSUME NEW x \in Reading, NEW a \in Stage
    PROVE  /\ [x EXCEPT !.at = a] \in Reading
           /\ [x EXCEPT !.at = a].at = a
           /\ [x EXCEPT !.at = a].pos = x.pos
           /\ [x EXCEPT !.at = a].total = x.total
           /\ [x EXCEPT !.at = a].Buffer = x.Buffer
  BY DEF Reading

\* What a reader is made of.
LEMMA ReadingParts ==
    ASSUME NEW a \in Stage, NEW p \in Nat, NEW t \in Nat, NEW b \in Seq(Cell)
    PROVE  /\ [at |-> a, pos |-> p, total |-> t, Buffer |-> b] \in Reading
           /\ [at |-> a, pos |-> p, total |-> t, Buffer |-> b].at = a
           /\ [at |-> a, pos |-> p, total |-> t, Buffer |-> b].pos = p
           /\ [at |-> a, pos |-> p, total |-> t, Buffer |-> b].total = t
           /\ [at |-> a, pos |-> p, total |-> t, Buffer |-> b].Buffer = b
  BY DEF Reading, Cell

\* The fields of a reader.
LEMMA ReadingType ==
    ASSUME NEW x \in Reading
    PROVE  /\ x.at \in Stage /\ x.pos \in Nat /\ x.total \in Nat
           /\ x.Buffer \in Seq(Cell) /\ Len(x.Buffer) \in Nat
  BY DEF Reading, Cell

\* ReadPower leaves a buffer with room for the header.
LEMMA PowerFits ==
    ASSUME NEW x \in Reading, BufferOK(x)
    PROVE  \E y \in Reading :
              /\ y = [at |-> "head", pos |-> 0, total |-> x.total,
                      Buffer |-> NeededSize(x.Buffer, HeaderSize, FALSE)]
              /\ y.at = "head" /\ y.pos = 0 /\ BufferOK(y)
<1>. USE WireAssumption
<1>1. PICK b : b = NeededSize(x.Buffer, HeaderSize, FALSE)
  OBVIOUS
<1>2. b \in Seq(Cell) /\ Len(b) = IF HeaderSize <= Len(x.Buffer) THEN Len(x.Buffer) ELSE HeaderSize
  BY <1>1, ReadingType, NeededSizeFits
<1>3. PICK y : y = [at |-> "head", pos |-> 0, total |-> x.total, Buffer |-> b]
  OBVIOUS
<1>4. y \in Reading /\ y.at = "head" /\ y.pos = 0 /\ y.total = x.total /\ y.Buffer = b
  BY <1>2, <1>3, ReadingType, ReadingParts DEF Stage
<1>5. BufferOK(y)
  BY <1>2, <1>4, ReadingType DEF BufferOK
<1>. QED
  BY <1>1, <1>3, <1>4, <1>5

\* ReadSome writes inside the buffer.
LEMMA SomeFits ==
    ASSUME NEW x \in Reading, BufferOK(x), NEW bytes \in Seq(Byte),
           \/ x.at = "head" /\ Len(bytes) <= HeaderSize - x.pos
           \/ x.at = "rest" /\ Len(bytes) <= x.total - x.pos
    PROVE  \E y \in Reading :
              /\ y = [at |-> x.at, pos |-> x.pos + Len(bytes), total |-> x.total,
                      Buffer |-> Filled(x.Buffer, x.pos, bytes)]
              /\ y.at = x.at /\ y.total = x.total /\ y.pos = x.pos + Len(bytes)
              /\ Len(y.Buffer) = Len(x.Buffer)
              /\ \A i \in 1..x.pos : y.Buffer[i] = x.Buffer[i]
              /\ \A i \in 1..Len(bytes) : y.Buffer[x.pos + i] = bytes[i]
              /\ BufferOK(y)
<1>. USE WireAssumption
<1>0. x.at \in Stage /\ x.pos \in Nat /\ x.total \in Nat /\ x.Buffer \in Seq(Cell) /\ Len(x.Buffer) \in Nat
  BY ReadingType
<1>1. PICK b : b = Filled(x.Buffer, x.pos, bytes)
  OBVIOUS
<1>2. Len(bytes) \in Nat /\ x.pos + Len(bytes) <= Len(x.Buffer)
  BY <1>0 DEF BufferOK
<1>3. /\ b \in Seq(Cell) /\ Len(b) = Len(x.Buffer)
      /\ \A i \in 1..x.pos : b[i] = x.Buffer[i]
      /\ \A i \in 1..Len(bytes) : b[x.pos + i] = bytes[i]
  <2>1. PICK c \in Seq(Cell), q \in Nat : c = x.Buffer /\ q = x.pos
    BY <1>0
  <2>2. q + Len(bytes) <= Len(c)
    BY <1>2, <2>1
  <2>3. b = Filled(c, q, bytes)
    BY <1>1, <2>1
  <2>4. /\ b \in Seq(Cell) /\ Len(b) = Len(c)
        /\ \A i \in 1..q : b[i] = c[i]
        /\ \A i \in 1..Len(bytes) : b[q + i] = bytes[i]
    BY <2>2, <2>3, FilledBuffer
  <2>. QED
    BY <2>1, <2>4
<1>4. PICK y : y = [at |-> x.at, pos |-> x.pos + Len(bytes), total |-> x.total, Buffer |-> b]
  OBVIOUS
<1>5. y \in Reading /\ y.at = x.at /\ y.pos = x.pos + Len(bytes) /\ y.total = x.total /\ y.Buffer = b
  <2>1. x.pos + Len(bytes) \in Nat
    BY <1>0, <1>2
  <2>. QED
    BY <1>0, <1>3, <1>4, <2>1, ReadingParts, Zenon
<1>6. ASSUME NEW i \in 1..(x.pos + Len(bytes)) PROVE b[i] \in Byte
  <2>1. CASE i <= x.pos
    BY <1>0, <1>3, <2>1 DEF BufferOK
  <2>2. CASE i > x.pos
    <3>1. i - x.pos \in 1..Len(bytes) /\ x.pos + (i - x.pos) = i
      BY <1>0, <1>2, <2>2
    <3>. QED
      BY <1>3, <3>1
  <2>. QED
    BY <1>0, <2>1, <2>2
<1>7. BufferOK(y)
  BY <1>0, <1>2, <1>3, <1>5, <1>6 DEF BufferOK
<1>. QED
  BY <1>1, <1>3, <1>4, <1>5, <1>7

\* ReadHeader makes room for the message, which is no longer than the MTU.
LEMMA HeaderFits ==
    ASSUME NEW x \in Reading, BufferOK(x), x.at = "head", x.pos = HeaderSize,
           NEW len \in Nat, len <= MTU
    PROVE  \E y \in Reading :
              /\ y = [at |-> "rest", pos |-> x.pos, total |-> len,
                      Buffer |-> NeededSize(x.Buffer, len, TRUE)]
              /\ y.at = "rest" /\ y.total = len /\ y.pos = x.pos
              /\ \A i \in 1..x.pos : y.Buffer[i] = x.Buffer[i]
              /\ BufferOK(y)
<1>. USE WireAssumption
<1>0. x.at \in Stage /\ x.pos \in Nat /\ x.total \in Nat /\ x.Buffer \in Seq(Cell) /\ Len(x.Buffer) \in Nat
  BY ReadingType
<1>1. PICK b : b = NeededSize(x.Buffer, len, TRUE)
  OBVIOUS
<1>2. /\ b \in Seq(Cell) /\ Len(b) = IF len <= Len(x.Buffer) THEN Len(x.Buffer) ELSE len
      /\ \A i \in 1..Len(x.Buffer) : b[i] = x.Buffer[i]
  <2>1. PICK c \in Seq(Cell) : c = x.Buffer
    BY <1>0
  <2>2. b = NeededSize(c, len, TRUE)
    BY <1>1, <2>1
  <2>3. b \in Seq(Cell) /\ Len(b) = IF len <= Len(c) THEN Len(c) ELSE len
    BY <2>2, NeededSizeFits
  <2>4. \A i \in 1..Len(c) : b[i] = c[i]
    BY <2>2, NeededSizeKeeps
  <2>. QED
    BY <2>1, <2>3, <2>4
<1>3. PICK y : y = [at |-> "rest", pos |-> x.pos, total |-> len, Buffer |-> b]
  OBVIOUS
<1>4. y \in Reading /\ y.at = "rest" /\ y.pos = x.pos /\ y.total = len /\ y.Buffer = b
  BY <1>0, <1>2, <1>3, ReadingParts DEF Stage
<1>5. \A i \in 1..x.pos : b[i] = x.Buffer[i]
  BY <1>0, <1>2 DEF BufferOK
<1>6. BufferOK(y)
  BY <1>0, <1>2, <1>4, <1>5 DEF BufferOK
<1>. QED
  BY <1>1, <1>3, <1>4, <1>5, <1>6

\* RecvSignalWithSocket, at either side.
LEMMA RecvType ==
    ASSUME WireInv, NEW r \in Reader, RecvSignal(r)
    PROVE  WireInv'
<1>. USE WireAssumption
<1>0. WireTypeOK /\ rd \in [Reader -> Reading]
  BY DEF WireInv, WireTypeOK
<1>a. PICK x \in Reading : x = rd[r]
  BY <1>0
<1>b. BufferOK(x)
  BY <1>a DEF WireInv, BuffersOK
<1>1. ASSUME NEW y \in Reading, BufferOK(y), rd' = [rd EXCEPT ![r] = y],
             up' \in [Guests -> Seq(Byte)], down' \in [Guests -> Seq(Byte)],
             UNCHANGED <<frames, out, connected, conn, server, given, ends>>
      PROVE  WireInv'
  <2>1. rd' \in [Reader -> Reading] /\ BuffersOK'
    BY <1>1, ReaderStep
  <2>. QED
    BY <1>1, <2>1 DEF WireInv, WireTypeOK, server
<1>2. ASSUME UNCHANGED <<up, down>>
      PROVE up' \in [Guests -> Seq(Byte)] /\ down' \in [Guests -> Seq(Byte)]
  BY <1>0, <1>2 DEF WireTypeOK
<1>3. CASE ReadPower(r)
  <2>1. PICK y \in Reading :
              /\ y = [at |-> "head", pos |-> 0, total |-> x.total,
                      Buffer |-> NeededSize(x.Buffer, HeaderSize, FALSE)]
              /\ BufferOK(y)
    BY <1>b, PowerFits
  <2>2. rd' = [rd EXCEPT ![r] = y]
    BY <1>3, <1>a, <2>1, Zenon DEF ReadPower
  <2>3. 1 \in 1..Len(In(r))
    BY <1>0, <1>3, InType DEF ReadPower
  <2>4. up' \in [Guests -> Seq(Byte)] /\ down' \in [Guests -> Seq(Byte)]
    BY <1>0, <1>3, <2>3, TakesType DEF ReadPower
  <2>. QED
    BY <1>1, <1>3, <2>1, <2>2, <2>4, Zenon DEF ReadPower
<1>4. ASSUME NEW n \in 1..Len(In(r)), ReadSome(r, n) PROVE WireInv'
  <2>0. n \in 0..Len(In(r)) /\ In(r) \in Seq(Byte)
    BY <1>0, <1>4, InType
  <2>1. PICK bytes \in Seq(Byte) : bytes = SubSeq(In(r), 1, n) /\ Len(bytes) = n
    BY <2>0, Dropped, ZenonT(40)
  <2>2. \/ x.at = "head" /\ Len(bytes) <= HeaderSize - x.pos
        \/ x.at = "rest" /\ Len(bytes) <= x.total - x.pos
    BY <1>4, <1>a, <2>1 DEF ReadSome, SizeToRead
  <2>3. PICK y \in Reading :
              /\ y = [at |-> x.at, pos |-> x.pos + Len(bytes), total |-> x.total,
                      Buffer |-> Filled(x.Buffer, x.pos, bytes)]
              /\ BufferOK(y)
    BY <1>b, <2>2, SomeFits
  <2>4. rd' = [rd EXCEPT ![r] = y]
    BY <1>4, <1>a, <2>1, <2>3, Zenon DEF ReadSome
  <2>5. up' \in [Guests -> Seq(Byte)] /\ down' \in [Guests -> Seq(Byte)]
    BY <1>0, <1>4, TakesType DEF ReadSome
  <2>. QED
    BY <1>1, <1>4, <2>3, <2>4, <2>5, Zenon DEF ReadSome
<1>5. CASE ReadHeader(r)
  <2>1. PICK len \in NlmsgLen(x.Buffer) :
           rd' = [rd EXCEPT ![r] =
                    IF len > MTU
                    THEN [x EXCEPT !.at = "failed"]
                    ELSE [at |-> "rest", pos |-> x.pos, total |-> len,
                          Buffer |-> NeededSize(x.Buffer, len, TRUE)]]
    BY <1>5, <1>a, Zenon DEF ReadHeader
  <2>2. len \in Nat
    <3>1. frames \in Seq([from : Guests, len : Sizes])
      BY <1>0 DEF WireTypeOK
    <3>2. \A k \in DOMAIN frames : frames[k] \in [from : Guests, len : Sizes]
      BY <3>1, ElementOfSeq, LenProperties
    <3>3. \A k \in DOMAIN frames : frames[k].len \in Nat
      BY <3>2
    <3>. QED
      BY <3>3 DEF NlmsgLen
  <2>3. CASE len > MTU
    <3>1. PICK y : y = [x EXCEPT !.at = "failed"]
      OBVIOUS
    <3>2. y \in Reading /\ BufferOK(y)
      BY <1>b, <3>1, NewStage DEF Stage, BufferOK
    <3>3. rd' = [rd EXCEPT ![r] = y]
      BY <2>1, <2>3, <3>1, Zenon
    <3>. QED
      BY <1>1, <1>2, <1>5, <3>2, <3>3, Zenon DEF ReadHeader
  <2>4. CASE ~(len > MTU)
    <3>1. x.at = "head" /\ x.pos = HeaderSize /\ len <= MTU
      BY <1>5, <1>a, <2>2, <2>4 DEF ReadHeader
    <3>2. PICK y \in Reading :
              /\ y = [at |-> "rest", pos |-> x.pos, total |-> len,
                      Buffer |-> NeededSize(x.Buffer, len, TRUE)]
              /\ BufferOK(y)
      BY <1>b, <2>2, <3>1, HeaderFits, Zenon
    <3>3. rd' = [rd EXCEPT ![r] = y]
      BY <2>1, <2>4, <3>2, Zenon
    <3>. QED
      BY <1>1, <1>2, <1>5, <3>2, <3>3, Zenon DEF ReadHeader
  <2>. QED
    BY <2>3, <2>4
<1>6. CASE ReadDone(r)
  <2>1. PICK y : y = [x EXCEPT !.at = "done"]
    OBVIOUS
  <2>2. y \in Reading /\ BufferOK(y)
    <3>1. x.at = "rest" /\ x.total <= x.pos
      BY <1>a, <1>6, ReadingType DEF ReadDone
    <3>2. y \in Reading /\ y.at = "done" /\ y.pos = x.pos /\ y.total = x.total /\ y.Buffer = x.Buffer
      BY <2>1, NewStage DEF Stage
    <3>. QED
      BY <1>b, <3>1, <3>2 DEF BufferOK
  <2>3. rd' = [rd EXCEPT ![r] = y]
    BY <1>6, <1>a, <2>1, Zenon DEF ReadDone
  <2>. QED
    BY <1>1, <1>2, <1>6, <2>2, <2>3, Zenon DEF ReadDone
<1>7. CASE ReadFails(r)
  <2>1. PICK y : y = [x EXCEPT !.at = "failed"]
    OBVIOUS
  <2>2. y \in Reading /\ BufferOK(y)
    BY <1>b, <2>1, NewStage DEF Stage, BufferOK
  <2>3. rd' = [rd EXCEPT ![r] = y]
    BY <1>7, <1>a, <2>1, Zenon DEF ReadFails
  <2>. QED
    BY <1>1, <1>2, <1>7, <2>2, <2>3, Zenon DEF ReadFails
<1>. QED
  BY <1>3, <1>4, <1>5, <1>6, <1>7 DEF RecvSignal

\* A reader that goes to a stage where nothing is asked of its buffer, or on from a message
\* that is whole.
LEMMA StageStep ==
    ASSUME WireInv, NEW r \in Reader, NEW a \in Stage, rd' = [rd EXCEPT ![r].at = a],
           a \in {"idle", "power", "failed"} \/ (a = "send" /\ rd[r].at = "done")
    PROVE  rd' \in [Reader -> Reading] /\ BuffersOK'
<1>1. PICK x \in Reading : x = rd[r] /\ BufferOK(x)
  BY DEF WireInv, WireTypeOK, BuffersOK
<1>2. PICK y : y = [x EXCEPT !.at = a]
  OBVIOUS
<1>3. y \in Reading /\ y.at = a /\ y.pos = x.pos /\ y.total = x.total /\ y.Buffer = x.Buffer
  BY <1>2, NewStage
<1>4. BufferOK(y)
  BY <1>1, <1>3 DEF BufferOK
<1>5. rd' = [rd EXCEPT ![r] = y]
  BY <1>1, <1>2, Zenon
<1>. QED
  BY <1>3, <1>4, <1>5, ReaderStep

\* CDynBuffer: a reader that begins.
LEMMA NewReaderOK ==
    NewReader \in Reading /\ BufferOK(NewReader)
<1>. USE WireAssumption
<1>1. CDynBuffer \in [1..DEFAULT_SIZE_BUFFER -> Cell]
  BY DEF CDynBuffer, Cell
<1>2. CDynBuffer \in Seq(Cell) /\ Len(CDynBuffer) = DEFAULT_SIZE_BUFFER
  BY <1>1, FunctionIsSeq
<1>3. /\ NewReader \in Reading /\ NewReader.at = "idle" /\ NewReader.pos = 0
      /\ NewReader.Buffer = CDynBuffer
  BY <1>2, ReadingParts DEF NewReader, Stage
<1>. QED
  BY <1>2, <1>3 DEF BufferOK

\* The bytes that the server sends on are a message.
LEMMA ForwardedBytes ==
    ASSUME WireInv, ServerAt("send")
    PROVE  /\ rd[Server].Buffer[1] \in Byte
           /\ Power(rd[Server].Buffer[1].frame)
                 \o SubSeq(rd[Server].Buffer, 1, rd[Server].total) \in Seq(Byte)
<1>. USE WireAssumption
<1>1. PICK x \in Reading : x = rd[Server] /\ BufferOK(x)
  BY DEF WireInv, WireTypeOK, BuffersOK, Reader
<1>2. x.pos \in Nat /\ x.total \in Nat /\ x.Buffer \in Seq(Cell) /\ Len(x.Buffer) \in Nat
  BY ReadingType
<1>3. /\ HeaderSize <= x.pos /\ x.total <= x.pos /\ x.pos <= Len(x.Buffer)
      /\ \A i \in 1..x.pos : x.Buffer[i] \in Byte
  BY <1>1, <1>2 DEF BufferOK, ServerAt
<1>4. x.Buffer[1] \in Byte
  BY <1>2, <1>3
<1>5. x.Buffer[1].frame \in 1..MaxFrames
  BY <1>4 DEF Byte
<1>6. PICK m : m = SubSeq(x.Buffer, 1, x.total)
  OBVIOUS
<1>7. PICK b \in Seq(Cell), t \in Nat : b = x.Buffer /\ t = x.total
  BY <1>2
<1>8. t \in 0..Len(b) /\ \A i \in 1..t : b[i] \in Byte
  BY <1>2, <1>3, <1>7
<1>9. m \in [1..t -> Byte]
  <2>1. m = SubSeq(b, 1, t)
    BY <1>6, <1>7
  <2>2. m \in Seq(Cell) /\ Len(m) = t /\ \A i \in 1..t : m[i] = b[i]
    BY <1>8, <2>1, Dropped
  <2>3. m \in [1..t -> Cell]
    BY <2>2, LenProperties
  <2>. QED
    BY <1>8, <2>2, <2>3
<1>10. m \in Seq(Byte)
  BY <1>9, FunctionIsSeq
<1>11. PICK w \in Seq(Byte) : w = Power(x.Buffer[1].frame)
  BY <1>5, FrameBytes, 0 \in Nat
<1>12. w \o m \in Seq(Byte)
  BY <1>10
<1>. QED
  BY <1>1, <1>4, <1>6, <1>11, <1>12

\* The other steps of the server.
LEMMA ServerType ==
    ASSUME WireInv, ServerStep
    PROVE  WireInv'
<1>. USE WireAssumption
<1>. Server \in Reader
  BY DEF Reader
<1>1. ASSUME NEW g \in Guests, ServerSelects(g) PROVE WireInv'
  <2>1. rd' \in [Reader -> Reading] /\ BuffersOK'
    BY <1>1, StageStep DEF ServerSelects, ServerGoes, Stage
  <2>. QED
    BY <1>1, <2>1 DEF WireInv, WireTypeOK, ServerSelects
<1>2. ASSUME NEW g \in Guests, ServerLoses(g) PROVE WireInv'
  BY <1>2 DEF WireInv, WireTypeOK, BuffersOK, ServerLoses
<1>3. ASSUME NEW g \in Guests, ServerBegins(g) PROVE WireInv'
  <2>1. sending' \in Seq(Byte)
    BY <1>3, ForwardedBytes DEF ServerBegins
  <2>. QED
    BY <1>3, <2>1 DEF WireInv, WireTypeOK, BuffersOK, ServerBegins
<1>4. CASE RecvSignal(Server)
  BY <1>4, RecvType
<1>5. CASE ServerRemoves
  <2>1. rd' \in [Reader -> Reading] /\ BuffersOK'
    BY <1>5, StageStep DEF ServerRemoves, ServerGoes, Stage
  <2>2. conn' \in [Guests -> {"open", "left", "closed", "leaked"}]
    BY <1>5 DEF WireInv, WireTypeOK, ServerRemoves
  <2>3. up' \in [Guests -> Seq(Byte)]
    <3>1. PICK e \in Seq(Byte) : e = <<>>
      BY EmptySeq, Zenon
    <3>2. up' = [up EXCEPT ![src] = e] /\ up \in [Guests -> Seq(Byte)]
      BY <1>5, <3>1, Zenon DEF WireInv, WireTypeOK, ServerRemoves
    <3>. QED
      BY <3>2
  <2>. QED
    BY <1>5, <2>1, <2>2, <2>3 DEF WireInv, WireTypeOK, ServerRemoves
<1>6. CASE ServerForwards
  <2>1. rd' \in [Reader -> Reading] /\ BuffersOK'
    BY <1>6, StageStep DEF ServerForwards, ServerGoes, ServerAt, Stage
  <2>. QED
    BY <1>6, <2>1 DEF WireInv, WireTypeOK, ServerForwards
<1>7. ASSUME NEW n \in 1..Len(sending), ServerSends(n) PROVE WireInv'
  <2>0. sending \in Seq(Byte) /\ n \in 0..Len(sending) /\ down \in [Guests -> Seq(Byte)]
    BY <1>7 DEF WireInv, WireTypeOK
  <2>1. SubSeq(sending, 1, n) \in Seq(Byte) /\ Drop(sending, n) \in Seq(Byte)
    BY <2>0, Dropped
  <2>2. PICK b \in Seq(Byte) : b = SubSeq(sending, 1, n)
    BY <2>1
  <2>3. \A d \in Seq(Byte) : d \o b \in Seq(Byte)
    OBVIOUS
  <2>4. CASE conn[dst] = "left"
    <3>1. down' \in [Guests -> Seq(Byte)]
      BY <1>7, <2>0, <2>4 DEF ServerSends
    <3>. QED
      BY <1>7, <2>1, <3>1 DEF WireInv, WireTypeOK, BuffersOK, ServerSends
  <2>5. CASE conn[dst] # "left"
    <3>1. down' = [down EXCEPT ![dst] = down[dst] \o b]
      BY <1>7, <2>2, <2>5, Zenon DEF ServerSends
    <3>2. down' \in [Guests -> Seq(Byte)]
      BY <2>0, <2>3, <3>1
    <3>. QED
      BY <1>7, <2>1, <3>2 DEF WireInv, WireTypeOK, BuffersOK, ServerSends
  <2>. QED
    BY <2>4, <2>5
<1>8. CASE ServerSendFails
  <2>1. conn' \in [Guests -> {"open", "left", "closed", "leaked"}]
    BY <1>8 DEF WireInv, WireTypeOK, ServerSendFails
  <2>. QED
    BY <1>8, <2>1 DEF WireInv, WireTypeOK, BuffersOK, ServerSendFails
<1>9. CASE ServerForwarded
  <2>1. rd' \in [Reader -> Reading] /\ BuffersOK'
    BY <1>9, StageStep DEF ServerForwarded, ServerGoes, Stage
  <2>. QED
    BY <1>9, <2>1 DEF WireInv, WireTypeOK, ServerForwarded
<1>. QED
  BY <1>1, <1>2, <1>3, <1>4, <1>5, <1>6, <1>7, <1>8, <1>9 DEF ServerStep

\* The server ends and begins again.
LEMMA ServerEndsType ==
    ASSUME WireInv, ServerEnds
    PROVE  WireInv'
<1>. USE WireAssumption
<1>1. PICK y \in Reading : y = NewReader /\ BufferOK(y)
  BY NewReaderOK
<1>2. rd' = [rd EXCEPT ![Server] = y]
  BY <1>1, Zenon DEF ServerEnds
<1>3. rd' \in [Reader -> Reading] /\ BuffersOK'
  BY <1>1, <1>2, ReaderStep DEF Reader
<1>4. up' \in [Guests -> Seq(Byte)] /\ conn' \in [Guests -> {"open", "left", "closed", "leaked"}]
  BY DEF ServerEnds
<1>. QED
  BY <1>3, <1>4 DEF WireInv, WireTypeOK, ServerEnds

\* FrameIn finds a frame that was transmitted, or none.
LEMMA FrameInType ==
    ASSUME WireInv, NEW b
    PROVE  FrameIn(b) \in 0..MaxFrames
<1>. USE WireAssumption
<1>. DEFINE whole == {k \in DOMAIN frames : frames[k].len <= Len(b) /\ SubSeq(b, 1, frames[k].len) = Message(k, frames[k].len)}
<1>1. FrameIn(b) = IF whole # {} THEN CHOOSE k \in whole : TRUE ELSE 0
  BY DEF FrameIn
<1>2. frames \in Seq([from : Guests, len : Sizes]) /\ Len(frames) <= MaxFrames
  BY DEF WireInv, WireTypeOK
<1>3. \A k \in DOMAIN frames : k \in 1..MaxFrames
  BY <1>2, LenProperties
<1>4. whole # {} => (CHOOSE k \in whole : TRUE) \in whole
  BY Zenon
<1>5. whole \subseteq 1..MaxFrames
  BY <1>3
<1>. HIDE DEF whole
<1>6. CASE whole = {}
  BY <1>1, <1>6
<1>7. CASE whole # {}
  <2>1. FrameIn(b) \in whole
    BY <1>1, <1>4, <1>7, Zenon
  <2>2. FrameIn(b) \in 1..MaxFrames
    BY <1>5, <2>1, Zenon
  <2>. QED
    BY <2>2
<1>. QED
  BY <1>6, <1>7

\* The steps of a guest.
LEMMA GuestType ==
    ASSUME WireInv, NEW g \in Guests, GuestStep(g)
    PROVE  WireInv'
<1>. USE WireAssumption
<1>. g \in Reader
  BY DEF Reader
<1>0. /\ frames \in Seq([from : Guests, len : Sizes]) /\ Len(frames) \in Nat
      /\ out \in [Guests -> Seq(Byte)] /\ up \in [Guests -> Seq(Byte)] /\ down \in [Guests -> Seq(Byte)]
      /\ connected \in [Guests -> BOOLEAN]
  BY DEF WireInv, WireTypeOK
<1>1. ASSUME NEW s \in Sizes, Transmit(g, s) PROVE WireInv'
  <2>1. PICK f : f = [from |-> g, len |-> s]
    OBVIOUS
  <2>2. f \in [from : Guests, len : Sizes]
    BY <2>1
  <2>3. frames' \in Seq([from : Guests, len : Sizes]) /\ Len(frames') = Len(frames) + 1
    BY <1>0, <1>1, <2>1, <2>2 DEF Transmit
  <2>4. Len(frames) + 1 \in 1..MaxFrames /\ s \in Nat
    BY <1>0, <1>1 DEF Transmit
  <2>5. PICK w \in Seq(Byte), m \in Seq(Byte) :
           w = Power(Len(frames) + 1) /\ m = Message(Len(frames) + 1, s)
    BY <2>4, FrameBytes
  <2>6. w \o m \in Seq(Byte)
    OBVIOUS
  <2>7. out' \in [Guests -> Seq(Byte)]
    BY <1>0, <1>1, <2>5, <2>6 DEF Transmit
  <2>8. Len(frames') <= MaxFrames
    BY <2>3, <2>4
  <2>9. UNCHANGED <<connected, conn, up, down, rd, server, given, ends>>
    BY <1>1 DEF Transmit
  <2>. QED
    BY <2>3, <2>7, <2>8, <2>9 DEF WireInv, WireTypeOK, BuffersOK, server
<1>2. ASSUME NEW n \in 1..Len(out[g]), GuestSends(g, n) PROVE WireInv'
  <2>1. out[g] \in Seq(Byte) /\ n \in 0..Len(out[g])
    BY <1>0, <1>2
  <2>2. PICK b \in Seq(Byte), d \in Seq(Byte) : b = SubSeq(out[g], 1, n) /\ d = Drop(out[g], n)
    BY <2>1, Dropped
  <2>3. \A u \in Seq(Byte) : u \o b \in Seq(Byte)
    OBVIOUS
  <2>4. up' = [up EXCEPT ![g] = up[g] \o b] /\ out' = [out EXCEPT ![g] = d]
    BY <1>2, <2>2, Zenon DEF GuestSends
  <2>5. up' \in [Guests -> Seq(Byte)] /\ out' \in [Guests -> Seq(Byte)]
    BY <1>0, <2>3, <2>4
  <2>. QED
    BY <1>2, <2>5 DEF WireInv, WireTypeOK, BuffersOK, GuestSends, server
<1>3. CASE GuestSendFails(g)
  <2>1. connected' \in [Guests -> BOOLEAN]
    BY <1>0, <1>3, Zenon DEF GuestSendFails
  <2>2. out' \in [Guests -> Seq(Byte)]
    BY <1>0, <1>3 DEF GuestSendFails
  <2>. QED
    BY <1>3, <2>1, <2>2 DEF WireInv, WireTypeOK, BuffersOK, GuestSendFails, server
<1>4. CASE GuestWakes(g)
  <2>1. rd' \in [Reader -> Reading] /\ BuffersOK'
    BY <1>4, StageStep DEF GuestWakes, Stage
  <2>. QED
    BY <1>4, <2>1, OnlyReaders DEF GuestWakes
<1>5. CASE RecvSignal(g)
  BY <1>5, RecvType
<1>6. CASE GuestHandsOn(g)
  <2>1. rd' \in [Reader -> Reading] /\ BuffersOK'
    BY <1>6, StageStep DEF GuestHandsOn, Stage
  <2>2. PICK k \in 0..MaxFrames : k = FrameIn(SubSeq(rd[g].Buffer, 1, rd[g].total))
    BY FrameInType
  <2>3. given' = [given EXCEPT ![g] = given[g] \cup {[frame |-> k, read |-> TRUE]}]
    BY <1>6, <2>2, Zenon DEF GuestHandsOn
  <2>4. [frame |-> k, read |-> TRUE] \in [frame : 0..MaxFrames, read : BOOLEAN]
    BY Zenon
  <2>5. given' \in [Guests -> SUBSET [frame : 0..MaxFrames, read : BOOLEAN]]
    BY <2>3, <2>4, Zenon DEF WireInv, WireTypeOK
  <2>. QED
    BY <1>6, <2>1, <2>5 DEF WireInv, WireTypeOK, GuestHandsOn, server
<1>7. CASE GuestReadFailed(g)
  <2>1. rd' \in [Reader -> Reading] /\ BuffersOK'
    BY <1>7, StageStep DEF GuestReadFailed, Stage
  <2>2. PICK k \in 0..MaxFrames : k = FrameIn(rd[g].Buffer)
    BY FrameInType
  <2>3. given' = [given EXCEPT ![g] = given[g] \cup {[frame |-> k, read |-> FALSE]}]
    BY <1>7, <2>2, Zenon DEF GuestReadFailed
  <2>4. [frame |-> k, read |-> FALSE] \in [frame : 0..MaxFrames, read : BOOLEAN]
    BY Zenon
  <2>5. given' \in [Guests -> SUBSET [frame : 0..MaxFrames, read : BOOLEAN]]
    BY <2>3, <2>4, Zenon DEF WireInv, WireTypeOK
  <2>6. connected' \in [Guests -> BOOLEAN]
    BY <1>0, <1>7, Zenon DEF GuestReadFailed
  <2>. QED
    BY <1>7, <2>1, <2>5, <2>6 DEF WireInv, WireTypeOK, GuestReadFailed, server
<1>8. CASE Reconnect(g)
  <2>1. connected' \in [Guests -> BOOLEAN]
    BY <1>0, <1>8, Zenon DEF Reconnect
  <2>2. out' \in [Guests -> Seq(Byte)] /\ up' \in [Guests -> Seq(Byte)] /\ down' \in [Guests -> Seq(Byte)]
    BY <1>0, <1>8 DEF Reconnect
  <2>3. conn' \in [Guests -> {"open", "left", "closed", "leaked"}]
    BY <1>8 DEF WireInv, WireTypeOK, Reconnect
  <2>. QED
    BY <1>8, <2>1, <2>2, <2>3 DEF WireInv, WireTypeOK, BuffersOK, Reconnect, server
<1>9. CASE GuestEnds(g)
  <2>1. connected' \in [Guests -> BOOLEAN]
    BY <1>0, <1>9, Zenon DEF GuestEnds
  <2>2. out' \in [Guests -> Seq(Byte)] /\ down' \in [Guests -> Seq(Byte)]
    BY <1>0, <1>9 DEF GuestEnds
  <2>3. conn' \in [Guests -> {"open", "left", "closed", "leaked"}]
    BY <1>9 DEF WireInv, WireTypeOK, GuestEnds
  <2>4. PICK y \in Reading : y = NewReader /\ BufferOK(y)
    BY NewReaderOK
  <2>5. rd' = [rd EXCEPT ![g] = y]
    BY <1>9, <2>4, Zenon DEF GuestEnds
  <2>6. rd' \in [Reader -> Reading] /\ BuffersOK'
    BY <2>4, <2>5, ReaderStep
  <2>. QED
    BY <1>9, <2>1, <2>2, <2>3, <2>6, SMTT(30) DEF WireInv, WireTypeOK, GuestEnds, server
<1>. QED
  BY <1>1, <1>2, <1>3, <1>4, <1>5, <1>6, <1>7, <1>8, <1>9 DEF GuestStep

\* It holds when all are connected and nothing was sent.
LEMMA InitType == Init => WireInv
<1>. SUFFICES ASSUME Init PROVE WireInv
  OBVIOUS
<1>. USE WireAssumption
<1>1. PICK y \in Reading : y = NewReader /\ BufferOK(y)
  BY NewReaderOK
<1>2. rd = [r \in Reader |-> y]
  BY <1>1, Zenon DEF Init
<1>3. rd \in [Reader -> Reading] /\ BuffersOK
  BY <1>1, <1>2 DEF BuffersOK
<1>4. connected \in [Guests -> BOOLEAN]
  BY Zenon DEF Init
<1>5. given \in [Guests -> SUBSET [frame : 0..MaxFrames, read : BOOLEAN]]
  BY Zenon DEF Init
<1>. QED
  BY <1>3, <1>4, <1>5 DEF Init, WireInv, WireTypeOK

\* The inductive invariant of the types and of the buffers: CDynBuffer::NeededSize,
\* asked by RecvSignalWithSocket before each of its two reads, has made room for all
\* that recv() may write, whatever nlmsg_len says.
THEOREM WireInvariant == Spec => []WireInv
<1>1. WireInv /\ [Next]_vars => WireInv'
  <2>. SUFFICES ASSUME WireInv, [Next]_vars PROVE WireInv'
    OBVIOUS
  <2>1. CASE ServerStep
    BY <2>1, ServerType
  <2>2. CASE ServerEnds
    BY <2>2, ServerEndsType
  <2>3. ASSUME NEW g \in Guests, GuestStep(g) PROVE WireInv'
    BY <2>3, GuestType
  <2>4. CASE UNCHANGED vars
    BY <2>4 DEF WireInv, WireTypeOK, BuffersOK, vars, server
  <2>. QED
    BY <2>1, <2>2, <2>3, <2>4 DEF Next
<1>. QED
  BY <1>1, InitType, PTL DEF Spec

\* Every variable keeps its type through every read that is cut, every end and every
\* reconnection.
THEOREM WireTypeCorrect == Spec => []WireTypeOK
  BY WireInvariant, PTL DEF WireInv

\* RecvSignalWithSocket reads nothing into memory behind its buffer, and CDynBuffer
\* grows no further than the longest message that is accepted ("to avoid that a error
\* packet overfulls the memory"), for every header size, MTU and size of frames, and
\* also when a thread is overtaken by a reconnection and reads a header that is none.
THEOREM BuffersFit == Spec => []BufferFits
<1>1. WireInv => BufferFits
  BY WireAssumption DEF WireInv, WireTypeOK, BuffersOK, BufferOK, BufferFits, SizeToRead, Reading
<1>. QED
  BY <1>1, WireInvariant, PTL

-----------------------------------------------------------------------------
(***************************************************************************)
(* Bytes in step                                                           *)
(***************************************************************************)

\* Every frame has a header.
Sized(F) == \A k \in DOMAIN F : F[k].len \in Nat /\ HeaderSize <= F[k].len

\* b is a byte of one of the frames F.
Valid(F, b) == b.frame \in DOMAIN F /\ b.pos <= F[b.frame].len

\* b is the last byte of its frame.
IsLast(F, b) == b.pos = F[b.frame].len

\* Byte c may be sent behind byte b.
Follows(F, b, c) ==
    IF IsLast(F, b) THEN c.pos = 0 ELSE c.frame = b.frame /\ c.pos = b.pos + 1

\* Each byte of s follows the one before.
Chain(F, s) ==
    /\ \A i \in 1..Len(s) : Valid(F, s[i])
    /\ \A i \in 1..(Len(s) - 1) : Follows(F, s[i], s[i + 1])

\* The bytes in the buffer of reader x are the first ones of one frame.
Holds(F, x) ==
    x.at \in {"head", "rest", "done", "send"} /\ x.pos > 0 =>
        /\ x.Buffer[1].frame \in DOMAIN F
        /\ x.pos <= F[x.Buffer[1].frame].len
        /\ \A i \in 1..x.pos : x.Buffer[i].frame = x.Buffer[1].frame /\ x.Buffer[i].pos = i
        /\ x.at # "head" => x.total = F[x.Buffer[1].frame].len
        /\ x.at \in {"done", "send"} => x.pos = x.total

\* Reader x has the power and not yet all of the message.
Mid(F, x) ==
    x.at \in {"head", "rest"} /\ (x.pos > 0 => x.pos < F[x.Buffer[1].frame].len)

\* Byte b is the one that reader x needs next.
Fits(F, x, b) ==
    IF Mid(F, x) THEN b.pos = x.pos + 1 /\ (x.pos > 0 => b.frame = x.Buffer[1].frame)
                 ELSE b.pos = 0

\* Reader x is in step with the bytes s; when no frame is cut off, they end with one.
Flows(F, x, s, uncut) ==
    /\ Chain(F, s)
    /\ Len(s) > 0 => Fits(F, x, s[1])
    /\ uncut /\ Len(s) > 0 => IsLast(F, s[Len(s)])
    /\ uncut /\ Len(s) = 0 => ~Mid(F, x)

\* A chain that goes on inside a frame holds the bytes of that frame in order.
LEMMA Run ==
    ASSUME NEW F, Sized(F), NEW s \in Seq(Byte), Chain(F, s), NEW p \in Nat, NEW n \in 1..Len(s),
           s[1].pos = p + 1, p + n <= F[s[1].frame].len
    PROVE  \A i \in 1..n : s[i].frame = s[1].frame /\ s[i].pos = p + i
<1>. DEFINE Off == {i \in Nat : i \in 1..n /\ ~(s[i].frame = s[1].frame /\ s[i].pos = p + i)}
<1>1. CASE Off # {}
  <2>1. PICK m \in Off : \A j \in Nat : j < m => j \notin Off
    <3>1. IsWellFoundedOn(OpToRel(<, Nat), Nat)
      BY NatLessThanWellFounded
    <3>2. PICK m \in Off : \A j \in Off : ~(<<j, m>> \in OpToRel(<, Nat))
      BY <1>1, <3>1, WFMin
    <3>. QED
      BY <3>2 DEF OpToRel
  <2>2. m \in 2..n /\ m - 1 \in Nat /\ m - 1 \in 1..n /\ Len(s) \in Nat
    OBVIOUS
  <2>3. s[m - 1].frame = s[1].frame /\ s[m - 1].pos = p + m - 1
    BY <2>1, <2>2
  <2>4. ~IsLast(F, s[m - 1])
    BY <2>2, <2>3 DEF IsLast, Chain, Valid, Sized
  <2>5. m - 1 \in 1..(Len(s) - 1) /\ (m - 1) + 1 = m
    BY <2>2
  <2>6. Follows(F, s[m - 1], s[m])
    BY <2>5 DEF Chain
  <2>7. s[m].frame = s[1].frame /\ s[m].pos = p + m
    BY <2>2, <2>3, <2>4, <2>6 DEF Follows
  <2>. QED
    BY <2>7
<1>2. CASE Off = {}
  BY <1>2
<1>. QED
  BY <1>1, <1>2

\* A chain stays one when its first bytes are read.
LEMMA ChainDropped ==
    ASSUME NEW F, NEW s \in Seq(Byte), Chain(F, s), NEW n \in 0..Len(s)
    PROVE  Chain(F, Drop(s, n))
<1>1. PICK d \in Seq(Byte) : d = Drop(s, n) /\ Len(d) = Len(s) - n
                             /\ \A i \in 1..(Len(s) - n) : d[i] = s[n + i]
  <2>1. /\ Drop(s, n) \in Seq(Byte) /\ Len(Drop(s, n)) = Len(s) - n
        /\ \A i \in 1..(Len(s) - n) : Drop(s, n)[i] = s[n + i]
    BY Dropped
  <2>. QED
    BY <2>1
<1>2. Len(s) \in Nat /\ n \in Nat /\ n <= Len(s)
  OBVIOUS
<1>3. ASSUME NEW i \in 1..Len(d) PROVE Valid(F, d[i])
  <2>1. n + i \in 1..Len(s) /\ d[i] = s[n + i]
    BY <1>1, <1>2
  <2>. QED
    BY <2>1 DEF Chain
<1>4. ASSUME NEW i \in 1..(Len(d) - 1) PROVE Follows(F, d[i], d[i + 1])
  <2>1. n + i \in 1..(Len(s) - 1) /\ d[i] = s[n + i] /\ d[i + 1] = s[(n + i) + 1]
    <3>1. PICK j : j = i + 1
      OBVIOUS
    <3>2. i \in 1..(Len(s) - n) /\ j \in 1..(Len(s) - n) /\ n + j = (n + i) + 1
      BY <1>1, <1>2, <3>1
    <3>3. d[i] = s[n + i] /\ d[j] = s[n + j]
      BY <1>1, <3>2
    <3>4. n + i \in 1..(Len(s) - 1)
      BY <1>2, <3>2
    <3>. QED
      BY <3>1, <3>2, <3>3, <3>4
  <2>. QED
    BY <2>1 DEF Chain
<1>. QED
  BY <1>1, <1>3, <1>4 DEF Chain

\* A reader that takes n bytes of the frame it needs is in step with the others.
LEMMA ReadOn ==
    ASSUME NEW F, Sized(F), NEW x \in Reading, BufferOK(x), Holds(F, x),
           NEW s \in Seq(Byte), NEW uncut \in BOOLEAN, Flows(F, x, s, uncut), NEW n \in 1..Len(s),
           \/ x.at = "head" /\ n <= HeaderSize - x.pos
           \/ x.at = "rest" /\ n <= x.total - x.pos,
           NEW y \in Reading, y.at = x.at, y.total = x.total, y.pos = x.pos + n,
           \A i \in 1..x.pos : y.Buffer[i] = x.Buffer[i],
           \A i \in 1..n : y.Buffer[x.pos + i] = s[i]
    PROVE  Holds(F, y) /\ Flows(F, y, Drop(s, n), uncut)
<1>. USE WireAssumption
<1>0. /\ x.pos \in Nat /\ x.total \in Nat /\ n \in Nat /\ n > 0 /\ Len(s) \in Nat /\ n <= Len(s)
      /\ \A i \in 1..Len(s) : s[i].pos \in Nat
  <2>1. \A i \in 1..Len(s) : s[i] \in Byte
    BY ElementOfSeq
  <2>2. \A b \in Byte : b.pos \in Nat
    BY DEF Byte
  <2>. QED
    BY <2>1, <2>2, ReadingType
<1>1. x.at = "rest" => x.pos > 0
  BY <1>0 DEF BufferOK
<1>2. Mid(F, x)
  BY <1>0, <1>1 DEF Mid, Holds, Sized
<1>3. /\ s[1].pos = x.pos + 1 /\ (x.pos > 0 => s[1].frame = x.Buffer[1].frame)
      /\ s[1].frame \in DOMAIN F
  BY <1>0, <1>2 DEF Flows, Fits, Chain, Valid
<1>4. PICK k : k = s[1].frame
  OBVIOUS
<1>5. F[k].len \in Nat /\ HeaderSize <= F[k].len /\ x.pos + n <= F[k].len
  <2>1. F[k].len \in Nat /\ HeaderSize <= F[k].len
    BY <1>3, <1>4 DEF Sized
  <2>2. CASE x.at = "head" /\ n <= HeaderSize - x.pos
    BY <1>0, <2>1, <2>2
  <2>3. CASE x.at = "rest" /\ n <= x.total - x.pos
    <3>1. x.total = F[k].len
      BY <1>1, <1>3, <1>4, <2>3 DEF Holds
    <3>. QED
      BY <1>0, <2>1, <2>3, <3>1
  <2>. QED
    BY <2>1, <2>2, <2>3
<1>6. \A i \in 1..n : s[i].frame = k /\ s[i].pos = x.pos + i
  <2>1. PICK p \in Nat : p = x.pos
    BY <1>0
  <2>2. s[1].pos = p + 1 /\ p + n <= F[s[1].frame].len /\ Chain(F, s)
    BY <1>3, <1>4, <1>5, <2>1 DEF Flows
  <2>3. \A i \in 1..n : s[i].frame = s[1].frame /\ s[i].pos = p + i
    BY <2>2, Run
  <2>. QED
    BY <1>4, <2>1, <2>3
<1>7. ASSUME NEW i \in 1..(x.pos + n) PROVE y.Buffer[i].frame = k /\ y.Buffer[i].pos = i
  <2>1. CASE i <= x.pos
    <3>1. i \in 1..x.pos /\ x.pos > 0
      BY <1>0, <2>1
    <3>2. x.Buffer[i].frame = x.Buffer[1].frame /\ x.Buffer[i].pos = i
      BY <3>1 DEF Holds
    <3>. QED
      BY <1>3, <1>4, <3>1, <3>2
  <2>2. CASE i > x.pos
    <3>1. PICK j \in 1..n : i = x.pos + j
      <4>1. i - x.pos \in 1..n /\ i = x.pos + (i - x.pos)
        BY <1>0, <2>2
      <4>. QED
        BY <4>1
    <3>. QED
      BY <1>6, <3>1
  <2>. QED
    BY <1>0, <2>1, <2>2
<1>8. y.Buffer[1].frame = k
  BY <1>0, <1>7
<1>9. Holds(F, y)
  BY <1>0, <1>1, <1>3, <1>4, <1>5, <1>7, <1>8 DEF Holds
<1>10. Mid(F, y) <=> ~IsLast(F, s[n])
  <2>1. s[n].frame = k /\ s[n].pos = x.pos + n
    BY <1>0, <1>6
  <2>. QED
    BY <1>0, <1>5, <1>8, <2>1 DEF Mid, IsLast
<1>11. PICK d \in Seq(Byte) : d = Drop(s, n) /\ Len(d) = Len(s) - n
                              /\ \A i \in 1..(Len(s) - n) : d[i] = s[n + i]
  BY <1>0, Dropped
<1>12. Chain(F, d)
  BY <1>0, <1>11, ChainDropped DEF Flows
<1>13. ASSUME Len(d) > 0 PROVE Fits(F, y, d[1])
  <2>1. d[1] = s[n + 1] /\ n \in 1..(Len(s) - 1)
    BY <1>0, <1>11, <1>13
  <2>2. Follows(F, s[n], s[n + 1])
    BY <2>1 DEF Flows, Chain
  <2>3. s[n].frame = k /\ s[n].pos = x.pos + n
    BY <1>0, <1>6
  <2>. QED
    BY <1>8, <1>10, <2>1, <2>2, <2>3 DEF Follows, Fits
<1>14. ASSUME uncut, Len(d) > 0 PROVE IsLast(F, d[Len(d)])
  <2>1. d[Len(d)] = s[Len(s)] /\ Len(s) > 0
    <3>1. PICK l : l = Len(d)
      OBVIOUS
    <3>2. l \in 1..(Len(s) - n) /\ n + l = Len(s)
      BY <1>0, <1>11, <1>14, <3>1
    <3>3. d[l] = s[n + l]
      BY <1>11, <3>2
    <3>4. Len(s) > 0
      BY <1>0
    <3>5. d[Len(d)] = d[l] /\ s[n + l] = s[Len(s)]
      BY <3>1, <3>2, Zenon
    <3>. QED
      BY <3>3, <3>4, <3>5, Zenon
  <2>. QED
    BY <1>14, <2>1 DEF Flows
<1>15. ASSUME uncut, Len(d) = 0 PROVE ~Mid(F, y)
  BY <1>0, <1>10, <1>11, <1>15, SMTT(30) DEF Flows
<1>. QED
  BY <1>9, <1>11, <1>12, <1>13, <1>14, <1>15 DEF Flows

\* The power is taken from the beginning of a frame: its message is next.
LEMMA PowerOn ==
    ASSUME NEW F, Sized(F), NEW x, ~Mid(F, x), NEW s \in Seq(Byte), NEW uncut \in BOOLEAN,
           Flows(F, x, s, uncut), 1 \in 1..Len(s),
           NEW y, y.at = "head", y.pos = 0
    PROVE  Holds(F, y) /\ Flows(F, y, Drop(s, 1), uncut)
<1>. USE WireAssumption
<1>0. Len(s) \in Nat /\ 1 <= Len(s) /\ 1 \in 0..Len(s)
  OBVIOUS
<1>1. s[1].pos = 0 /\ s[1].frame \in DOMAIN F
  BY <1>0 DEF Flows, Fits, Chain, Valid
<1>2. ~IsLast(F, s[1])
  BY <1>1 DEF IsLast, Sized
<1>3. Mid(F, y) /\ Holds(F, y)
  BY DEF Mid, Holds
<1>4. /\ Drop(s, 1) \in Seq(Byte) /\ Len(Drop(s, 1)) = Len(s) - 1
      /\ \A i \in 1..(Len(s) - 1) : Drop(s, 1)[i] = s[1 + i]
  BY <1>0, Dropped
<1>5. Chain(F, Drop(s, 1))
  BY <1>0, ChainDropped DEF Flows
<1>6. PICK d \in Seq(Byte) : d = Drop(s, 1)
  BY <1>4
<1>7. ASSUME Len(d) > 0 PROVE Fits(F, y, d[1])
  <2>1. 1 \in 1..(Len(s) - 1) /\ 1 + 1 = 2
    BY <1>4, <1>6, <1>7
  <2>2. d[1] = s[2]
    BY <1>4, <1>6, <2>1
  <2>3. Follows(F, s[1], s[2])
    BY <2>1 DEF Flows, Chain
  <2>. QED
    BY <1>1, <1>2, <1>3, <2>2, <2>3 DEF Follows, Fits
<1>8. ASSUME uncut, Len(d) > 0 PROVE IsLast(F, d[Len(d)])
  <2>1. PICK l : l = Len(d)
    OBVIOUS
  <2>2. l \in 1..(Len(s) - 1) /\ 1 + l = Len(s) /\ Len(s) > 0
    BY <1>0, <1>4, <1>6, <1>8, <2>1
  <2>3. d[l] = s[1 + l]
    BY <1>4, <1>6, <2>2
  <2>4. d[Len(d)] = s[Len(s)]
    BY <2>1, <2>2, <2>3, Zenon
  <2>. QED
    BY <1>8, <2>2, <2>4 DEF Flows
<1>9. ASSUME uncut, Len(d) = 0 PROVE FALSE
  <2>1. Len(s) = 1
    BY <1>0, <1>4, <1>6, <1>9
  <2>. QED
    BY <1>2, <1>9, <2>1 DEF Flows
<1>. QED
  BY <1>3, <1>5, <1>6, <1>7, <1>8, <1>9 DEF Flows

\* The first bytes of bytes in step are in step.
LEMMA FlowCut ==
    ASSUME NEW F, NEW x, NEW s \in Seq(Byte), NEW t \in Seq(Byte), NEW uncut \in BOOLEAN,
           Flows(F, x, s \o t, uncut), NEW cut \in BOOLEAN, ~cut
    PROVE  Flows(F, x, s, cut)
<1>1. PICK c \in Seq(Byte) : c = s \o t
  BY Joined, Zenon
<1>2. /\ Len(s) \in Nat /\ Len(t) \in Nat /\ Len(c) = Len(s) + Len(t)
      /\ \A i \in 1..Len(s) : c[i] = s[i]
  BY <1>1, Joined
<1>3. Chain(F, c) /\ (Len(c) > 0 => Fits(F, x, c[1]))
  BY <1>1 DEF Flows
<1>4. ASSUME NEW i \in 1..Len(s) PROVE Valid(F, s[i])
  BY <1>2, <1>3 DEF Chain
<1>5. ASSUME NEW i \in 1..(Len(s) - 1) PROVE Follows(F, s[i], s[i + 1])
  <2>1. PICK j : j = i + 1
    OBVIOUS
  <2>2. i \in 1..(Len(c) - 1) /\ i \in 1..Len(s) /\ j \in 1..Len(s)
    BY <1>2, <2>1
  <2>3. c[i] = s[i] /\ c[j] = s[j]
    BY <1>2, <2>2
  <2>4. Follows(F, c[i], c[j])
    BY <1>3, <2>1, <2>2 DEF Chain
  <2>. QED
    BY <2>1, <2>3, <2>4, Zenon
<1>6. ASSUME Len(s) > 0 PROVE Fits(F, x, s[1])
  <2>1. c[1] = s[1] /\ Len(c) > 0
    BY <1>2, <1>6
  <2>. QED
    BY <1>3, <2>1
<1>. QED
  BY <1>4, <1>5, <1>6 DEF Flows, Chain

\* A reader that is not in a frame may become another one that is not.
LEMMA FlowBetween ==
    ASSUME NEW F, NEW x, NEW y, NEW s, NEW uncut \in BOOLEAN, Flows(F, x, s, uncut),
           ~Mid(F, x), ~Mid(F, y)
    PROVE  Flows(F, y, s, uncut)
  BY DEF Flows, Fits

\* A reader in a frame goes from its header to the rest.
LEMMA FlowInside ==
    ASSUME NEW F, NEW x, NEW y, NEW s, NEW uncut \in BOOLEAN, Flows(F, x, s, uncut),
           Mid(F, x) <=> Mid(F, y), y.pos = x.pos, x.pos > 0 => y.Buffer[1] = x.Buffer[1]
    PROVE  Flows(F, y, s, uncut)
  BY DEF Flows, Fits

\* Behind whole frames, a whole frame.
LEMMA FlowAppend ==
    ASSUME NEW F, NEW x, NEW s \in Seq(Byte), Flows(F, x, s, TRUE),
           NEW f \in Seq(Byte), Chain(F, f), Len(f) > 0, f[1].pos = 0, IsLast(F, f[Len(f)])
    PROVE  Flows(F, x, s \o f, TRUE)
<1>1. PICK c \in Seq(Byte) : c = s \o f
  BY Joined, Zenon
<1>2. /\ Len(s) \in Nat /\ Len(f) \in Nat /\ Len(c) = Len(s) + Len(f)
      /\ \A i \in 1..Len(s) : c[i] = s[i]
      /\ \A i \in 1..Len(f) : c[Len(s) + i] = f[i]
  BY <1>1, Joined
<1>3. ASSUME NEW i \in 1..Len(c), i > Len(s) PROVE \E j \in 1..Len(f) : i = Len(s) + j
  <2>1. i - Len(s) \in 1..Len(f) /\ i = Len(s) + (i - Len(s))
    BY <1>2, <1>3
  <2>. QED
    BY <2>1
<1>4. ASSUME NEW i \in 1..Len(c) PROVE Valid(F, c[i])
  <2>1. CASE i <= Len(s)
    BY <1>2, <2>1 DEF Flows, Chain
  <2>2. CASE i > Len(s)
    <3>1. PICK j \in 1..Len(f) : i = Len(s) + j
      BY <1>3, <2>2
    <3>. QED
      BY <1>2, <3>1 DEF Chain
  <2>. QED
    BY <1>2, <2>1, <2>2
<1>5. ASSUME NEW i \in 1..(Len(c) - 1) PROVE Follows(F, c[i], c[i + 1])
  <2>1. PICK h : h = i + 1
    OBVIOUS
  <2>2. CASE i < Len(s)
    <3>1. i \in 1..(Len(s) - 1) /\ i \in 1..Len(s) /\ h \in 1..Len(s)
      BY <1>2, <2>1, <2>2
    <3>2. c[i] = s[i] /\ c[h] = s[h]
      BY <1>2, <3>1
    <3>3. Follows(F, s[i], s[h])
      BY <2>1, <3>1 DEF Flows, Chain
    <3>. QED
      BY <2>1, <3>2, <3>3, Zenon
  <2>3. CASE i = Len(s)
    <3>1. Len(s) \in 1..Len(s) /\ 1 \in 1..Len(f) /\ h = Len(s) + 1 /\ Len(s) > 0
      BY <1>2, <2>1, <2>3
    <3>2. c[i] = s[i] /\ c[h] = f[1]
      BY <1>2, <2>3, <3>1
    <3>3. IsLast(F, s[i])
      BY <2>3, <3>1 DEF Flows
    <3>. QED
      BY <2>1, <3>2, <3>3 DEF Follows
  <2>4. CASE i > Len(s)
    <3>0. i \in 1..Len(c)
      BY <1>2
    <3>1. PICK j \in 1..Len(f) : i = Len(s) + j
      BY <1>3, <2>4, <3>0
    <3>2. PICK l : l = j + 1
      OBVIOUS
    <3>3. j \in 1..(Len(f) - 1) /\ l \in 1..Len(f) /\ h = Len(s) + l
      BY <1>2, <2>1, <3>1, <3>2
    <3>4. c[i] = f[j] /\ c[h] = f[l]
      BY <1>2, <3>1, <3>3
    <3>5. Follows(F, f[j], f[l])
      BY <3>2, <3>3 DEF Chain
    <3>. QED
      BY <2>1, <3>4, <3>5, Zenon
  <2>. QED
    BY <1>2, <2>2, <2>3, <2>4
<1>6. Len(c) > 0 /\ IsLast(F, c[Len(c)])
  <2>1. PICK l : l = Len(f)
    OBVIOUS
  <2>2. l \in 1..Len(f) /\ Len(s) + l = Len(c) /\ Len(c) > 0
    BY <1>2, <2>1
  <2>3. c[Len(s) + l] = f[l]
    BY <1>2, <2>2
  <2>4. c[Len(c)] = f[Len(f)]
    BY <2>1, <2>2, <2>3, Zenon
  <2>. QED
    BY <2>2, <2>4
<1>7. Fits(F, x, c[1])
  <2>1. CASE Len(s) > 0
    <3>1. c[1] = s[1]
      BY <1>2, <2>1
    <3>. QED
      BY <2>1, <3>1 DEF Flows
  <2>2. CASE Len(s) = 0
    <3>1. 1 \in 1..Len(f) /\ Len(s) + 1 = 1
      BY <1>2, <2>2
    <3>2. c[1] = f[1]
      BY <1>2, <3>1
    <3>. QED
      BY <2>2, <3>2 DEF Flows, Fits
  <2>. QED
    BY <1>2, <2>1, <2>2
<1>. QED
  BY <1>1, <1>2, <1>4, <1>5, <1>6, <1>7 DEF Flows, Chain

\* A power and its message are a whole frame.
LEMMA WholeFrame ==
    ASSUME NEW F, Sized(F), NEW k \in DOMAIN F, k \in 1..MaxFrames, NEW m \in Seq(Byte), Len(m) = F[k].len,
           \A i \in 1..Len(m) : m[i].frame = k /\ m[i].pos = i
    PROVE  /\ Power(k) \o m \in Seq(Byte) /\ Chain(F, Power(k) \o m) /\ Len(Power(k) \o m) > 0
           /\ (Power(k) \o m)[1].pos = 0 /\ IsLast(F, (Power(k) \o m)[Len(Power(k) \o m)])
<1>0. Len(m) \in Nat /\ Len(m) > 0 /\ F[k].len = Len(m)
  BY WireAssumption DEF Sized
<1>1. PICK w \in Seq(Byte) : w = Power(k) /\ Len(w) = 1 /\ w[1] = [frame |-> k, pos |-> 0]
  BY FrameBytes, 0 \in Nat, Zenon
<1>2. PICK c \in Seq(Byte) : c = w \o m
  BY Joined, Zenon
<1>3. /\ Len(c) = 1 + Len(m) /\ c[1] = w[1]
      /\ \A i \in 1..Len(m) : c[1 + i] = m[i]
  <2>1. IsJoined(c, w, m)
    BY <1>2, JoinedBytes
  <2>. QED
    BY <1>1, <2>1 DEF IsJoined
<1>4. PICK l \in Nat : l = Len(m) /\ l > 0 /\ F[k].len = l /\ Len(c) = 1 + l
  BY <1>0, <1>3
<1>5. ASSUME NEW i \in 1..(1 + l) PROVE c[i].frame = k /\ c[i].pos = i - 1
  <2>1. CASE i = 1
    BY <1>1, <1>3, <2>1
  <2>2. CASE i > 1
    <3>1. PICK j \in 1..l : i = 1 + j
      <4>1. i - 1 \in 1..l /\ i = 1 + (i - 1)
        BY <2>2
      <4>. QED
        BY <4>1
    <3>2. c[i] = m[j] /\ m[j].frame = k /\ m[j].pos = j
      BY <1>3, <1>4, <3>1
    <3>. QED
      BY <3>1, <3>2
  <2>. QED
    BY <2>1, <2>2
<1>6. ASSUME NEW i \in 1..(1 + l) PROVE Valid(F, c[i])
  BY <1>4, <1>5 DEF Valid
<1>7. ASSUME NEW i \in 1..l PROVE Follows(F, c[i], c[i + 1])
  <2>1. PICK h : h = i + 1
    OBVIOUS
  <2>2. i \in 1..(1 + l) /\ h \in 1..(1 + l) /\ i - 1 # l /\ (i - 1) + 1 = h - 1
    BY <2>1
  <2>3. c[i].frame = k /\ c[i].pos = i - 1 /\ c[h].frame = k /\ c[h].pos = h - 1
    BY <1>5, <2>2
  <2>4. Follows(F, c[i], c[h])
    BY <1>4, <2>2, <2>3 DEF Follows, IsLast
  <2>. QED
    BY <2>1, <2>4
<1>8. Len(c) > 0 /\ c[1].pos = 0 /\ IsLast(F, c[Len(c)])
  <2>1. 1 \in 1..(1 + l) /\ 1 + l \in 1..(1 + l)
    OBVIOUS
  <2>2. c[1].pos = 0 /\ c[1 + l].frame = k /\ c[1 + l].pos = l
    BY <1>5, <2>1
  <2>. QED
    BY <1>4, <2>2 DEF IsLast
<1>9. 1..Len(c) = 1..(1 + l) /\ 1..(Len(c) - 1) = 1..l
  BY <1>4
<1>10. Chain(F, c)
  BY <1>6, <1>7, <1>9, Zenon DEF Chain
<1>. QED
  BY <1>1, <1>2, <1>8, <1>10

\* A frame that is transmitted later changes nothing.
LEMMA FlowLater ==
    ASSUME NEW F, NEW G, \A k \in DOMAIN F : k \in DOMAIN G /\ G[k] = F[k],
           NEW x, Holds(F, x)
    PROVE  /\ Holds(G, x)
           /\ \A s, uncut : Flows(F, x, s, uncut) => Flows(G, x, s, uncut)
<1>1. Holds(G, x)
  BY DEF Holds
<1>2. Mid(F, x) <=> Mid(G, x)
  BY DEF Holds, Mid
<1>3. ASSUME NEW s, NEW uncut, Flows(F, x, s, uncut) PROVE Flows(G, x, s, uncut)
  <2>1. \A b : Valid(F, b) => Valid(G, b) /\ (IsLast(F, b) <=> IsLast(G, b))
    BY DEF Valid, IsLast
  <2>2. Chain(F, s)
    BY <1>3 DEF Flows
  <2>3. \A i \in 1..Len(s) : Valid(F, s[i]) /\ Valid(G, s[i]) /\ (IsLast(F, s[i]) <=> IsLast(G, s[i]))
    BY <2>1, <2>2 DEF Chain
  <2>. QED
    BY <1>2, <1>3, <2>3 DEF Flows, Chain, Fits, Follows
<1>. QED
  BY <1>1, <1>3

-----------------------------------------------------------------------------
(***************************************************************************)
(* The inductive invariant of InStep                                       *)
(***************************************************************************)

\* Who reads what guest g sends: nobody is in a frame of it while it is not served.
UpReader(g) == IF src = g THEN rd[Server] ELSE NewReader

\* What guest g has sent and the server has not read, and what it will send.
Upstream(g) == up[g] \o out[g]

\* What is sent to guest g and it has not read.
Downstream(g) == down[g] \o (IF dst = g THEN sending ELSE <<>>)

\* Guest g may still read from the connection it has.
Serving(g) == rd[g].at # "failed" /\ (rd[g].at = "idle" => connected[g])

\* Every buffer holds the beginning of one frame.
BuffersHold == \A r \in Reader : Holds(frames, rd[r])

\* Where the server is tells which guests it is about.
ServerShape ==
    /\ src = Server <=> ServerAt("idle")
    /\ src # Server => conn[src] \in {"open", "left"}
    /\ ~ServerAt("send") => dst = Server /\ to = {} /\ sending = <<>>
    /\ ServerAt("send") => dst \notin to /\ dst # src /\ src \notin to
    /\ \A g \in to : conn[g] \in {"open", "left"}

\* A guest that has left begins again with nothing.
LeftShape == \A g \in Guests : conn[g] = "left" => ~connected[g] /\ rd[g].at = "idle"

\* The server is in step with what guest g sends, until one of the two is gone.
UpFlow(g) ==
    conn[g] \in {"open", "left"} /\ ~(src = g /\ ServerAt("failed")) =>
        Flows(frames, UpReader(g), Upstream(g), conn[g] = "open")

\* Guest g is in step with what the server sends to it, as long as it reads.
DownFlow(g) ==
    conn[g] # "left" /\ Serving(g) =>
        Flows(frames, rd[g], Downstream(g), conn[g] = "open")

\* The inductive invariant: no reader is ever inside another frame than its sender.
StepInv ==
    /\ BuffersHold /\ ServerShape /\ LeftShape
    /\ \A g \in Guests : UpFlow(g) /\ DownFlow(g)

\* Every frame that was transmitted has a header.
LEMMA FramesSized ==
    ASSUME WireTypeOK
    PROVE  Sized(frames)
<1>1. frames \in Seq([from : Guests, len : Sizes])
  BY DEF WireTypeOK
<1>2. \A k \in DOMAIN frames : frames[k] \in [from : Guests, len : Sizes]
  BY <1>1, ElementOfSeq, LenProperties
<1>3. \A l \in Sizes : l \in Nat /\ HeaderSize <= l
  BY WireAssumption
<1>. QED
  BY <1>2, <1>3 DEF Sized

\* Bytes that are taken leave those behind them where they are.
LEMMA DropJoined ==
    ASSUME NEW a \in Seq(Byte), NEW t \in Seq(Byte), NEW n \in 0..Len(a)
    PROVE  /\ n \in 0..Len(a \o t)
           /\ Drop(a \o t, n) = Drop(a, n) \o t
           /\ \A i \in 1..n : SubSeq(a, 1, n)[i] = (a \o t)[i]
<1>1. PICK c \in Seq(Byte) : c = a \o t
  BY Joined, Zenon
<1>2. /\ Len(a) \in Nat /\ Len(t) \in Nat /\ Len(c) = Len(a) + Len(t)
      /\ \A i \in 1..Len(a) : c[i] = a[i]
      /\ \A i \in 1..Len(t) : c[Len(a) + i] = t[i]
  BY <1>1, Joined
<1>3. n \in 0..Len(c)
  BY <1>2
<1>4. \A i \in 1..n : SubSeq(a, 1, n)[i] = c[i]
  <2>1. \A i \in 1..n : SubSeq(a, 1, n)[i] = a[i]
    BY Dropped
  <2>. QED
    BY <1>2, <2>1
<1>5. PICK d \in Seq(Byte) : /\ d = Drop(a, n) /\ Len(d) = Len(a) - n
                             /\ \A i \in 1..(Len(a) - n) : d[i] = a[n + i]
  <2>1. /\ Drop(a, n) \in Seq(Byte) /\ Len(Drop(a, n)) = Len(a) - n
        /\ \A i \in 1..(Len(a) - n) : Drop(a, n)[i] = a[n + i]
    BY Dropped
  <2>. QED
    BY <2>1
<1>6. PICK e \in Seq(Byte) : /\ e = Drop(c, n) /\ Len(e) = Len(c) - n
                             /\ \A i \in 1..(Len(c) - n) : e[i] = c[n + i]
  <2>1. /\ Drop(c, n) \in Seq(Byte) /\ Len(Drop(c, n)) = Len(c) - n
        /\ \A i \in 1..(Len(c) - n) : Drop(c, n)[i] = c[n + i]
    BY <1>3, Dropped
  <2>. QED
    BY <2>1
<1>7. PICK f \in Seq(Byte) : /\ f = d \o t /\ Len(f) = Len(d) + Len(t)
                             /\ \A i \in 1..Len(d) : f[i] = d[i]
                             /\ \A i \in 1..Len(t) : f[Len(d) + i] = t[i]
  <2>1. /\ d \o t \in Seq(Byte) /\ Len(d \o t) = Len(d) + Len(t)
        /\ \A i \in 1..Len(d) : (d \o t)[i] = d[i]
        /\ \A i \in 1..Len(t) : (d \o t)[Len(d) + i] = t[i]
    BY Joined
  <2>. QED
    BY <2>1, Zenon
<1>8. Len(e) = Len(f)
  BY <1>2, <1>5, <1>6, <1>7
<1>9. ASSUME NEW i \in 1..Len(e) PROVE e[i] = f[i]
  <2>0. e[i] = c[n + i]
    BY <1>6
  <2>1. CASE i <= Len(d)
    <3>1. i \in 1..Len(d) /\ n + i \in 1..Len(a)
      BY <1>2, <1>5, <2>1
    <3>2. f[i] = d[i] /\ d[i] = a[n + i] /\ c[n + i] = a[n + i]
      BY <1>2, <1>5, <1>7, <3>1
    <3>. QED
      BY <2>0, <3>2
  <2>2. CASE i > Len(d)
    <3>1. PICK j \in 1..Len(t) : i = Len(d) + j
      <4>1. i - Len(d) \in 1..Len(t) /\ i = Len(d) + (i - Len(d))
        <5>1. Len(e) = Len(d) + Len(t) /\ Len(d) \in Nat /\ Len(t) \in Nat
          BY <1>7, <1>8
        <5>. QED
          BY <2>2, <5>1
      <4>. QED
        BY <4>1
    <3>2. n + i = Len(a) + j
      BY <1>2, <1>5, <3>1, SMTT(30)
    <3>3. f[Len(d) + j] = t[j] /\ c[Len(a) + j] = t[j]
      BY <1>2, <1>7
    <3>. QED
      BY <2>0, <3>1, <3>2, <3>3, Zenon
  <2>. QED
    BY <1>5, <2>1, <2>2
<1>10. e = f
  BY <1>8, <1>9, SeqEqual
<1>. QED
  BY <1>1, <1>3, <1>4, <1>5, <1>6, <1>7, <1>10, Zenon

\* A read takes the first bytes of the connection.
LEMMA TakesIn ==
    ASSUME WireTypeOK, NEW r \in Reader, NEW n \in 1..Len(In(r)), Takes(r, n), src' = src
    PROVE  In(r)' = Drop(In(r), n)
<1>0. up \in [Guests -> Seq(Byte)] /\ down \in [Guests -> Seq(Byte)] /\ src \in Guests \cup {Server}
  BY DEF WireTypeOK
<1>1. CASE r = Server
  <2>1. src \in Guests /\ src # Server /\ In(r) = up[src]
    BY <1>0, <1>1, WireAssumption DEF In
  <2>2. up' = [up EXCEPT ![src] = Drop(up[src], n)]
    BY <1>1, Zenon DEF Takes
  <2>3. up'[src] = Drop(up[src], n)
    BY <1>0, <2>1, <2>2, Zenon
  <2>. QED
    BY <1>1, <2>1, <2>3, Zenon DEF In
<1>2. CASE r # Server
  <2>1. r \in Guests /\ In(r) = down[r]
    BY <1>2 DEF In, Reader
  <2>2. down' = [down EXCEPT ![r] = Drop(down[r], n)]
    BY <1>2, Zenon DEF Takes
  <2>3. down'[r] = Drop(down[r], n)
    BY <1>0, <2>1, <2>2, Zenon
  <2>. QED
    BY <1>2, <2>1, <2>3, Zenon DEF In
<1>. QED
  BY <1>1, <1>2

\* The header that is in the buffer tells the size of its frame.
LEMMA HeaderLen ==
    ASSUME WireTypeOK, NEW x \in Reading, BufferOK(x), Holds(frames, x), x.at = "head", x.pos = HeaderSize,
           NEW len \in NlmsgLen(x.Buffer)
    PROVE  len = frames[x.Buffer[1].frame].len
<1>. USE WireAssumption
<1>1. PICK k : k = x.Buffer[1].frame
  OBVIOUS
<1>2. /\ k \in DOMAIN frames
      /\ \A i \in 1..HeaderSize : x.Buffer[i] \in Byte /\ x.Buffer[i].frame = k /\ x.Buffer[i].pos = i
  BY <1>1 DEF Holds, BufferOK
<1>3. \A b \in Byte : b = [frame |-> b.frame, pos |-> b.pos]
  BY DEF Byte
<1>4. \A i \in 1..HeaderSize : x.Buffer[i] = [frame |-> k, pos |-> i]
  BY <1>2, <1>3
<1>. DEFINE whole == {j \in DOMAIN frames : \A i \in 1..HeaderSize : x.Buffer[i] = [frame |-> j, pos |-> i]}
<1>5. k \in whole
  BY <1>2, <1>4
<1>6. ASSUME NEW j \in whole PROVE j = k
  <2>1. 1 \in 1..HeaderSize
    OBVIOUS
  <2>2. x.Buffer[1] = [frame |-> j, pos |-> 1]
    BY <2>1
  <2>. QED
    BY <1>1, <2>2
<1>7. len \in {frames[j].len : j \in whole}
  BY <1>5, Zenon DEF NlmsgLen
<1>8. PICK j \in whole : len = frames[j].len
  BY <1>7, Zenon
<1>. QED
  BY <1>1, <1>6, <1>8, Zenon

\* One step of RecvSignalWithSocket keeps its reader in step.
LEMMA RecvFlow ==
    ASSUME WireInv, NEW r \in Reader, RecvSignal(r), Holds(frames, rd[r]),
           NEW t \in Seq(Byte), NEW uncut \in BOOLEAN, Flows(frames, rd[r], In(r) \o t, uncut)
    PROVE  /\ frames' = frames /\ rd[r].at \in {"power", "head", "rest"}
           /\ \E y \in Reading :
                 /\ rd' = [rd EXCEPT ![r] = y]
                 /\ Holds(frames, y) /\ y.at \in {"head", "rest", "done", "failed"}
                 /\ y.at # "failed" => Flows(frames, y, In(r)' \o t, uncut)
<1>. USE WireAssumption
<1>0. WireTypeOK /\ rd \in [Reader -> Reading] /\ Sized(frames) /\ In(r) \in Seq(Byte)
  BY InType, FramesSized DEF WireInv, WireTypeOK
<1>a. PICK x \in Reading : x = rd[r]
  BY <1>0
<1>b. BufferOK(x) /\ Holds(frames, x)
  BY <1>a DEF WireInv, BuffersOK
<1>c. PICK s \in Seq(Byte) : s = In(r) \o t /\ Len(s) = Len(In(r)) + Len(t)
  BY <1>0, Joined
<1>d. Flows(frames, x, s, uncut)
  BY <1>a, <1>c
<1>e. ASSUME NEW n \in 1..Len(In(r)), Takes(r, n), src' = src
      PROVE  /\ n \in 1..Len(s) /\ Drop(s, n) = In(r)' \o t
             /\ \A i \in 1..n : SubSeq(In(r), 1, n)[i] = s[i]
  <2>1. In(r)' = Drop(In(r), n)
    BY <1>0, <1>e, TakesIn
  <2>2. PICK a \in Seq(Byte) : a = In(r)
    BY <1>0
  <2>3. n \in 0..Len(a)
    BY <1>e, <2>2
  <2>4. Drop(a \o t, n) = Drop(a, n) \o t /\ \A i \in 1..n : SubSeq(a, 1, n)[i] = (a \o t)[i]
    BY <2>3, DropJoined
  <2>5. n \in 1..Len(s)
    BY <1>0, <1>c, <1>e
  <2>. QED
    BY <1>c, <2>1, <2>2, <2>4, <2>5, Zenon
<1>1. CASE ReadPower(r)
  <2>1. PICK y \in Reading : rd' = [rd EXCEPT ![r] = y] /\ y.at = "head" /\ y.pos = 0
    <3>1. PICK y \in Reading :
              /\ y = [at |-> "head", pos |-> 0, total |-> x.total,
                      Buffer |-> NeededSize(x.Buffer, HeaderSize, FALSE)]
              /\ y.at = "head" /\ y.pos = 0
      BY <1>b, PowerFits
    <3>2. rd' = [rd EXCEPT ![r] = y]
      BY <1>1, <1>a, <3>1, Zenon DEF ReadPower
    <3>. QED
      BY <3>1, <3>2
  <2>3. 1 \in 1..Len(In(r))
    BY <1>0, <1>1 DEF ReadPower
  <2>4. 1 \in 1..Len(s) /\ Drop(s, 1) = In(r)' \o t
    BY <1>1, <1>e, <2>3 DEF ReadPower, server
  <2>5. ~Mid(frames, x) /\ rd[r].at = "power" /\ frames' = frames
    BY <1>1, <1>a DEF ReadPower, Mid
  <2>6. Holds(frames, y) /\ Flows(frames, y, Drop(s, 1), uncut)
    BY <1>0, <1>d, <2>1, <2>4, <2>5, PowerOn
  <2>. QED
    BY <2>1, <2>4, <2>5, <2>6
<1>2. ASSUME NEW n \in 1..Len(In(r)), ReadSome(r, n)
      PROVE  /\ frames' = frames /\ rd[r].at \in {"power", "head", "rest"}
             /\ \E y \in Reading :
                   /\ rd' = [rd EXCEPT ![r] = y]
                   /\ Holds(frames, y) /\ y.at \in {"head", "rest", "done", "failed"}
                   /\ y.at # "failed" => Flows(frames, y, In(r)' \o t, uncut)
  <2>0. n \in 0..Len(In(r))
    BY <1>0, <1>2
  <2>1. PICK bytes \in Seq(Byte) : bytes = SubSeq(In(r), 1, n) /\ Len(bytes) = n
    BY <1>0, <2>0, Dropped, ZenonT(40)
  <2>2. \/ x.at = "head" /\ Len(bytes) <= HeaderSize - x.pos
        \/ x.at = "rest" /\ Len(bytes) <= x.total - x.pos
    BY <1>2, <1>a, <2>1 DEF ReadSome, SizeToRead
  <2>3. PICK y \in Reading :
              /\ y = [at |-> x.at, pos |-> x.pos + Len(bytes), total |-> x.total,
                      Buffer |-> Filled(x.Buffer, x.pos, bytes)]
              /\ y.at = x.at /\ y.total = x.total /\ y.pos = x.pos + Len(bytes)
              /\ \A i \in 1..x.pos : y.Buffer[i] = x.Buffer[i]
              /\ \A i \in 1..Len(bytes) : y.Buffer[x.pos + i] = bytes[i]
    BY <1>b, <2>2, SomeFits
  <2>4. rd' = [rd EXCEPT ![r] = y]
    BY <1>2, <1>a, <2>1, <2>3, Zenon DEF ReadSome
  <2>5. n \in 1..Len(s) /\ Drop(s, n) = In(r)' \o t /\ \A i \in 1..n : bytes[i] = s[i]
    BY <1>2, <1>e, <2>1 DEF ReadSome, server
  <2>6. \A i \in 1..n : y.Buffer[x.pos + i] = s[i]
    BY <2>1, <2>3, <2>5
  <2>7. \/ x.at = "head" /\ n <= HeaderSize - x.pos
        \/ x.at = "rest" /\ n <= x.total - x.pos
    BY <2>1, <2>2
  <2>8. y.pos = x.pos + n
    BY <2>1, <2>3
  <2>9. Holds(frames, y) /\ Flows(frames, y, Drop(s, n), uncut)
    BY <1>0, <1>b, <1>d, <2>3, <2>5, <2>6, <2>7, <2>8, ReadOn, ZenonT(40)
  <2>10. frames' = frames /\ rd[r].at \in {"power", "head", "rest"} /\ y.at \in {"head", "rest"}
    BY <1>2, <1>a, <2>3 DEF ReadSome
  <2>. QED
    BY <2>4, <2>5, <2>9, <2>10
<1>3. CASE ReadHeader(r)
  <2>1. PICK len \in NlmsgLen(x.Buffer) :
           rd' = [rd EXCEPT ![r] =
                    IF len > MTU
                    THEN [x EXCEPT !.at = "failed"]
                    ELSE [at |-> "rest", pos |-> x.pos, total |-> len,
                          Buffer |-> NeededSize(x.Buffer, len, TRUE)]]
    BY <1>3, <1>a, Zenon DEF ReadHeader
  <2>2. /\ x.at = "head" /\ x.pos = HeaderSize /\ frames' = frames /\ UNCHANGED <<up, down, src>>
        /\ rd[r].at \in {"power", "head", "rest"}
    BY <1>3, <1>a DEF ReadHeader, server
  <2>3. len = frames[x.Buffer[1].frame].len
    BY <1>0, <1>b, <2>2, HeaderLen
  <2>4. x.Buffer[1].frame \in DOMAIN frames /\ len \in Nat /\ HeaderSize <= len
    BY <1>0, <1>b, <2>2, <2>3 DEF Holds, Sized
  <2>5. CASE len > MTU
    <3>1. PICK y : y = [x EXCEPT !.at = "failed"]
      OBVIOUS
    <3>2. y \in Reading /\ y.at = "failed"
      BY <3>1, NewStage DEF Stage
    <3>3. rd' = [rd EXCEPT ![r] = y]
      BY <2>1, <2>5, <3>1, Zenon
    <3>. QED
      BY <2>2, <3>2, <3>3 DEF Holds
  <2>6. CASE ~(len > MTU)
    <3>1. len <= MTU
      BY <2>4, <2>6
    <3>2. PICK y \in Reading :
              /\ rd' = [rd EXCEPT ![r] = y]
              /\ y.at = "rest" /\ y.total = len /\ y.pos = x.pos
              /\ \A i \in 1..x.pos : y.Buffer[i] = x.Buffer[i]
      <4>1. \E y \in Reading :
              /\ y = [at |-> "rest", pos |-> x.pos, total |-> len,
                      Buffer |-> NeededSize(x.Buffer, len, TRUE)]
              /\ y.at = "rest" /\ y.total = len /\ y.pos = x.pos
              /\ \A i \in 1..x.pos : y.Buffer[i] = x.Buffer[i]
              /\ BufferOK(y)
        BY <1>b, <2>2, <2>4, <3>1, HeaderFits
      <4>2. PICK y \in Reading :
              /\ y = [at |-> "rest", pos |-> x.pos, total |-> len,
                      Buffer |-> NeededSize(x.Buffer, len, TRUE)]
              /\ y.at = "rest" /\ y.total = len /\ y.pos = x.pos
              /\ \A i \in 1..x.pos : y.Buffer[i] = x.Buffer[i]
        BY <4>1
      <4>3. rd' = [rd EXCEPT ![r] = y]
        BY <2>1, <2>6, <4>2, Zenon
      <4>. QED
        BY <4>2, <4>3
    <3>a. x.pos > 0 /\ 1 \in 1..x.pos
      BY <2>2
    <3>4. x.pos > 0 /\ y.Buffer[1] = x.Buffer[1]
      BY <3>2, <3>a, Zenon
    <3>5. Holds(frames, y)
      <4>1. /\ y.at = "rest" /\ y.pos = x.pos /\ \A i \in 1..x.pos : y.Buffer[i] = x.Buffer[i]
            /\ y.total = frames[x.Buffer[1].frame].len
        BY <2>3, <3>2, Zenon
      <4>2. /\ x.Buffer[1].frame \in DOMAIN frames /\ x.pos <= frames[x.Buffer[1].frame].len
            /\ \A i \in 1..x.pos : x.Buffer[i].frame = x.Buffer[1].frame /\ x.Buffer[i].pos = i
        BY <1>b, <2>2, <3>4 DEF Holds
      <4>3. \A i \in 1..x.pos : y.Buffer[i].frame = x.Buffer[1].frame /\ y.Buffer[i].pos = i
        BY <4>1, <4>2, Zenon
      <4>. QED
        BY <3>4, <4>1, <4>2, <4>3 DEF Holds
    <3>6. Mid(frames, x) <=> Mid(frames, y)
      BY <2>2, <3>2, <3>4 DEF Mid
    <3>7. Flows(frames, y, s, uncut)
      BY <1>d, <3>2, <3>4, <3>6, FlowInside
    <3>8. In(r)' \o t = s
      BY <1>c, <2>2, Zenon DEF In
    <3>. QED
      BY <2>2, <3>2, <3>5, <3>7, <3>8
  <2>. QED
    BY <2>5, <2>6
<1>4. CASE ReadDone(r)
  <2>1. PICK y : y = [x EXCEPT !.at = "done"]
    OBVIOUS
  <2>2. y \in Reading /\ y.at = "done" /\ y.pos = x.pos /\ y.total = x.total /\ y.Buffer = x.Buffer
    BY <2>1, NewStage DEF Stage
  <2>3. rd' = [rd EXCEPT ![r] = y]
    BY <1>4, <1>a, <2>1, Zenon DEF ReadDone
  <2>4. /\ x.at = "rest" /\ x.total <= x.pos /\ frames' = frames /\ UNCHANGED <<up, down, src>>
        /\ rd[r].at \in {"power", "head", "rest"}
    BY <1>4, <1>a, ReadingType DEF ReadDone, server
  <2>5. x.pos \in Nat /\ x.pos > 0 /\ x.total \in Nat
    BY <1>b, <2>4, ReadingType DEF BufferOK
  <2>6. x.pos = x.total /\ x.total = frames[x.Buffer[1].frame].len
    BY <1>b, <2>4, <2>5 DEF Holds
  <2>7. Holds(frames, y)
    BY <1>b, <2>2, <2>4, <2>5, <2>6 DEF Holds
  <2>8. ~Mid(frames, x) /\ ~Mid(frames, y)
    BY <2>2, <2>5, <2>6 DEF Mid
  <2>9. Flows(frames, y, s, uncut)
    BY <1>d, <2>8, FlowBetween
  <2>10. In(r)' \o t = s
    BY <1>c, <2>4, Zenon DEF In
  <2>. QED
    BY <2>2, <2>3, <2>4, <2>7, <2>9, <2>10
<1>5. CASE ReadFails(r)
  <2>1. PICK y : y = [x EXCEPT !.at = "failed"]
    OBVIOUS
  <2>2. y \in Reading /\ y.at = "failed"
    BY <2>1, NewStage DEF Stage
  <2>3. rd' = [rd EXCEPT ![r] = y]
    BY <1>5, <1>a, <2>1, Zenon DEF ReadFails
  <2>4. frames' = frames /\ rd[r].at \in {"power", "head", "rest"}
    BY <1>5 DEF ReadFails
  <2>. QED
    BY <2>2, <2>3, <2>4 DEF Holds
<1>. QED
  BY <1>1, <1>2, <1>3, <1>4, <1>5 DEF RecvSignal

-----------------------------------------------------------------------------
(***************************************************************************)
(* What the steps leave alone                                              *)
(***************************************************************************)

\* The streams are bytes.
LEMMA StreamType ==
    ASSUME WireTypeOK, NEW g \in Guests
    PROVE  /\ Upstream(g) \in Seq(Byte) /\ Downstream(g) \in Seq(Byte)
           /\ up[g] \in Seq(Byte) /\ out[g] \in Seq(Byte) /\ down[g] \in Seq(Byte)
           /\ sending \in Seq(Byte)
<1>1. up[g] \in Seq(Byte) /\ out[g] \in Seq(Byte) /\ down[g] \in Seq(Byte) /\ sending \in Seq(Byte)
  BY DEF WireTypeOK
<1>2. PICK t \in Seq(Byte) : t = IF dst = g THEN sending ELSE <<>>
  BY <1>1, EmptySeq, Zenon
<1>3. up[g] \o out[g] \in Seq(Byte)
  BY <1>1, Joined
<1>4. down[g] \o t \in Seq(Byte)
  BY <1>1, Joined
<1>. QED
  BY <1>1, <1>2, <1>3, <1>4, Zenon DEF Upstream, Downstream

\* What guest g sends is in step when nothing of it changes.
LEMMA UpSame ==
    ASSUME NEW g, UpFlow(g), frames' = frames, conn'[g] = conn[g],
           UpReader(g)' = UpReader(g), Upstream(g)' = Upstream(g),
           src = g /\ ServerAt("failed") => src' = g /\ ServerAt("failed")'
    PROVE  UpFlow(g)'
  BY Zenon DEF UpFlow

\* A guest stays in step when nothing of it changes, or it loses the connection.
LEMMA DownSame ==
    ASSUME NEW g, DownFlow(g), frames' = frames, conn'[g] = conn[g], rd'[g] = rd[g],
           Downstream(g)' = Downstream(g), connected'[g] => connected[g]
    PROVE  DownFlow(g)'
  BY Zenon DEF DownFlow, Serving

\* A connection that the server closes, with what is in it.
LEMMA DownClosed ==
    ASSUME NEW g \in Guests, DownFlow(g), LeftShape, frames' = frames, rd'[g] = rd[g],
           connected'[g] = connected[g], conn'[g] \in {"closed", "leaked"},
           Downstream(g)' \in Seq(Byte), NEW t \in Seq(Byte), Downstream(g) = Downstream(g)' \o t
    PROVE  DownFlow(g)'
<1>0. PICK cut \in BOOLEAN : cut = (conn'[g] = "open") /\ ~cut
  OBVIOUS
<1>. SUFFICES ASSUME Serving(g)' PROVE Flows(frames, rd[g], Downstream(g)', cut)
  BY <1>0, Zenon DEF DownFlow
<1>1. Serving(g)
  BY DEF Serving
<1>2. conn[g] # "left"
  BY <1>1 DEF LeftShape, Serving
<1>3. PICK d \in Seq(Byte) : d = Downstream(g)'
  OBVIOUS
<1>4. PICK uncut \in BOOLEAN : uncut = (conn[g] = "open")
  OBVIOUS
<1>5. Flows(frames, rd[g], d \o t, uncut)
  BY <1>1, <1>2, <1>3, <1>4, Zenon DEF DownFlow
<1>6. Flows(frames, rd[g], d, cut)
  <2>1. ~cut
    BY <1>0, Zenon
  <2>. QED
    BY <1>5, <2>1, FlowCut
<1>. QED
  BY <1>3, <1>6

\* Behind the bytes of a stream there is nothing.
LEMMA WithNothing ==
    ASSUME NEW s \in Seq(Byte)
    PROVE  s \o <<>> = s /\ <<>> \in Seq(Byte) /\ <<>> \o s = s
  BY ConcatEmptySeq, EmptySeq

\* A reader that goes to another stage: the others stay, and its buffer too.
LEMMA StageMoved ==
    ASSUME WireInv, NEW r \in Reader, NEW a \in Stage, rd' = [rd EXCEPT ![r].at = a]
    PROVE  /\ rd'[r].at = a /\ rd'[r].pos = rd[r].pos /\ rd'[r].total = rd[r].total
           /\ rd'[r].Buffer = rd[r].Buffer
           /\ \A q \in Reader \ {r} : rd'[q] = rd[q]
<1>1. PICK x \in Reading : x = rd[r]
  BY DEF WireInv, WireTypeOK
<1>2. rd' = [rd EXCEPT ![r] = [x EXCEPT !.at = a]]
  BY <1>1, Zenon
<1>3. PICK y : y = [x EXCEPT !.at = a]
  OBVIOUS
<1>4. y.at = a /\ y.pos = x.pos /\ y.total = x.total /\ y.Buffer = x.Buffer
  BY <1>3, NewStage
<1>5. rd \in [Reader -> Reading]
  BY DEF WireInv, WireTypeOK
<1>6. rd'[r] = y /\ \A q \in Reader \ {r} : rd'[q] = rd[q]
  BY <1>2, <1>3, <1>5, Zenon
<1>. QED
  BY <1>1, <1>4, <1>6

\* The buffers hold what they held, also for the next stage.
LEMMA StageHolds ==
    ASSUME WireInv, BuffersHold, frames' = frames,
           NEW r \in Reader, NEW a \in Stage, rd' = [rd EXCEPT ![r].at = a],
           a \in {"idle", "power", "failed"} \/ (a = "send" /\ rd[r].at = "done")
    PROVE  BuffersHold'
<1>1. /\ rd'[r].at = a /\ rd'[r].pos = rd[r].pos /\ rd'[r].total = rd[r].total
      /\ rd'[r].Buffer = rd[r].Buffer
      /\ \A q \in Reader \ {r} : rd'[q] = rd[q]
  BY StageMoved
<1>2. Holds(frames, rd'[r])
  BY <1>1 DEF Holds, BuffersHold
<1>. QED
  BY <1>1, <1>2 DEF BuffersHold

\* A reader that begins is in no frame.
LEMMA NewNotMid == ~Mid(frames, NewReader) /\ Holds(frames, NewReader) /\ NewReader.at = "idle"
  BY DEF Mid, Holds, NewReader

\* A step of one reader leaves what the other buffers hold.
LEMMA ReaderHolds ==
    ASSUME WireInv, BuffersHold, frames' = frames, NEW r \in Reader, NEW y, Holds(frames, y),
           rd' = [rd EXCEPT ![r] = y]
    PROVE  BuffersHold' /\ rd'[r] = y /\ \A q \in Reader \ {r} : rd'[q] = rd[q]
<1>1. rd \in [Reader -> Reading]
  BY DEF WireInv, WireTypeOK
<1>2. rd'[r] = y /\ \A q \in Reader \ {r} : rd'[q] = rd[q]
  BY <1>1, Zenon
<1>. QED
  BY <1>2 DEF BuffersHold

\* A step of RecvSignal changes the reader and the bytes that it reads.
LEMMA RecvFrame ==
    ASSUME WireInv, NEW r \in Reader, RecvSignal(r)
    PROVE  /\ UNCHANGED <<frames, out, connected, conn, src, to, dst, sending>>
           /\ r = Server => down' = down /\ \A h \in Guests \ {src} : up'[h] = up[h]
           /\ r # Server => up' = up /\ \A h \in Guests \ {r} : down'[h] = down[h]
<1>1. ASSUME NEW n, Takes(r, n)
      PROVE  /\ r = Server => down' = down /\ \A h \in Guests \ {src} : up'[h] = up[h]
             /\ r # Server => up' = up /\ \A h \in Guests \ {r} : down'[h] = down[h]
  <2>1. up \in [Guests -> Seq(Byte)] /\ down \in [Guests -> Seq(Byte)]
    BY DEF WireInv, WireTypeOK
  <2>2. CASE r = Server
    <3>1. up' = [up EXCEPT ![src] = Drop(up[src], n)] /\ down' = down
      BY <1>1, <2>2, Zenon DEF Takes
    <3>. QED
      BY <2>1, <2>2, <3>1, Zenon
  <2>3. CASE r # Server
    <3>1. down' = [down EXCEPT ![r] = Drop(down[r], n)] /\ up' = up
      BY <1>1, <2>3, Zenon DEF Takes
    <3>. QED
      BY <2>1, <2>3, <3>1, Zenon
  <2>. QED
    BY <2>2, <2>3
<1>2. CASE ReadPower(r)
  BY <1>1, <1>2, Zenon DEF ReadPower, server
<1>3. ASSUME NEW n \in 1..Len(In(r)), ReadSome(r, n)
      PROVE  /\ UNCHANGED <<frames, out, connected, conn, src, to, dst, sending>>
             /\ r = Server => down' = down /\ \A h \in Guests \ {src} : up'[h] = up[h]
             /\ r # Server => up' = up /\ \A h \in Guests \ {r} : down'[h] = down[h]
  BY <1>1, <1>3, Zenon DEF ReadSome, server
<1>4. CASE ReadHeader(r)
  BY <1>4, Zenon DEF ReadHeader, server
<1>5. CASE ReadDone(r)
  BY <1>5, Zenon DEF ReadDone, server
<1>6. CASE ReadFails(r)
  BY <1>6, Zenon DEF ReadFails, server
<1>. QED
  BY <1>2, <1>3, <1>4, <1>5, <1>6, Zenon DEF RecvSignal

-----------------------------------------------------------------------------
(***************************************************************************)
(* The steps of the server                                                 *)
(***************************************************************************)

\* ForwardData begins to read: the guest was served up to the end of a frame.
LEMMA SelectsStep ==
    ASSUME WireInv, StepInv, NEW g \in Guests, ServerSelects(g)
    PROVE  StepInv'
<1>. USE WireAssumption
<1>1. Server \in Reader /\ "power" \in Stage /\ rd' = [rd EXCEPT ![Server].at = "power"]
  BY DEF Reader, Stage, ServerSelects, ServerGoes
<1>2. rd'[Server].at = "power" /\ \A h \in Guests : rd'[h] = rd[h]
  BY <1>1, StageMoved DEF Reader
<1>3. UNCHANGED <<frames, out, connected, conn, up, down, to, dst, sending>> /\ src' = g
  BY DEF ServerSelects
<1>4. rd[Server].at = "idle" /\ src = Server /\ conn[g] \in {"open", "left"}
  BY DEF ServerSelects, ServerAt, StepInv, ServerShape
<1>5. BuffersHold'
  BY <1>1, <1>3, StageHolds DEF StepInv
<1>6. ServerShape'
  BY <1>2, <1>3, <1>4 DEF StepInv, ServerShape, ServerAt
<1>7. LeftShape'
  BY <1>2, <1>3 DEF StepInv, LeftShape
<1>8. ASSUME NEW h \in Guests PROVE UpFlow(h)'
  <2>1. Upstream(h)' = Upstream(h) /\ UpReader(h) = NewReader /\ UpFlow(h)
    BY <1>3, <1>4 DEF Upstream, UpReader, StepInv
  <2>2. CASE h = g
    <3>1. PICK uncut \in BOOLEAN : uncut = (conn[g] = "open")
      OBVIOUS
    <3>2. Flows(frames, NewReader, Upstream(g), uncut)
      BY <1>4, <2>1, <2>2, <3>1 DEF UpFlow
    <3>3. ~Mid(frames, rd'[Server])
      BY <1>2 DEF Mid
    <3>4. Flows(frames, rd'[Server], Upstream(g), uncut)
      BY <3>2, <3>3, NewNotMid, FlowBetween
    <3>5. UpReader(g)' = rd'[Server]
      BY <1>3 DEF UpReader
    <3>. QED
      BY <1>3, <2>1, <2>2, <3>1, <3>4, <3>5, Zenon DEF UpFlow
  <2>3. CASE h # g
    <3>1. UpReader(h)' = UpReader(h) /\ src # h
      BY <1>3, <1>4, <2>1, <2>3 DEF UpReader
    <3>. QED
      BY <1>3, <2>1, <3>1, UpSame
  <2>. QED
    BY <2>2, <2>3
<1>9. ASSUME NEW h \in Guests PROVE DownFlow(h)'
  <2>1. Downstream(h)' = Downstream(h) /\ DownFlow(h)
    BY <1>3 DEF Downstream, StepInv
  <2>. QED
    BY <1>2, <1>3, <2>1, DownSame
<1>. QED
  BY <1>5, <1>6, <1>7, <1>8, <1>9, Zenon DEF StepInv

\* RemoveClient: what the guest has sent is gone with its connection.
LEMMA RemovesStep ==
    ASSUME WireInv, StepInv, ServerRemoves
    PROVE  StepInv'
<1>. USE WireAssumption
<1>1. Server \in Reader /\ "idle" \in Stage /\ rd' = [rd EXCEPT ![Server].at = "idle"]
  BY DEF Reader, Stage, ServerRemoves, ServerGoes
<1>2. rd'[Server].at = "idle" /\ \A h \in Guests : rd'[h] = rd[h]
  BY <1>1, StageMoved DEF Reader
<1>3. UNCHANGED <<frames, out, connected, down, to, dst, sending>> /\ src' = Server
  BY DEF ServerRemoves
<1>4. rd[Server].at = "failed" /\ src # Server /\ src \in Guests
  BY DEF ServerRemoves, ServerAt, StepInv, ServerShape, WireInv, WireTypeOK
<1>5. /\ conn' = [conn EXCEPT ![src] = "closed"] /\ conn'[src] = "closed"
      /\ \A h \in Guests \ {src} : conn'[h] = conn[h] /\ up'[h] = up[h]
  BY <1>4 DEF ServerRemoves, WireInv, WireTypeOK
<1>6. BuffersHold'
  BY <1>1, <1>3, StageHolds DEF StepInv
<1>7. ServerShape'
  BY <1>2, <1>3, <1>4 DEF StepInv, ServerShape, ServerAt
<1>8. LeftShape'
  BY <1>2, <1>3, <1>4, <1>5 DEF StepInv, LeftShape
<1>9. ASSUME NEW h \in Guests PROVE UpFlow(h)'
  <2>1. CASE h = src
    BY <1>5, <2>1 DEF UpFlow
  <2>2. CASE h # src
    <3>1. Upstream(h)' = Upstream(h) /\ UpReader(h)' = UpReader(h) /\ UpFlow(h)
      BY <1>3, <1>4, <1>5, <2>2 DEF Upstream, UpReader, StepInv
    <3>. QED
      BY <1>3, <1>5, <2>2, <3>1, UpSame
  <2>. QED
    BY <2>1, <2>2
<1>10. ASSUME NEW h \in Guests PROVE DownFlow(h)'
  <2>1. Downstream(h)' = Downstream(h) /\ DownFlow(h) /\ LeftShape
    BY <1>3 DEF Downstream, StepInv
  <2>2. CASE h = src
    <3>1. Downstream(h)' \in Seq(Byte) /\ Downstream(h) \in Seq(Byte)
      BY <2>1, StreamType DEF WireInv
    <3>2. <<>> \in Seq(Byte) /\ Downstream(h) = Downstream(h)' \o <<>>
      BY <2>1, <3>1, WithNothing, Zenon
    <3>. QED
      BY <1>2, <1>3, <1>5, <2>1, <2>2, <3>1, <3>2, DownClosed
  <2>3. CASE h # src
    BY <1>2, <1>3, <1>5, <2>1, <2>3, DownSame
  <2>. QED
    BY <2>2, <2>3
<1>. QED
  BY <1>6, <1>7, <1>8, <1>9, <1>10, Zenon DEF StepInv

\* The server is between two reads: the guest it has read from is in step.
LEMMA UpBetween ==
    ASSUME StepInv, NEW h \in Guests, frames' = frames, conn' = conn, Upstream(h)' = Upstream(h),
           rd[Server].at \in {"done", "send"}, ~Mid(frames, rd'[Server]), src' \in {src, Server},
           src # Server
    PROVE  UpFlow(h)'
<1>1. UpFlow(h)
  BY DEF StepInv
<1>2. ~Mid(frames, UpReader(h)) \/ src # h
  BY DEF Mid, UpReader
<1>3. ~Mid(frames, NewReader)
  BY NewNotMid
<1>4. CASE src = h
  <2>1. ~Mid(frames, UpReader(h)) /\ ~Mid(frames, UpReader(h)')
    BY <1>2, <1>3, <1>4 DEF UpReader
  <2>2. PICK uncut \in BOOLEAN : uncut = (conn[h] = "open")
    OBVIOUS
  <2>3. conn[h] \in {"open", "left"} /\ ~ServerAt("failed")
    BY <1>4 DEF StepInv, ServerShape, ServerAt
  <2>4. Flows(frames, UpReader(h), Upstream(h), uncut)
    BY <1>1, <2>2, <2>3 DEF UpFlow
  <2>5. Flows(frames, UpReader(h)', Upstream(h), uncut)
    BY <2>1, <2>4, FlowBetween
  <2>. QED
    BY <2>2, <2>5, Zenon DEF UpFlow
<1>5. CASE src # h /\ src' # h
  <2>1. UpReader(h)' = UpReader(h)
    BY <1>5 DEF UpReader
  <2>. QED
    BY <1>1, <1>5, <2>1, UpSame
<1>6. CASE src # h /\ src' = h
  BY <1>6, WireAssumption
<1>. QED
  BY <1>4, <1>5, <1>6

\* SendAllOtherClients begins.
LEMMA ForwardsStep ==
    ASSUME WireInv, StepInv, ServerForwards
    PROVE  StepInv'
<1>. USE WireAssumption
<1>1. Server \in Reader /\ "send" \in Stage /\ rd' = [rd EXCEPT ![Server].at = "send"]
  BY DEF Reader, Stage, ServerForwards, ServerGoes
<1>2. rd'[Server].at = "send" /\ \A h \in Guests : rd'[h] = rd[h]
  BY <1>1, StageMoved DEF Reader
<1>3. /\ UNCHANGED <<frames, out, connected, conn, up, down, src, dst, sending>>
      /\ to' = {g \in Guests \ {src} : conn[g] \in {"open", "left"}}
  BY DEF ServerForwards
<1>4. rd[Server].at = "done" /\ src # Server /\ src \in Guests /\ dst = Server
  BY DEF ServerForwards, ServerAt, StepInv, ServerShape, WireInv, WireTypeOK
<1>5. BuffersHold'
  BY <1>1, <1>3, <1>4, StageHolds DEF StepInv
<1>6. ServerShape'
  BY <1>2, <1>3, <1>4 DEF StepInv, ServerShape, ServerAt
<1>7. LeftShape'
  BY <1>2, <1>3 DEF StepInv, LeftShape
<1>8. ASSUME NEW h \in Guests PROVE UpFlow(h)'
  <2>1. Upstream(h)' = Upstream(h) /\ ~Mid(frames, rd'[Server])
    BY <1>2, <1>3 DEF Upstream, Mid
  <2>. QED
    BY <1>3, <1>4, <2>1, UpBetween
<1>9. ASSUME NEW h \in Guests PROVE DownFlow(h)'
  <2>1. Downstream(h)' = Downstream(h) /\ DownFlow(h)
    BY <1>3 DEF Downstream, StepInv
  <2>. QED
    BY <1>2, <1>3, <2>1, DownSame
<1>. QED
  BY <1>5, <1>6, <1>7, <1>8, <1>9, Zenon DEF StepInv

\* SendAllOtherClients ends: all of the frame was read.
LEMMA ForwardedStep ==
    ASSUME WireInv, StepInv, ServerForwarded
    PROVE  StepInv'
<1>. USE WireAssumption
<1>1. Server \in Reader /\ "idle" \in Stage /\ rd' = [rd EXCEPT ![Server].at = "idle"]
  BY DEF Reader, Stage, ServerForwarded, ServerGoes
<1>2. rd'[Server].at = "idle" /\ \A h \in Guests : rd'[h] = rd[h]
  BY <1>1, StageMoved DEF Reader
<1>3. /\ UNCHANGED <<frames, out, connected, conn, up, down, to, sending>>
      /\ src' = Server /\ dst' = Server
  BY DEF ServerForwarded
<1>4. rd[Server].at = "send" /\ src # Server /\ to = {} /\ sending = <<>>
  BY DEF ServerForwarded, ServerAt, StepInv, ServerShape
<1>5. BuffersHold'
  BY <1>1, <1>3, StageHolds DEF StepInv
<1>6. ServerShape'
  BY <1>2, <1>3, <1>4 DEF StepInv, ServerShape, ServerAt
<1>7. LeftShape'
  BY <1>2, <1>3 DEF StepInv, LeftShape
<1>8. ASSUME NEW h \in Guests PROVE UpFlow(h)'
  <2>1. Upstream(h)' = Upstream(h) /\ ~Mid(frames, rd'[Server])
    BY <1>2, <1>3 DEF Upstream, Mid
  <2>. QED
    BY <1>3, <1>4, <2>1, UpBetween
<1>9. ASSUME NEW h \in Guests PROVE DownFlow(h)'
  <2>1. Downstream(h)' = Downstream(h) /\ DownFlow(h)
    BY <1>3, <1>4 DEF Downstream, StepInv
  <2>. QED
    BY <1>2, <1>3, <2>1, DownSame
<1>. QED
  BY <1>5, <1>6, <1>7, <1>8, <1>9, Zenon DEF StepInv

\* PacketIsLost: all of the frame is lost to the guest.
LEMMA LosesStep ==
    ASSUME WireInv, StepInv, NEW g \in Guests, ServerLoses(g)
    PROVE  StepInv'
<1>1. UNCHANGED <<frames, out, connected, conn, up, down, rd, src, dst, sending>> /\ to' = to \ {g}
  BY DEF ServerLoses
<1>2. BuffersHold' /\ LeftShape'
  BY <1>1 DEF StepInv, BuffersHold, LeftShape
<1>3. ServerShape'
  BY <1>1 DEF StepInv, ServerShape, ServerAt
<1>4. ASSUME NEW h \in Guests PROVE UpFlow(h)' /\ DownFlow(h)'
  <2>1. /\ Upstream(h)' = Upstream(h) /\ UpReader(h)' = UpReader(h)
        /\ Downstream(h)' = Downstream(h) /\ UpFlow(h) /\ DownFlow(h)
        /\ ServerAt("failed")' = ServerAt("failed")
    BY <1>1, Zenon DEF Upstream, UpReader, Downstream, StepInv, ServerAt
  <2>. QED
    BY <1>1, <2>1, UpSame, DownSame
<1>. QED
  BY <1>2, <1>3, <1>4, Zenon DEF StepInv

\* The bytes f are the power and the message of frame k, or the first ones of them.
OneFrame(F, f, k) ==
    \A i \in 1..Len(f) : f[i].frame = k /\ f[i].pos = i - 1 /\ f[i].pos <= F[k].len

\* A power and a message are one frame.
LEMMA OneByOne ==
    ASSUME NEW F, NEW k \in 1..MaxFrames, NEW m \in Seq(Byte), Len(m) = F[k].len,
           \A i \in 1..Len(m) : m[i].frame = k /\ m[i].pos = i
    PROVE  OneFrame(F, Power(k) \o m, k)
<1>1. PICK w \in Seq(Byte) : w = Power(k) /\ Len(w) = 1 /\ w[1].frame = k /\ w[1].pos = 0
  <2>1. Power(k) \in Seq(Byte) /\ Len(Power(k)) = 1 /\ Power(k)[1] = [frame |-> k, pos |-> 0]
    BY FrameBytes
  <2>. QED
    BY <2>1
<1>2. PICK f : f = w \o m
  OBVIOUS
<1>3. /\ f \in Seq(Byte) /\ Len(f) = 1 + Len(m) /\ Len(m) \in Nat
      /\ f[1] = w[1] /\ \A i \in 1..Len(m) : f[1 + i] = m[i]
  <2>1. /\ f \in Seq(Byte) /\ Len(f) = Len(w) + Len(m)
        /\ \A i \in 1..Len(w) : f[i] = w[i]
        /\ \A i \in 1..Len(m) : f[Len(w) + i] = m[i]
    <3>1. PICK a \in Seq(Byte), b \in Seq(Byte) : a = w /\ b = m
      OBVIOUS
    <3>2. /\ a \o b \in Seq(Byte) /\ Len(a \o b) = Len(a) + Len(b)
          /\ \A i \in 1..Len(a) : (a \o b)[i] = a[i]
          /\ \A i \in 1..Len(b) : (a \o b)[Len(a) + i] = b[i]
      BY Joined
    <3>. QED
      BY <1>2, <3>1, <3>2
  <2>2. Len(m) \in Nat /\ 1 \in 1..Len(w)
    BY <1>1
  <2>. QED
    BY <1>1, <2>1, <2>2
<1>4. ASSUME NEW i \in 1..Len(f) PROVE f[i].frame = k /\ f[i].pos = i - 1 /\ f[i].pos <= F[k].len
  <2>1. CASE i = 1
    BY <1>1, <1>3, <2>1
  <2>2. CASE i # 1
    <3>1. PICK j \in 1..Len(m) : i = 1 + j /\ j = i - 1
      <4>1. i - 1 \in 1..Len(m) /\ i = 1 + (i - 1)
        BY <1>3, <2>2
      <4>. QED
        BY <4>1
    <3>2. f[i] = m[j]
      BY <1>3, <3>1
    <3>. QED
      BY <3>1, <3>2
  <2>. QED
    BY <2>1, <2>2
<1>. QED
  BY <1>1, <1>2, <1>4 DEF OneFrame

\* What the server begins to send is a whole frame.
LEMMA BegunFrame ==
    ASSUME WireInv, BuffersHold, ServerAt("send"),
           NEW f, f = Power(rd[Server].Buffer[1].frame) \o SubSeq(rd[Server].Buffer, 1, rd[Server].total)
    PROVE  /\ f \in Seq(Byte) /\ Chain(frames, f) /\ Len(f) > 0
           /\ f[1].pos = 0 /\ IsLast(frames, f[Len(f)])
           /\ OneFrame(frames, f, rd[Server].Buffer[1].frame)
<1>. USE WireAssumption
<1>1. PICK x \in Reading : x = rd[Server] /\ BufferOK(x) /\ Holds(frames, x) /\ x.at = "send"
  BY DEF WireInv, WireTypeOK, BuffersOK, BuffersHold, Reader, ServerAt
<1>2. x.pos \in Nat /\ x.total \in Nat /\ x.Buffer \in Seq(Cell) /\ Len(x.Buffer) \in Nat
  BY ReadingType
<1>3. /\ x.pos > 0 /\ x.pos <= Len(x.Buffer) /\ \A i \in 1..x.pos : x.Buffer[i] \in Byte
  BY <1>1, <1>2 DEF BufferOK
<1>4. PICK k : k = x.Buffer[1].frame
  OBVIOUS
<1>5. /\ k \in DOMAIN frames /\ x.pos = x.total /\ x.total = frames[k].len
      /\ \A i \in 1..x.pos : x.Buffer[i].frame = k /\ x.Buffer[i].pos = i
  BY <1>1, <1>3, <1>4 DEF Holds
<1>6. k \in 1..MaxFrames
  <2>1. x.Buffer[1] \in Byte
    BY <1>2, <1>3
  <2>. QED
    BY <1>4, <2>1 DEF Byte
<1>7. PICK m : m = SubSeq(x.Buffer, 1, x.total)
  OBVIOUS
<1>8. PICK b \in Seq(Cell), n \in Nat : b = x.Buffer /\ n = x.total
  BY <1>2
<1>9. /\ n \in 0..Len(b)
      /\ \A i \in 1..n : b[i] \in Byte /\ b[i].frame = k /\ b[i].pos = i
  BY <1>2, <1>3, <1>5, <1>8
<1>10. m \in Seq(Cell) /\ Len(m) = n /\ \A i \in 1..n : m[i] = b[i]
  BY <1>7, <1>8, <1>9, Dropped
<1>11. m \in [1..n -> Byte]
  <2>1. m \in [1..n -> Cell]
    BY <1>10, LenProperties
  <2>. QED
    BY <1>9, <1>10, <2>1
<1>12. m \in Seq(Byte) /\ Len(m) = frames[k].len
  BY <1>5, <1>8, <1>10, <1>11, FunctionIsSeq
<1>13. \A i \in 1..Len(m) : m[i].frame = k /\ m[i].pos = i
  BY <1>9, <1>10
<1>14. Sized(frames)
  BY FramesSized DEF WireInv
<1>15. f = Power(k) \o m
  BY <1>1, <1>4, <1>7, Zenon
<1>16. /\ Power(k) \o m \in Seq(Byte) /\ Chain(frames, Power(k) \o m) /\ Len(Power(k) \o m) > 0
       /\ (Power(k) \o m)[1].pos = 0 /\ IsLast(frames, (Power(k) \o m)[Len(Power(k) \o m)])
  BY <1>5, <1>6, <1>12, <1>13, <1>14, WholeFrame
<1>17. OneFrame(frames, Power(k) \o m, k)
  BY <1>6, <1>12, <1>13, OneByOne
<1>. QED
  BY <1>1, <1>4, <1>15, <1>16, <1>17, Zenon

\* SendSignal begins: one whole frame goes behind what was sent to the guest.
LEMMA BeginsStep ==
    ASSUME WireInv, StepInv, NEW g \in Guests, ServerBegins(g)
    PROVE  StepInv'
<1>. USE WireAssumption
<1>1. /\ UNCHANGED <<frames, out, connected, conn, up, down, rd, src>>
      /\ dst' = g /\ to' = to \ {g} /\ g \in to /\ sending = <<>> /\ ServerAt("send")
      /\ sending' = Power(rd[Server].Buffer[1].frame) \o SubSeq(rd[Server].Buffer, 1, rd[Server].total)
  BY DEF ServerBegins
<1>2. BuffersHold' /\ LeftShape' /\ BuffersHold
  BY <1>1 DEF StepInv, BuffersHold, LeftShape
<1>3. ServerShape'
  BY <1>1 DEF StepInv, ServerShape, ServerAt
<1>4. ASSUME NEW h \in Guests PROVE UpFlow(h)'
  <2>1. /\ Upstream(h)' = Upstream(h) /\ UpReader(h)' = UpReader(h) /\ UpFlow(h)
        /\ ServerAt("failed")' = ServerAt("failed")
    BY <1>1, Zenon DEF Upstream, UpReader, StepInv, ServerAt
  <2>. QED
    BY <1>1, <2>1, UpSame
<1>5. ASSUME NEW h \in Guests PROVE DownFlow(h)'
  <2>0. DownFlow(h) /\ down[h] \in Seq(Byte)
    BY StreamType DEF StepInv, WireInv
  <2>1. Downstream(h) = down[h]
    BY <1>1, <2>0, WithNothing, Zenon DEF Downstream
  <2>2. CASE h # g
    <3>1. Downstream(h)' = down[h]
      BY <1>1, <2>0, <2>2, WithNothing, Zenon DEF Downstream
    <3>. QED
      BY <1>1, <2>0, <2>1, <3>1, DownSame
  <2>3. CASE h = g /\ conn[g] = "left"
    BY <1>1, <2>3 DEF DownFlow
  <2>4. CASE h = g /\ conn[g] # "left"
    <3>1. conn[g] = "open"
      BY <1>1, <2>4 DEF StepInv, ServerShape
    <3>2. SUFFICES ASSUME Serving(g) PROVE Flows(frames, rd[g], Downstream(g)', TRUE)
      BY <1>1, <2>4, <3>1, Zenon DEF DownFlow, Serving
    <3>3. PICK d \in Seq(Byte) : d = down[g]
      BY <2>0, <2>4
    <3>4. Flows(frames, rd[g], d, TRUE)
      <4>1. Flows(frames, rd[g], d, conn[g] = "open")
        BY <2>0, <2>1, <2>4, <3>2, <3>3, Zenon DEF DownFlow
      <4>2. (conn[g] = "open") = TRUE
        BY <3>1
      <4>. QED
        BY <4>1, <4>2, Zenon
    <3>5. PICK f : f = sending'
      OBVIOUS
    <3>6. f \in Seq(Byte) /\ Chain(frames, f) /\ Len(f) > 0 /\ f[1].pos = 0 /\ IsLast(frames, f[Len(f)])
      BY <1>1, <1>2, <3>5, BegunFrame
    <3>7. \A F, x : Flows(F, x, d, TRUE) /\ Chain(F, f) /\ IsLast(F, f[Len(f)]) => Flows(F, x, d \o f, TRUE)
      BY <3>6, FlowAppend
    <3>8. Flows(frames, rd[g], d \o f, TRUE)
      BY <3>4, <3>6, <3>7, Zenon
    <3>9. Downstream(g)' = d \o f
      BY <1>1, <3>3, <3>5, Zenon DEF Downstream
    <3>. QED
      BY <3>8, <3>9, Zenon
  <2>. QED
    BY <2>2, <2>3, <2>4
<1>. QED
  BY <1>2, <1>3, <1>4, <1>5, Zenon DEF StepInv

\* Three runs of bytes, joined.
LEMMA JoinedThree ==
    ASSUME NEW a \in Seq(Byte), NEW b \in Seq(Byte), NEW d \in Seq(Byte)
    PROVE  (a \o b) \o d = a \o (b \o d)
  BY ConcatAssociative, SMTT(60)

\* Bytes that are sent are in the connection, and no longer to send.
LEMMA SentBytes ==
    ASSUME NEW a \in Seq(Byte), NEW s \in Seq(Byte), NEW n \in 0..Len(s)
    PROVE  (a \o SubSeq(s, 1, n)) \o Drop(s, n) = a \o s
<1>1. PICK b \in Seq(Byte), d \in Seq(Byte) : b = SubSeq(s, 1, n) /\ d = Drop(s, n)
  BY Dropped
<1>2. /\ Len(s) \in Nat /\ n \in Nat /\ n <= Len(s) /\ Len(d) = Len(s) - n /\ Len(b) = n
      /\ \A i \in 1..(Len(s) - n) : d[i] = s[n + i]
      /\ \A i \in 1..n : b[i] = s[i]
  <2>1. /\ Len(Drop(s, n)) = Len(s) - n /\ Len(SubSeq(s, 1, n)) = n
        /\ \A i \in 1..(Len(s) - n) : Drop(s, n)[i] = s[n + i]
        /\ \A i \in 1..n : SubSeq(s, 1, n)[i] = s[i]
    BY Dropped
  <2>2. Len(s) \in Nat /\ n \in Nat /\ n <= Len(s)
    OBVIOUS
  <2>. QED
    BY <1>1, <2>1, <2>2, Zenon
<1>3. PICK c \in Seq(Byte) : c = b \o d
  BY Joined, Zenon
<1>4. /\ Len(c) = Len(b) + Len(d)
      /\ \A i \in 1..Len(b) : c[i] = b[i]
      /\ \A i \in 1..Len(d) : c[Len(b) + i] = d[i]
  BY <1>3, Joined
<1>5. Len(c) = Len(s)
  BY <1>2, <1>4
<1>6. ASSUME NEW i \in 1..Len(c) PROVE c[i] = s[i]
  <2>1. CASE i <= n
    <3>1. i \in 1..n /\ i \in 1..Len(b)
      BY <1>2, <2>1
    <3>. QED
      BY <1>2, <1>4, <3>1
  <2>2. CASE i > n
    <3>1. PICK j \in 1..(Len(s) - n) : i = n + j
      <4>1. i - n \in 1..(Len(s) - n) /\ i = n + (i - n)
        BY <1>2, <1>5, <2>2
      <4>. QED
        BY <4>1
    <3>2. j \in 1..Len(d) /\ Len(b) + j = n + j
      BY <1>2
    <3>3. c[Len(b) + j] = d[j] /\ d[j] = s[n + j]
      BY <1>2, <1>4, <3>2
    <3>. QED
      BY <3>1, <3>2, <3>3, Zenon
  <2>. QED
    BY <1>2, <2>1, <2>2
<1>7. c = s
  BY <1>5, <1>6, SeqEqual
<1>8. (a \o b) \o d = a \o (b \o d)
  BY JoinedThree, ZenonT(40)
<1>. QED
  BY <1>1, <1>3, <1>7, <1>8, Zenon

\* send() moves bytes from the frame into the connection.
LEMMA SendsStep ==
    ASSUME WireInv, StepInv, NEW n \in 1..Len(sending), ServerSends(n)
    PROVE  StepInv'
<1>. USE WireAssumption
<1>1. /\ UNCHANGED <<frames, out, connected, conn, up, rd, src, to, dst>>
      /\ sending' = Drop(sending, n)
  BY DEF ServerSends
<1>2. sending \in Seq(Byte) /\ n \in 0..Len(sending) /\ sending # <<>> /\ down \in [Guests -> Seq(Byte)]
  BY DEF WireInv, WireTypeOK
<1>3. ServerAt("send")
  BY <1>2 DEF StepInv, ServerShape
<1>4. BuffersHold' /\ LeftShape'
  BY <1>1 DEF StepInv, BuffersHold, LeftShape
<1>5. ServerShape'
  BY <1>1, <1>3 DEF StepInv, ServerShape, ServerAt
<1>6. ASSUME NEW h \in Guests PROVE UpFlow(h)'
  <2>1. /\ Upstream(h)' = Upstream(h) /\ UpReader(h)' = UpReader(h) /\ UpFlow(h)
        /\ ServerAt("failed")' = ServerAt("failed")
    BY <1>1, Zenon DEF Upstream, UpReader, StepInv, ServerAt
  <2>. QED
    BY <1>1, <2>1, UpSame
<1>7. ASSUME NEW h \in Guests PROVE DownFlow(h)'
  <2>0. DownFlow(h)
    BY DEF StepInv
  <2>1. CASE conn[h] = "left"
    BY <1>1, <2>1 DEF DownFlow
  <2>2. CASE dst # h
    <3>1. down'[h] = down[h]
      BY <1>2, <2>2 DEF ServerSends
    <3>2. Downstream(h)' = Downstream(h)
      BY <1>1, <2>2, <3>1, Zenon DEF Downstream
    <3>. QED
      BY <1>1, <2>0, <3>2, DownSame
  <2>3. CASE dst = h /\ conn[h] # "left"
    <3>1. down' = [down EXCEPT ![dst] = down[dst] \o SubSeq(sending, 1, n)]
      BY <2>3, Zenon DEF ServerSends
    <3>2. down'[h] = down[h] \o SubSeq(sending, 1, n)
      BY <1>2, <2>3, <3>1, Zenon
    <3>3. PICK a \in Seq(Byte) : a = down[h]
      BY <1>2
    <3>4. (a \o SubSeq(sending, 1, n)) \o Drop(sending, n) = a \o sending
      BY <1>2, SentBytes
    <3>5. Downstream(h)' = down'[h] \o sending' /\ Downstream(h) = down[h] \o sending
      BY <1>1, <2>3, Zenon DEF Downstream
    <3>6. Downstream(h)' = Downstream(h)
      BY <1>1, <3>2, <3>3, <3>4, <3>5, Zenon
    <3>. QED
      BY <1>1, <2>0, <3>6, DownSame
  <2>. QED
    BY <2>1, <2>2, <2>3
<1>. QED
  BY <1>4, <1>5, <1>6, <1>7, Zenon DEF StepInv

\* A frame that was sent in part is the last thing in its connection.
LEMMA SendFailsStep ==
    ASSUME WireInv, StepInv, ServerSendFails
    PROVE  StepInv'
<1>. USE WireAssumption
<1>1. /\ UNCHANGED <<frames, out, connected, up, down, rd, src, to, dst>>
      /\ sending' = <<>> /\ sending # <<>>
  BY DEF ServerSendFails
<1>2. /\ \A h \in Guests \ {dst} : conn'[h] = conn[h]
      /\ dst \in Guests => conn'[dst] \in {"closed", "leaked"}
  BY DEF ServerSendFails, WireInv, WireTypeOK
<1>3. ServerAt("send") /\ to \subseteq Guests /\ src \in Guests \cup {Server}
  BY <1>1 DEF StepInv, ServerShape, WireInv, WireTypeOK
<1>4. BuffersHold'
  BY <1>1 DEF StepInv, BuffersHold
<1>5. LeftShape'
  BY <1>1, <1>2 DEF StepInv, LeftShape
<1>6. ServerShape'
  BY <1>1, <1>2, <1>3 DEF StepInv, ServerShape, ServerAt
<1>7. ASSUME NEW h \in Guests PROVE UpFlow(h)'
  <2>1. CASE h = dst
    BY <1>2, <2>1 DEF UpFlow
  <2>2. CASE h # dst
    <3>1. /\ Upstream(h)' = Upstream(h) /\ UpReader(h)' = UpReader(h) /\ UpFlow(h)
          /\ ServerAt("failed")' = ServerAt("failed")
      BY <1>1, Zenon DEF Upstream, UpReader, StepInv, ServerAt
    <3>. QED
      BY <1>1, <1>2, <2>2, <3>1, UpSame
  <2>. QED
    BY <2>1, <2>2
<1>8. ASSUME NEW h \in Guests PROVE DownFlow(h)'
  <2>0. DownFlow(h) /\ LeftShape
    BY DEF StepInv
  <2>1. CASE h = dst
    <3>1. down[h] \in Seq(Byte) /\ sending \in Seq(Byte)
      BY StreamType DEF WireInv
    <3>2. Downstream(h)' = down[h]
      BY <1>1, <2>1, <3>1, WithNothing, Zenon DEF Downstream
    <3>3. Downstream(h) = Downstream(h)' \o sending
      BY <2>1, <3>2, Zenon DEF Downstream
    <3>. QED
      BY <1>1, <1>2, <2>0, <2>1, <3>1, <3>2, <3>3, DownClosed
  <2>2. CASE h # dst
    <3>1. Downstream(h)' = Downstream(h)
      BY <1>1, <2>2, Zenon DEF Downstream
    <3>. QED
      BY <1>1, <1>2, <2>0, <2>2, <3>1, DownSame
  <2>. QED
    BY <2>1, <2>2
<1>. QED
  BY <1>4, <1>5, <1>6, <1>7, <1>8, Zenon DEF StepInv

\* The server ends: what it has sent is still read, up to the end or the cut.
LEMMA ServerEndsStep ==
    ASSUME WireInv, StepInv, ServerEnds
    PROVE  StepInv'
<1>. USE WireAssumption
<1>1. /\ UNCHANGED <<frames, out, connected, down>> /\ rd' = [rd EXCEPT ![Server] = NewReader]
      /\ src' = Server /\ to' = {} /\ dst' = Server /\ sending' = <<>>
      /\ \A h \in Guests : conn'[h] = "closed"
  BY DEF ServerEnds
<1>2. BuffersHold' /\ rd'[Server] = NewReader /\ \A h \in Guests : rd'[h] = rd[h]
  <2>1. BuffersHold /\ Server \in Reader /\ Holds(frames, NewReader)
    BY NewNotMid DEF StepInv, Reader
  <2>2. BuffersHold' /\ rd'[Server] = NewReader /\ \A q \in Reader \ {Server} : rd'[q] = rd[q]
    BY <1>1, <2>1, ReaderHolds
  <2>. QED
    BY <2>2 DEF Reader
<1>3. rd'[Server].at = "idle"
  BY <1>2, NewNotMid
<1>4. ServerShape'
  BY <1>1, <1>3 DEF ServerShape, ServerAt
<1>5. LeftShape'
  BY <1>1 DEF LeftShape
<1>6. ASSUME NEW h \in Guests PROVE UpFlow(h)'
  BY <1>1 DEF UpFlow
<1>7. ASSUME NEW h \in Guests PROVE DownFlow(h)'
  <2>0. DownFlow(h) /\ LeftShape
    BY DEF StepInv
  <2>1. PICK t \in Seq(Byte) : t = IF dst = h THEN sending ELSE <<>>
    BY StreamType, EmptySeq, Zenon DEF WireInv
  <2>2. down[h] \in Seq(Byte)
    BY StreamType DEF WireInv
  <2>3. Downstream(h)' = down[h]
    BY <1>1, <2>2, WithNothing, Zenon DEF Downstream
  <2>4. Downstream(h) = Downstream(h)' \o t
    BY <2>1, <2>3, Zenon DEF Downstream
  <2>. QED
    BY <1>1, <1>2, <2>0, <2>2, <2>3, <2>4, DownClosed
<1>. QED
  BY <1>2, <1>4, <1>5, <1>6, <1>7, Zenon DEF StepInv

\* RecvSignalWithSocket at the server.
LEMMA ServerReads ==
    ASSUME WireInv, StepInv, RecvSignal(Server)
    PROVE  StepInv'
<1>. USE WireAssumption
<1>0. Server \in Reader /\ rd[Server].at \in {"power", "head", "rest"}
  BY DEF Reader, RecvSignal, ReadPower, ReadSome, ReadHeader, ReadDone, ReadFails
<1>1. src \in Guests /\ src # Server /\ conn[src] \in {"open", "left"}
  BY <1>0 DEF StepInv, ServerShape, ServerAt, WireInv, WireTypeOK
<1>2. /\ UNCHANGED <<frames, out, connected, conn, src, to, dst, sending>>
      /\ down' = down /\ \A h \in Guests \ {src} : up'[h] = up[h]
  BY <1>0, RecvFrame
<1>3. PICK t \in Seq(Byte) : t = out[src]
  BY <1>1, StreamType DEF WireInv
<1>4. In(Server) = up[src] /\ In(Server)' = up'[src]
  BY <1>1, <1>2, Zenon DEF In
<1>5. PICK uncut \in BOOLEAN : uncut = (conn[src] = "open")
  OBVIOUS
<1>6. Flows(frames, rd[Server], In(Server) \o t, uncut)
  <2>1. UpFlow(src) /\ ~ServerAt("failed")
    BY <1>0, <1>1 DEF StepInv, ServerAt
  <2>2. UpReader(src) = rd[Server] /\ Upstream(src) = In(Server) \o t
    BY <1>3, <1>4 DEF UpReader, Upstream
  <2>. QED
    BY <1>1, <1>5, <2>1, <2>2, Zenon DEF UpFlow
<1>7. BuffersHold /\ Holds(frames, rd[Server])
  BY <1>0 DEF StepInv, BuffersHold
<1>8. PICK y \in Reading :
         /\ rd' = [rd EXCEPT ![Server] = y]
         /\ Holds(frames, y) /\ y.at \in {"head", "rest", "done", "failed"}
         /\ y.at # "failed" => Flows(frames, y, In(Server)' \o t, uncut)
  BY <1>0, <1>6, <1>7, RecvFlow
<1>9. BuffersHold' /\ rd'[Server] = y /\ \A h \in Guests : rd'[h] = rd[h]
  <2>1. BuffersHold' /\ rd'[Server] = y /\ \A q \in Reader \ {Server} : rd'[q] = rd[q]
    BY <1>0, <1>2, <1>7, <1>8, ReaderHolds
  <2>. QED
    BY <2>1 DEF Reader
<1>10. ServerShape'
  BY <1>0, <1>1, <1>2, <1>8, <1>9 DEF StepInv, ServerShape, ServerAt
<1>11. LeftShape'
  BY <1>2, <1>9 DEF StepInv, LeftShape
<1>12. ASSUME NEW h \in Guests PROVE UpFlow(h)'
  <2>1. CASE h = src
    <3>1. UpReader(h)' = y /\ Upstream(h)' = In(Server)' \o t /\ conn'[h] = conn[src]
      BY <1>2, <1>3, <1>4, <1>9, <2>1, Zenon DEF UpReader, Upstream
    <3>2. CASE y.at = "failed"
      BY <1>2, <1>9, <2>1, <3>2 DEF UpFlow, ServerAt
    <3>3. CASE y.at # "failed"
      BY <1>2, <1>5, <1>8, <3>1, <3>3, Zenon DEF UpFlow
    <3>. QED
      BY <3>2, <3>3
  <2>2. CASE h # src
    <3>1. Upstream(h)' = Upstream(h) /\ UpReader(h)' = UpReader(h) /\ UpFlow(h)
      BY <1>2, <2>2 DEF Upstream, UpReader, StepInv
    <3>. QED
      BY <1>2, <2>2, <3>1, UpSame
  <2>. QED
    BY <2>1, <2>2
<1>13. ASSUME NEW h \in Guests PROVE DownFlow(h)'
  <2>1. Downstream(h)' = Downstream(h) /\ DownFlow(h)
    BY <1>2 DEF Downstream, StepInv
  <2>. QED
    BY <1>2, <1>9, <2>1, DownSame
<1>. QED
  BY <1>9, <1>10, <1>11, <1>12, <1>13, Zenon DEF StepInv

\* The steps of the server together.
LEMMA ServerStepInStep ==
    ASSUME WireInv, StepInv, ServerStep
    PROVE  StepInv'
  BY SelectsStep, LosesStep, BeginsStep, ServerReads, RemovesStep, ForwardsStep, SendsStep,
     SendFailsStep, ForwardedStep, Zenon DEF ServerStep

-----------------------------------------------------------------------------
(***************************************************************************)
(* The steps of a guest                                                    *)
(***************************************************************************)

\* What a guest does to its own reader leaves the server where it is.
LEMMA ServerKept ==
    ASSUME StepInv, rd'[Server] = rd[Server], UNCHANGED <<src, to, dst, sending>>,
           \A h \in Guests : conn[h] \in {"open", "left"} => conn'[h] \in {"open", "left"},
           WireInv
    PROVE  ServerShape'
<1>1. src \in Guests \cup {Server} /\ to \subseteq Guests
  BY DEF WireInv, WireTypeOK
<1>. QED
  BY <1>1 DEF StepInv, ServerShape, ServerAt

\* What a guest sends is in step when only its reader changes.
LEMMA UpKept ==
    ASSUME StepInv, NEW h \in Guests, rd'[Server] = rd[Server], frames' = frames, src' = src,
           conn'[h] = conn[h], up'[h] \o out'[h] = up[h] \o out[h]
    PROVE  UpFlow(h)'
<1>1. /\ Upstream(h)' = Upstream(h) /\ UpReader(h)' = UpReader(h) /\ UpFlow(h)
      /\ ServerAt("failed")' = ServerAt("failed")
  BY Zenon DEF Upstream, UpReader, StepInv, ServerAt
<1>. QED
  BY <1>1, UpSame

\* A guest that does not go on with its connection.
LEMMA NotServing ==
    ASSUME NEW g, rd'[g].at = "idle", ~connected'[g]
    PROVE  DownFlow(g)'
  BY DEF DownFlow, Serving

\* A new frame goes behind what the guest has sent.
LEMMA TransmitStep ==
    ASSUME WireInv, StepInv, NEW g \in Guests, NEW s \in Sizes, Transmit(g, s)
    PROVE  StepInv'
<1>. USE WireAssumption
<1>1. /\ UNCHANGED <<connected, conn, up, down, rd, src, to, dst, sending>>
      /\ out[g] = <<>> /\ connected[g] /\ Len(frames) < MaxFrames
      /\ frames' = Append(frames, [from |-> g, len |-> s])
      /\ out' = [out EXCEPT ![g] = Power(Len(frames) + 1) \o Message(Len(frames) + 1, s)]
  BY DEF Transmit, server
<1>2. PICK k \in Nat : k = Len(frames) + 1 /\ k \in 1..MaxFrames
  BY <1>1 DEF WireInv, WireTypeOK
<1>3. PICK G : G = frames'
  OBVIOUS
<1>4. /\ \A j \in DOMAIN frames : j \in DOMAIN G /\ G[j] = frames[j]
      /\ k \in DOMAIN G /\ G[k].len = s
  <2>1. PICK e \in [from : Guests, len : Sizes] : e = [from |-> g, len |-> s] /\ e.len = s
    <3>1. [from |-> g, len |-> s] \in [from : Guests, len : Sizes] /\ [from |-> g, len |-> s].len = s
      OBVIOUS
    <3>. QED
      BY <3>1, Zenon
  <2>2. frames \in Seq([from : Guests, len : Sizes]) /\ G = Append(frames, e)
    BY <1>1, <1>3, <2>1 DEF WireInv, WireTypeOK
  <2>3. /\ G \in Seq([from : Guests, len : Sizes]) /\ Len(G) = Len(frames) + 1
        /\ \A j \in 1..Len(frames) : G[j] = frames[j]
        /\ G[Len(frames) + 1] = e
    BY <2>2, AppendProperties
  <2>4. DOMAIN frames = 1..Len(frames) /\ DOMAIN G = 1..Len(G) /\ Len(frames) \in Nat
    BY <2>2, <2>3
  <2>. QED
    BY <1>2, <2>1, <2>3, <2>4
<1>5. Sized(G)
  <2>1. Sized(frames) /\ s \in Nat /\ HeaderSize <= s
    BY FramesSized DEF WireInv
  <2>2. ASSUME NEW j \in DOMAIN G PROVE j \in DOMAIN frames \/ j = k
    <3>1. frames \in Seq([from : Guests, len : Sizes]) /\ G = Append(frames, [from |-> g, len |-> s])
      BY <1>1, <1>3 DEF WireInv, WireTypeOK
    <3>2. DOMAIN frames = 1..Len(frames) /\ DOMAIN G = 1..(Len(frames) + 1) /\ Len(frames) \in Nat
      BY <3>1
    <3>. QED
      BY <1>2, <3>2
  <2>. QED
    BY <1>4, <2>1, <2>2 DEF Sized
<1>6. PICK m \in Seq(Byte) : m = Message(k, s) /\ Len(m) = s /\ \A i \in 1..s : m[i] = [frame |-> k, pos |-> i]
  <2>1. s \in Nat
    OBVIOUS
  <2>2. /\ Message(k, s) \in Seq(Byte) /\ Len(Message(k, s)) = s
        /\ \A i \in 1..s : Message(k, s)[i] = [frame |-> k, pos |-> i]
    BY <1>2, <2>1, FrameBytes
  <2>. QED
    BY <2>2, Zenon
<1>7. \A i \in 1..Len(m) : m[i].frame = k /\ m[i].pos = i
  BY <1>6
<1>8. PICK f \in Seq(Byte) :
         f = Power(k) \o m /\ Chain(G, f) /\ Len(f) > 0 /\ f[1].pos = 0 /\ IsLast(G, f[Len(f)])
  <2>1. Len(m) = G[k].len
    BY <1>4, <1>6
  <2>2. /\ Power(k) \o m \in Seq(Byte) /\ Chain(G, Power(k) \o m) /\ Len(Power(k) \o m) > 0
        /\ (Power(k) \o m)[1].pos = 0 /\ IsLast(G, (Power(k) \o m)[Len(Power(k) \o m)])
    BY <1>2, <1>4, <1>5, <1>7, <2>1, WholeFrame
  <2>. QED
    BY <2>2, Zenon
<1>9. out'[g] = f /\ \A h \in Guests \ {g} : out'[h] = out[h]
  <2>1. out' = [out EXCEPT ![g] = f] /\ out \in [Guests -> Seq(Byte)]
    BY <1>1, <1>2, <1>6, <1>8, Zenon DEF WireInv, WireTypeOK
  <2>. QED
    BY <2>1, Zenon
<1>10. \A x : Holds(frames, x) => Holds(G, x)
  BY <1>4, FlowLater
<1>11. \A x, c, uncut : Holds(frames, x) /\ Flows(frames, x, c, uncut) => Flows(G, x, c, uncut)
  BY <1>4, FlowLater
<1>12. BuffersHold'
  BY <1>1, <1>3, <1>10, Zenon DEF StepInv, BuffersHold
<1>13. ServerShape' /\ LeftShape'
  BY <1>1 DEF StepInv, ServerShape, LeftShape, ServerAt
<1>14. \A h \in Guests : Holds(frames, UpReader(h)) /\ Holds(frames, rd[h])
  BY NewNotMid DEF UpReader, StepInv, BuffersHold, Reader
<1>15. ASSUME NEW h \in Guests PROVE UpFlow(h)'
  <2>0. /\ UpFlow(h) /\ UpReader(h)' = UpReader(h) /\ conn'[h] = conn[h] /\ src' = src
        /\ ServerAt("failed")' = ServerAt("failed")
    BY <1>1, Zenon DEF StepInv, UpReader, ServerAt
  <2>1. CASE h # g
    <3>1. Upstream(h)' = Upstream(h)
      BY <1>1, <1>9, <2>1 DEF Upstream
    <3>. QED
      BY <1>3, <1>11, <1>14, <2>0, <3>1, Zenon DEF UpFlow
  <2>2. CASE h = g
    <3>1. conn[g] # "left"
      BY <1>1 DEF StepInv, LeftShape
    <3>2. CASE conn[g] \in {"closed", "leaked"}
      BY <2>0, <2>2, <3>2 DEF UpFlow
    <3>3. CASE conn[g] = "open"
      <4>1. SUFFICES ASSUME ~(src = g /\ ServerAt("failed"))
                     PROVE  Flows(G, UpReader(g), Upstream(g)', TRUE)
        <5>1. (conn[g] = "open") = TRUE
          BY <3>3
        <5>. QED
          BY <1>3, <2>0, <2>2, <5>1, Zenon DEF UpFlow
      <4>2. PICK u \in Seq(Byte) : u = up[g]
        BY StreamType DEF WireInv
      <4>3. Upstream(g) = u /\ Upstream(g)' = u \o f
        BY <1>1, <1>9, <4>2, WithNothing, Zenon DEF Upstream
      <4>4. Flows(frames, UpReader(g), u, TRUE)
        <5>1. (conn[g] = "open") = TRUE
          BY <3>3
        <5>. QED
          BY <2>0, <2>2, <3>3, <4>1, <4>3, <5>1, Zenon DEF UpFlow
      <4>5. Flows(G, UpReader(g), u, TRUE)
        BY <1>11, <1>14, <4>4, Zenon
      <4>6. \A x : Flows(G, x, u, TRUE) => Flows(G, x, u \o f, TRUE)
        BY <1>8, FlowAppend
      <4>. QED
        BY <4>3, <4>5, <4>6, Zenon
    <3>4. conn[g] \in {"open", "left", "closed", "leaked"}
      BY DEF WireInv, WireTypeOK
    <3>. QED
      BY <3>1, <3>2, <3>3, <3>4
  <2>. QED
    BY <2>1, <2>2
<1>16. ASSUME NEW h \in Guests PROVE DownFlow(h)'
  <2>1. /\ DownFlow(h) /\ Downstream(h)' = Downstream(h) /\ Serving(h)' = Serving(h)
        /\ conn'[h] = conn[h] /\ rd'[h] = rd[h]
    BY <1>1, Zenon DEF StepInv, Downstream, Serving
  <2>. QED
    BY <1>3, <1>11, <1>14, <2>1, Zenon DEF DownFlow
<1>. QED
  BY <1>12, <1>13, <1>15, <1>16, Zenon DEF StepInv

\* send() moves bytes of the guest into its connection.
LEMMA GuestSendsStep ==
    ASSUME WireInv, StepInv, NEW g \in Guests, NEW n \in 1..Len(out[g]), GuestSends(g, n)
    PROVE  StepInv'
<1>1. UNCHANGED <<frames, connected, conn, down, rd, src, to, dst, sending>>
  BY DEF GuestSends, server
<1>2. /\ up' = [up EXCEPT ![g] = up[g] \o SubSeq(out[g], 1, n)]
      /\ out' = [out EXCEPT ![g] = Drop(out[g], n)]
  BY Zenon DEF GuestSends
<1>3. up \in [Guests -> Seq(Byte)] /\ out \in [Guests -> Seq(Byte)]
  BY DEF WireInv, WireTypeOK
<1>4. /\ up'[g] = up[g] \o SubSeq(out[g], 1, n) /\ out'[g] = Drop(out[g], n)
      /\ \A h \in Guests \ {g} : up'[h] = up[h] /\ out'[h] = out[h]
  BY <1>2, <1>3, Zenon
<1>5. BuffersHold' /\ LeftShape' /\ ServerShape'
  BY <1>1 DEF StepInv, BuffersHold, LeftShape, ServerShape, ServerAt
<1>6. ASSUME NEW h \in Guests PROVE UpFlow(h)'
  <2>1. CASE h = g
    <3>1. PICK a \in Seq(Byte), s \in Seq(Byte) : a = up[g] /\ s = out[g]
      BY <1>3
    <3>2. n \in 0..Len(s)
      BY <3>1
    <3>3. (a \o SubSeq(s, 1, n)) \o Drop(s, n) = a \o s
      BY <3>2, SentBytes
    <3>4. up'[h] \o out'[h] = up[h] \o out[h]
      BY <1>4, <2>1, <3>1, <3>3, Zenon
    <3>. QED
      BY <1>1, <3>4, UpKept
  <2>2. CASE h # g
    BY <1>1, <1>4, <2>2, UpKept
  <2>. QED
    BY <2>1, <2>2
<1>7. ASSUME NEW h \in Guests PROVE DownFlow(h)'
  <2>1. Downstream(h)' = Downstream(h) /\ DownFlow(h)
    BY <1>1 DEF Downstream, StepInv
  <2>. QED
    BY <1>1, <2>1, DownSame
<1>. QED
  BY <1>5, <1>6, <1>7, Zenon DEF StepInv

\* What is lost was to go into a connection that nobody reads any more.
LEMMA GuestSendFailsStep ==
    ASSUME WireInv, StepInv, NEW g \in Guests, GuestSendFails(g)
    PROVE  StepInv'
<1>1. UNCHANGED <<frames, conn, up, down, rd, src, to, dst, sending>> /\ conn[g] = "closed"
  BY DEF GuestSendFails, server
<1>2. \A h \in Guests \ {g} : out'[h] = out[h]
  BY DEF GuestSendFails, WireInv, WireTypeOK
<1>3. \A h \in Guests : connected'[h] => connected[h]
  BY Zenon DEF GuestSendFails, WireInv, WireTypeOK
<1>4. BuffersHold' /\ ServerShape'
  BY <1>1 DEF StepInv, BuffersHold, ServerShape, ServerAt
<1>5. LeftShape'
  BY <1>1, <1>3, Zenon DEF StepInv, LeftShape
<1>6. ASSUME NEW h \in Guests PROVE UpFlow(h)'
  <2>1. CASE h = g
    BY <1>1, <2>1 DEF UpFlow
  <2>2. CASE h # g
    BY <1>1, <1>2, <2>2, UpKept
  <2>. QED
    BY <2>1, <2>2
<1>7. ASSUME NEW h \in Guests PROVE DownFlow(h)'
  <2>1. Downstream(h)' = Downstream(h) /\ DownFlow(h)
    BY <1>1 DEF Downstream, StepInv
  <2>. QED
    BY <1>1, <1>3, <2>1, DownSame
<1>. QED
  BY <1>4, <1>5, <1>6, <1>7, Zenon DEF StepInv

\* recv_from_server begins between two frames.
LEMMA WakesStep ==
    ASSUME WireInv, StepInv, NEW g \in Guests, GuestWakes(g)
    PROVE  StepInv'
<1>. USE WireAssumption
<1>1. g \in Reader /\ "power" \in Stage /\ rd' = [rd EXCEPT ![g].at = "power"]
  BY DEF Reader, Stage, GuestWakes
<1>2. /\ UNCHANGED <<frames, out, connected, conn, up, down, src, to, dst, sending>>
      /\ connected[g] /\ rd[g].at = "idle"
  BY DEF GuestWakes, server
<1>3. rd'[g].at = "power" /\ \A q \in Reader \ {g} : rd'[q] = rd[q]
  BY <1>1, StageMoved
<1>4. rd'[Server] = rd[Server] /\ \A h \in Guests \ {g} : rd'[h] = rd[h]
  BY <1>3 DEF Reader
<1>5. BuffersHold'
  BY <1>1, <1>2, StageHolds DEF StepInv
<1>6. ServerShape'
  BY <1>2, <1>4, ServerKept
<1>7. LeftShape'
  BY <1>2, <1>4 DEF StepInv, LeftShape
<1>8. ASSUME NEW h \in Guests PROVE UpFlow(h)'
  BY <1>2, <1>4, UpKept
<1>9. ASSUME NEW h \in Guests PROVE DownFlow(h)'
  <2>1. Downstream(h)' = Downstream(h) /\ DownFlow(h)
    BY <1>2 DEF Downstream, StepInv
  <2>2. CASE h = g
    <3>1. PICK uncut \in BOOLEAN : uncut = (conn[g] = "open")
      OBVIOUS
    <3>2. Serving(g) /\ conn[g] # "left"
      BY <1>2 DEF Serving, StepInv, LeftShape
    <3>3. Flows(frames, rd[g], Downstream(g), uncut)
      BY <2>1, <2>2, <3>1, <3>2, Zenon DEF DownFlow
    <3>4. ~Mid(frames, rd[g]) /\ ~Mid(frames, rd'[g])
      BY <1>2, <1>3 DEF Mid
    <3>5. Flows(frames, rd'[g], Downstream(g), uncut)
      BY <3>3, <3>4, FlowBetween
    <3>. QED
      BY <1>2, <2>1, <2>2, <3>1, <3>5, Zenon DEF DownFlow
  <2>3. CASE h # g
    BY <1>2, <1>4, <2>1, <2>3, DownSame
  <2>. QED
    BY <2>2, <2>3
<1>. QED
  BY <1>5, <1>6, <1>7, <1>8, <1>9, Zenon DEF StepInv

\* RecvSignalWithSocket at a guest.
LEMMA GuestReads ==
    ASSUME WireInv, StepInv, NEW g \in Guests, RecvSignal(g)
    PROVE  StepInv'
<1>. USE WireAssumption
<1>0. g \in Reader /\ g # Server /\ rd[g].at \in {"power", "head", "rest"}
  BY DEF Reader, RecvSignal, ReadPower, ReadSome, ReadHeader, ReadDone, ReadFails
<1>1. Serving(g) /\ conn[g] # "left"
  BY <1>0 DEF StepInv, LeftShape, Serving
<1>2. /\ UNCHANGED <<frames, out, connected, conn, src, to, dst, sending>>
      /\ up' = up /\ \A h \in Guests \ {g} : down'[h] = down[h]
  BY <1>0, RecvFrame
<1>3. PICK t \in Seq(Byte) : t = IF dst = g THEN sending ELSE <<>>
  BY StreamType, EmptySeq, Zenon DEF WireInv
<1>4. In(g) = down[g] /\ In(g)' = down'[g]
  BY <1>0, Zenon DEF In
<1>5. PICK uncut \in BOOLEAN : uncut = (conn[g] = "open")
  OBVIOUS
<1>6. Flows(frames, rd[g], In(g) \o t, uncut)
  <2>1. DownFlow(g)
    BY DEF StepInv
  <2>2. Downstream(g) = In(g) \o t
    BY <1>3, <1>4, Zenon DEF Downstream
  <2>. QED
    BY <1>1, <1>5, <2>1, <2>2, Zenon DEF DownFlow
<1>7. BuffersHold /\ Holds(frames, rd[g])
  BY <1>0 DEF StepInv, BuffersHold
<1>8. PICK y \in Reading :
         /\ rd' = [rd EXCEPT ![g] = y]
         /\ Holds(frames, y) /\ y.at \in {"head", "rest", "done", "failed"}
         /\ y.at # "failed" => Flows(frames, y, In(g)' \o t, uncut)
  BY <1>0, <1>6, <1>7, RecvFlow
<1>9. BuffersHold' /\ rd'[g] = y /\ \A q \in Reader \ {g} : rd'[q] = rd[q]
  BY <1>0, <1>2, <1>7, <1>8, ReaderHolds
<1>10. rd'[Server] = rd[Server] /\ \A h \in Guests \ {g} : rd'[h] = rd[h]
  BY <1>0, <1>9 DEF Reader
<1>11. ServerShape'
  BY <1>2, <1>10, ServerKept
<1>12. LeftShape'
  BY <1>1, <1>2, <1>10 DEF StepInv, LeftShape
<1>13. ASSUME NEW h \in Guests PROVE UpFlow(h)'
  BY <1>2, <1>10, UpKept
<1>14. ASSUME NEW h \in Guests PROVE DownFlow(h)'
  <2>1. CASE h = g
    <3>1. CASE y.at = "failed"
      BY <1>9, <2>1, <3>1 DEF DownFlow, Serving
    <3>2. CASE y.at # "failed"
      <4>1. Downstream(g)' = In(g)' \o t
        BY <1>2, <1>3, <1>4, Zenon DEF Downstream
      <4>2. Flows(frames, rd'[g], Downstream(g)', uncut)
        BY <1>8, <1>9, <3>2, <4>1, Zenon
      <4>. QED
        BY <1>2, <1>5, <2>1, <4>2, Zenon DEF DownFlow
    <3>. QED
      BY <3>1, <3>2
  <2>2. CASE h # g
    <3>1. Downstream(h)' = Downstream(h) /\ DownFlow(h)
      BY <1>2, <2>2 DEF Downstream, StepInv
    <3>. QED
      BY <1>2, <1>10, <2>2, <3>1, DownSame
  <2>. QED
    BY <2>1, <2>2
<1>. QED
  BY <1>9, <1>11, <1>12, <1>13, <1>14, Zenon DEF StepInv

\* recv_from_server ends: all of the frame was read.
LEMMA HandsOnStep ==
    ASSUME WireInv, StepInv, NEW g \in Guests, GuestHandsOn(g)
    PROVE  StepInv'
<1>. USE WireAssumption
<1>1. g \in Reader /\ "idle" \in Stage /\ rd' = [rd EXCEPT ![g].at = "idle"]
  BY DEF Reader, Stage, GuestHandsOn
<1>2. /\ UNCHANGED <<frames, out, connected, conn, up, down, src, to, dst, sending>>
      /\ rd[g].at = "done"
  BY DEF GuestHandsOn, server
<1>3. rd'[g].at = "idle" /\ \A q \in Reader \ {g} : rd'[q] = rd[q]
  BY <1>1, StageMoved
<1>4. rd'[Server] = rd[Server] /\ \A h \in Guests \ {g} : rd'[h] = rd[h]
  BY <1>3 DEF Reader
<1>5. BuffersHold'
  BY <1>1, <1>2, StageHolds DEF StepInv
<1>6. ServerShape'
  BY <1>2, <1>4, ServerKept
<1>7. LeftShape'
  BY <1>2, <1>3, <1>4 DEF StepInv, LeftShape
<1>8. ASSUME NEW h \in Guests PROVE UpFlow(h)'
  BY <1>2, <1>4, UpKept
<1>9. ASSUME NEW h \in Guests PROVE DownFlow(h)'
  <2>1. Downstream(h)' = Downstream(h) /\ DownFlow(h)
    BY <1>2 DEF Downstream, StepInv
  <2>2. CASE h = g
    <3>1. PICK uncut \in BOOLEAN : uncut = (conn[g] = "open")
      OBVIOUS
    <3>2. Serving(g) /\ conn[g] # "left"
      BY <1>2 DEF Serving, StepInv, LeftShape
    <3>3. Flows(frames, rd[g], Downstream(g), uncut)
      BY <2>1, <2>2, <3>1, <3>2, Zenon DEF DownFlow
    <3>4. ~Mid(frames, rd[g]) /\ ~Mid(frames, rd'[g])
      BY <1>2, <1>3 DEF Mid
    <3>5. Flows(frames, rd'[g], Downstream(g), uncut)
      BY <3>3, <3>4, FlowBetween
    <3>. QED
      BY <1>2, <2>1, <2>2, <3>1, <3>5, Zenon DEF DownFlow
  <2>3. CASE h # g
    BY <1>2, <1>4, <2>1, <2>3, DownSame
  <2>. QED
    BY <2>2, <2>3
<1>. QED
  BY <1>5, <1>6, <1>7, <1>8, <1>9, Zenon DEF StepInv

\* manage_server_crash: the connection is not read again.
LEMMA ReadFailedStep ==
    ASSUME WireInv, StepInv, NEW g \in Guests, GuestReadFailed(g)
    PROVE  StepInv'
<1>. USE WireAssumption
<1>1. g \in Reader /\ "idle" \in Stage /\ rd' = [rd EXCEPT ![g].at = "idle"]
  BY DEF Reader, Stage, GuestReadFailed
<1>2. UNCHANGED <<frames, out, conn, up, down, src, to, dst, sending>>
  BY DEF GuestReadFailed, server
<1>3. rd'[g].at = "idle" /\ \A q \in Reader \ {g} : rd'[q] = rd[q]
  BY <1>1, StageMoved
<1>4. rd'[Server] = rd[Server] /\ \A h \in Guests \ {g} : rd'[h] = rd[h]
  BY <1>3 DEF Reader
<1>5. ~connected'[g] /\ \A h \in Guests \ {g} : connected'[h] = connected[h]
  BY Zenon DEF GuestReadFailed, WireInv, WireTypeOK
<1>6. BuffersHold'
  BY <1>1, <1>2, StageHolds DEF StepInv
<1>7. ServerShape'
  BY <1>2, <1>4, ServerKept
<1>8. LeftShape'
  BY <1>2, <1>3, <1>4, <1>5 DEF StepInv, LeftShape
<1>9. ASSUME NEW h \in Guests PROVE UpFlow(h)'
  BY <1>2, <1>4, UpKept
<1>10. ASSUME NEW h \in Guests PROVE DownFlow(h)'
  <2>1. CASE h = g
    BY <1>3, <1>5, <2>1, NotServing
  <2>2. CASE h # g
    <3>1. Downstream(h)' = Downstream(h) /\ DownFlow(h)
      BY <1>2 DEF Downstream, StepInv
    <3>. QED
      BY <1>2, <1>4, <1>5, <2>2, <3>1, DownSame
  <2>. QED
    BY <2>1, <2>2
<1>. QED
  BY <1>6, <1>7, <1>8, <1>9, <1>10, Zenon DEF StepInv

\* A guest reconnects between two frames, on a connection with nothing in it.
LEMMA ReconnectStep ==
    ASSUME ~Overtake, WireInv, StepInv, NEW g \in Guests, Reconnect(g)
    PROVE  StepInv'
<1>. USE WireAssumption
<1>1. /\ UNCHANGED <<frames, rd, src, to, dst, sending>>
      /\ rd[g].at = "idle" /\ out[g] = <<>> /\ ServerAt("idle")
  BY DEF Reconnect, server
<1>2. src = Server /\ dst = Server /\ g # Server
  BY <1>1 DEF StepInv, ServerShape, ServerAt
<1>3. conn'[g] = "open" /\ \A h \in Guests \ {g} : conn'[h] = conn[h]
  BY DEF Reconnect, WireInv, WireTypeOK
<1>4. \A h \in Guests \ {g} : connected'[h] = connected[h]
  BY Zenon DEF Reconnect, WireInv, WireTypeOK
<1>5. /\ up'[g] = <<>> /\ down'[g] = <<>> /\ out'[g] = <<>>
      /\ \A h \in Guests \ {g} : up'[h] = up[h] /\ down'[h] = down[h] /\ out'[h] = out[h]
  <2>1. up \in [Guests -> Seq(Byte)] /\ down \in [Guests -> Seq(Byte)] /\ out \in [Guests -> Seq(Byte)]
    BY DEF WireInv, WireTypeOK
  <2>2. up' = [up EXCEPT ![g] = <<>>] /\ down' = [down EXCEPT ![g] = <<>>]
    BY Zenon DEF Reconnect
  <2>3. out' = [out EXCEPT ![g] = <<>>]
    BY <1>1, Zenon DEF Reconnect
  <2>. QED
    BY <2>1, <2>2, <2>3, Zenon
<1>6. BuffersHold'
  BY <1>1 DEF StepInv, BuffersHold
<1>7. ServerShape'
  BY <1>1, <1>3, ServerKept
<1>8. LeftShape'
  BY <1>1, <1>3, <1>4 DEF StepInv, LeftShape
<1>9. ASSUME NEW x, ~Mid(frames, x), NEW uncut PROVE Flows(frames, x, <<>>, uncut)
  BY <1>9 DEF Flows, Chain
<1>10. <<>> \o <<>> = <<>>
  BY WithNothing, EmptySeq
<1>11. ASSUME NEW h \in Guests PROVE UpFlow(h)'
  <2>1. CASE h = g
    <3>1. UpReader(h)' = NewReader /\ Upstream(h)' = <<>>
      BY <1>1, <1>2, <1>5, <1>10, <2>1, Zenon DEF UpReader, Upstream
    <3>2. Flows(frames, NewReader, <<>>, conn'[h] = "open")
      BY <1>9, NewNotMid, Zenon
    <3>. QED
      BY <1>1, <3>1, <3>2, Zenon DEF UpFlow
  <2>2. CASE h # g
    BY <1>1, <1>3, <1>5, <2>2, UpKept
  <2>. QED
    BY <2>1, <2>2
<1>12. ASSUME NEW h \in Guests PROVE DownFlow(h)'
  <2>1. CASE h = g
    <3>1. Downstream(h)' = <<>>
      BY <1>1, <1>2, <1>5, <1>10, <2>1, Zenon DEF Downstream
    <3>2. ~Mid(frames, rd[g])
      BY <1>1 DEF Mid
    <3>3. Flows(frames, rd[g], <<>>, conn'[h] = "open")
      BY <1>9, <3>2, Zenon
    <3>. QED
      BY <1>1, <2>1, <3>1, <3>3, Zenon DEF DownFlow
  <2>2. CASE h # g
    <3>1. Downstream(h)' = Downstream(h) /\ DownFlow(h)
      BY <1>1, <1>5, <2>2 DEF Downstream, StepInv
    <3>. QED
      BY <1>1, <1>3, <1>4, <2>2, <3>1, DownSame
  <2>. QED
    BY <2>1, <2>2
<1>. QED
  BY <1>6, <1>7, <1>8, <1>11, <1>12, Zenon DEF StepInv

\* The guest ends: what it has sent is still read by the server, up to the cut.
LEMMA GuestEndsStep ==
    ASSUME WireInv, StepInv, NEW g \in Guests, GuestEnds(g)
    PROVE  StepInv'
<1>. USE WireAssumption
<1>1. /\ UNCHANGED <<frames, up, src, to, dst, sending>> /\ rd' = [rd EXCEPT ![g] = NewReader]
      /\ g \in Reader /\ g # Server
  BY DEF GuestEnds, server, Reader
<1>2. /\ conn[g] \in {"open", "left"} => conn'[g] = "left"
      /\ conn[g] \notin {"open", "left"} => conn'[g] = "closed"
      /\ \A h \in Guests \ {g} : conn'[h] = conn[h]
  BY DEF GuestEnds, WireInv, WireTypeOK
<1>3. ~connected'[g] /\ \A h \in Guests \ {g} : connected'[h] = connected[h]
  BY Zenon DEF GuestEnds, WireInv, WireTypeOK
<1>4. out'[g] = <<>> /\ \A h \in Guests \ {g} : down'[h] = down[h] /\ out'[h] = out[h]
  BY DEF GuestEnds, WireInv, WireTypeOK
<1>5. BuffersHold' /\ rd'[g] = NewReader /\ \A q \in Reader \ {g} : rd'[q] = rd[q]
  <2>1. BuffersHold /\ Holds(frames, NewReader)
    BY NewNotMid DEF StepInv
  <2>. QED
    BY <1>1, <2>1, ReaderHolds
<1>6. /\ rd'[g].at = "idle" /\ rd'[Server] = rd[Server]
      /\ \A h \in Guests \ {g} : rd'[h] = rd[h]
  BY <1>1, <1>5, NewNotMid DEF Reader
<1>7. ServerShape'
  BY <1>1, <1>2, <1>6, ServerKept
<1>8. LeftShape'
  BY <1>2, <1>3, <1>6 DEF StepInv, LeftShape
<1>9. ASSUME NEW h \in Guests PROVE UpFlow(h)'
  <2>1. CASE h = g /\ conn[g] \in {"open", "left"}
    <3>0. UpFlow(g) /\ conn'[g] = "left" /\ ServerAt("failed")' = ServerAt("failed")
      BY <1>2, <1>6, <2>1, Zenon DEF StepInv, ServerAt
    <3>1. PICK a \in Seq(Byte), t \in Seq(Byte) : a = up[g] /\ t = out[g]
      BY StreamType DEF WireInv
    <3>2. PICK uncut \in BOOLEAN : uncut = (conn[g] = "open")
      OBVIOUS
    <3>a. PICK cut \in BOOLEAN : cut = (conn'[g] = "open") /\ ~cut
      BY <3>0
    <3>3. SUFFICES ASSUME ~(src = g /\ ServerAt("failed"))
                   PROVE  Flows(frames, UpReader(g), a, cut)
      <4>1. UpReader(g)' = UpReader(g)
        BY <1>1, <1>6 DEF UpReader
      <4>2. Upstream(g)' = a
        BY <1>1, <1>4, <3>1, WithNothing, Zenon DEF Upstream
      <4>. QED
        BY <1>1, <2>1, <3>0, <3>a, <4>1, <4>2, Zenon DEF UpFlow
    <3>4. Flows(frames, UpReader(g), a \o t, uncut)
      BY <2>1, <3>0, <3>1, <3>2, <3>3, Zenon DEF UpFlow, Upstream
    <3>5. ~cut /\ a \in Seq(Byte) /\ t \in Seq(Byte)
      BY <3>1, <3>a, Zenon
    <3>. QED
      BY <3>4, <3>5, FlowCut
  <2>2. CASE h = g /\ conn[g] \notin {"open", "left"}
    BY <1>2, <2>2 DEF UpFlow
  <2>3. CASE h # g
    BY <1>1, <1>2, <1>4, <1>6, <2>3, UpKept
  <2>. QED
    BY <2>1, <2>2, <2>3
<1>10. ASSUME NEW h \in Guests PROVE DownFlow(h)'
  <2>1. CASE h = g
    BY <1>3, <1>6, <2>1, NotServing
  <2>2. CASE h # g
    <3>1. Downstream(h)' = Downstream(h) /\ DownFlow(h)
      BY <1>1, <1>4, <2>2 DEF Downstream, StepInv
    <3>. QED
      BY <1>1, <1>2, <1>3, <1>6, <2>2, <3>1, DownSame
  <2>. QED
    BY <2>1, <2>2
<1>. QED
  BY <1>5, <1>7, <1>8, <1>9, <1>10, Zenon DEF StepInv

\* The steps of a guest together; Reconnect finds no thread inside a frame.
LEMMA GuestStepInStep ==
    ASSUME ~Overtake, WireInv, StepInv, NEW g \in Guests, GuestStep(g)
    PROVE  StepInv'
  BY TransmitStep, GuestSendsStep, GuestSendFailsStep, WakesStep, GuestReads, HandsOnStep,
     ReadFailedStep, ReconnectStep, GuestEndsStep, Zenon DEF GuestStep

\* It holds when nothing was sent.
LEMMA InitInStep == Init => StepInv
<1>. SUFFICES ASSUME Init PROVE StepInv
  OBVIOUS
<1>. USE WireAssumption
<1>1. \A r \in Reader : rd[r] = NewReader
  BY DEF Init
<1>2. BuffersHold
  BY <1>1, NewNotMid, Zenon DEF BuffersHold
<1>3. rd[Server].at = "idle"
  BY <1>1, NewNotMid DEF Reader
<1>4. ServerShape /\ LeftShape
  BY <1>3 DEF Init, ServerShape, LeftShape, ServerAt
<1>5. <<>> \o <<>> = <<>>
  BY WithNothing, EmptySeq
<1>6. ASSUME NEW uncut PROVE Flows(frames, NewReader, <<>>, uncut)
  BY NewNotMid DEF Flows, Chain
<1>7. ASSUME NEW g \in Guests PROVE UpFlow(g) /\ DownFlow(g)
  <2>1. UpReader(g) = NewReader /\ rd[g] = NewReader
    BY <1>1 DEF Init, UpReader, Reader
  <2>2. Upstream(g) = <<>> /\ Downstream(g) = <<>>
    BY <1>5 DEF Init, Upstream, Downstream
  <2>. QED
    BY <1>6, <2>1, <2>2, Zenon DEF UpFlow, DownFlow
<1>. QED
  BY <1>2, <1>4, <1>7, Zenon DEF StepInv

\* When no reconnection overtakes a thread that is inside a frame, the server and the
\* guests keep the boundaries of the frames: the bytes on the way from a sender to the
\* reader continue the frame it is in, and what is in a Buffer begins one frame.
THEOREM WireStaysInStep ==
    ASSUME ~Overtake
    PROVE  Spec => [](WireInv /\ StepInv)
<1>1. WireInv /\ StepInv /\ [Next]_vars => StepInv'
  <2>. SUFFICES ASSUME WireInv, StepInv, [Next]_vars PROVE StepInv'
    OBVIOUS
  <2>1. CASE ServerStep
    BY <2>1, ServerStepInStep
  <2>2. CASE ServerEnds
    BY <2>2, ServerEndsStep
  <2>3. ASSUME NEW g \in Guests, GuestStep(g) PROVE StepInv'
    BY <2>3, GuestStepInStep
  <2>4. CASE UNCHANGED vars
    <3>1. UNCHANGED <<frames, out, connected, conn, up, down, rd, src, to, dst, sending>>
      BY <2>4 DEF vars, server
    <3>2. BuffersHold' /\ ServerShape' /\ LeftShape'
      BY <3>1 DEF StepInv, BuffersHold, ServerShape, LeftShape, ServerAt
    <3>3. ASSUME NEW h \in Guests PROVE UpFlow(h)' /\ DownFlow(h)'
      <4>1. Downstream(h)' = Downstream(h) /\ DownFlow(h)
        BY <3>1 DEF Downstream, StepInv
      <4>. QED
        BY <3>1, <4>1, UpKept, DownSame
    <3>. QED
      BY <3>2, <3>3, Zenon DEF StepInv
  <2>. QED
    BY <2>1, <2>2, <2>3, <2>4 DEF Next
<1>. QED
  BY <1>1, InitInStep, WireInvariant, PTL DEF Spec

\* RecvSignalWithSocket takes no byte for another, at the server and at the guests, for
\* any number of guests and any cut of the reads and sends: the power is read where a
\* power was sent, and a message is completed with the bytes of the same message.  The
\* hypothesis is needed: MCOvertaken shows what a reconnection inside a frame does.
THEOREM BothSidesInStep ==
    ASSUME ~Overtake
    PROVE  Spec => []InStep
<1>1. WireInv /\ StepInv => InStep
  <2>. SUFFICES ASSUME WireInv, StepInv, NEW r \in Reader, In(r) # <<>>
                PROVE  /\ rd[r].at = "power" => Head(In(r)).pos = 0
                       /\ rd[r].at \in {"head", "rest"} /\ rd[r].pos < SizeToRead(r) =>
                            /\ Head(In(r)).pos = rd[r].pos + 1
                            /\ rd[r].pos > 0 => Head(In(r)).frame = rd[r].Buffer[1].frame
    BY DEF InStep
  <2>. USE WireAssumption
  <2>1. SUFFICES ASSUME rd[r].at \in {"power", "head", "rest"}
                 PROVE  Fits(frames, rd[r], Head(In(r)))
    <3>1. ASSUME rd[r].at \in {"head", "rest"}, rd[r].pos < SizeToRead(r) PROVE Mid(frames, rd[r])
      <4>1. PICK x \in Reading : x = rd[r] /\ BufferOK(x) /\ Holds(frames, x)
        BY DEF WireInv, WireTypeOK, BuffersOK, StepInv, BuffersHold
      <4>2. Sized(frames) /\ x.pos \in Nat /\ x.total \in Nat
        BY FramesSized, ReadingType DEF WireInv
      <4>3. \/ x.at = "head" /\ x.pos < HeaderSize
            \/ x.at = "rest" /\ x.pos < x.total /\ x.pos > 0
        BY <3>1, <4>1, <4>2 DEF SizeToRead, BufferOK
      <4>4. Mid(frames, x)
        BY <4>1, <4>2, <4>3 DEF Mid, Holds, Sized
      <4>. QED
        BY <4>1, <4>4
    <3>2. rd[r].at = "power" => ~Mid(frames, rd[r])
      BY DEF Mid
    <3>. QED
      BY <2>1, <3>1, <3>2 DEF Fits
  <2>2. PICK a \in Seq(Byte) : a = In(r) /\ Len(a) > 0 /\ Head(a) = a[1]
    BY InType DEF WireInv
  <2>3. ASSUME NEW t \in Seq(Byte), NEW uncut \in BOOLEAN, Flows(frames, rd[r], a \o t, uncut)
        PROVE  Fits(frames, rd[r], a[1])
    <3>1. PICK cut \in BOOLEAN : ~cut
      OBVIOUS
    <3>2. Flows(frames, rd[r], a, cut)
      BY <2>3, <3>1, FlowCut
    <3>. QED
      BY <2>2, <3>2 DEF Flows
  <2>4. CASE r = Server
    <3>1. src \in Guests /\ src # Server /\ conn[src] \in {"open", "left"} /\ ~ServerAt("failed")
      BY <2>1, <2>4 DEF StepInv, ServerShape, ServerAt, WireInv, WireTypeOK
    <3>2. UpFlow(src) /\ UpReader(src) = rd[r] /\ Upstream(src) = a \o out[src]
      BY <2>2, <2>4, <3>1, Zenon DEF StepInv, UpReader, Upstream, In
    <3>3. out[src] \in Seq(Byte)
      BY <3>1, StreamType DEF WireInv
    <3>4. PICK uncut \in BOOLEAN : uncut = (conn[src] = "open")
      OBVIOUS
    <3>5. Flows(frames, rd[r], a \o out[src], uncut)
      BY <3>1, <3>2, <3>4, Zenon DEF UpFlow
    <3>. QED
      BY <2>2, <2>3, <3>3, <3>5, Zenon
  <2>5. CASE r # Server
    <3>1. r \in Guests /\ Serving(r) /\ conn[r] # "left"
      BY <2>1, <2>5 DEF Reader, StepInv, LeftShape, Serving
    <3>2. PICK t \in Seq(Byte) : t = IF dst = r THEN sending ELSE <<>>
      BY <3>1, StreamType, EmptySeq, Zenon DEF WireInv
    <3>3. DownFlow(r) /\ Downstream(r) = a \o t
      BY <2>2, <2>5, <3>1, <3>2, Zenon DEF StepInv, Downstream, In
    <3>4. PICK uncut \in BOOLEAN : uncut = (conn[r] = "open")
      OBVIOUS
    <3>5. Flows(frames, rd[r], a \o t, uncut)
      BY <3>1, <3>3, <3>4, Zenon DEF DownFlow
    <3>. QED
      BY <2>2, <2>3, <3>5, Zenon
  <2>. QED
    BY <2>4, <2>5
<1>. QED
  BY <1>1, WireStaysInStep, PTL

-----------------------------------------------------------------------------
(***************************************************************************)
(* Frames in order                                                         *)
(***************************************************************************)

\* Frame k is not of the guest that has transmitted j, or was transmitted later.
Above(F, k, j) == F[j].from = F[k].from => j < k

\* Byte b is sent before byte c, when both are of one guest.
Before(F, b, c) ==
    F[b.frame].from = F[c.frame].from =>
        b.frame < c.frame \/ (b.frame = c.frame /\ b.pos < c.pos)

\* The bytes s are bytes of frames, those of one guest in the order of its frames.
Ordered(F, s) ==
    /\ \A i \in 1..Len(s) : Valid(F, s[i])
    /\ \A i, j \in 1..Len(s) : i < j => Before(F, s[i], s[j])

\* The frames that s has bytes of.
FramesOf(s) == {s[i].frame : i \in 1..Len(s)}

\* Reader x has begun with a message.
InFrame(x) == x.at \in {"head", "rest", "done", "send"} /\ x.pos > 0

\* The frames that the buffer of reader x has bytes of; of earlier ones.
Held(x) == {x.Buffer[i].frame : i \in 1..Len(x.Buffer)} \ {0}

Stale(x) == {x.Buffer[i].frame : i \in {j \in 1..Len(x.Buffer) : InFrame(x) => j > x.pos}} \ {0}

\* The buffer b begins with all of frame k.
IsWhole(F, b, k) ==
    F[k].len <= Len(b) /\ \A i \in 1..F[k].len : b[i] = [frame |-> k, pos |-> i]

\* The bytes t are some of the bytes s, in their order.
Picked(t, s) ==
    \E f \in [1..Len(t) -> 1..Len(s)] :
        /\ \A i, j \in 1..Len(t) : i < j => f[i] < f[j]
        /\ \A i \in 1..Len(t) : t[i] = s[f[i]]

\* A stream is picked from itself.
LEMMA PickedSame ==
    ASSUME NEW s \in Seq(Byte)
    PROVE  Picked(s, s)
<1>. DEFINE f == [i \in 1..Len(s) |-> i]
<1>1. f \in [1..Len(s) -> 1..Len(s)] /\ \A i \in 1..Len(s) : f[i] = i
  OBVIOUS
<1>. HIDE DEF f
<1>. QED
  BY <1>1 DEF Picked

\* Nothing is picked from every stream.
LEMMA PickedNothing ==
    ASSUME NEW s \in Seq(Byte)
    PROVE  Picked(<<>>, s)
<1>0. PICK e \in Seq(Byte) : e = <<>> /\ Len(e) = 0
  BY EmptySeq, Zenon
<1>. DEFINE f == [i \in 1..Len(e) |-> 1]
<1>1. f \in [1..Len(e) -> 1..Len(s)]
  BY <1>0
<1>. HIDE DEF f
<1>2. 1..Len(e) = {}
  BY <1>0
<1>3. Picked(e, s)
  BY <1>1, <1>2 DEF Picked
<1>. QED
  BY <1>0, <1>3

\* The last bytes, behind a beginning of the stream or without it.
LEMMA PickedMiddle ==
    ASSUME NEW a \in Seq(Byte), NEW b \in Seq(Byte), NEW n \in 0..Len(b)
    PROVE  Picked(a \o Drop(b, n), a \o b)
<1>1. PICK d \in Seq(Byte) : d = Drop(b, n) /\ Len(d) = Len(b) - n /\ \A i \in 1..(Len(b) - n) : d[i] = b[n + i]
  BY Dropped, SMTT(30)
<1>0. PICK t, s : t = a \o d /\ s = a \o b
  OBVIOUS
<1>2. /\ t \in Seq(Byte) /\ Len(t) = Len(a) + Len(d)
      /\ \A i \in 1..Len(a) : t[i] = a[i]
      /\ \A i \in 1..Len(d) : t[Len(a) + i] = d[i]
      /\ s \in Seq(Byte) /\ Len(s) = Len(a) + Len(b)
      /\ \A i \in 1..Len(a) : s[i] = a[i]
      /\ \A i \in 1..Len(b) : s[Len(a) + i] = b[i]
  BY <1>0, Joined
<1>3. PICK p \in Nat : p = Len(a)
  OBVIOUS
<1>. DEFINE f == [i \in 1..Len(t) |-> IF i <= p THEN i ELSE i + n]
<1>4. Len(d) \in Nat /\ Len(b) \in Nat /\ n \in Nat
  OBVIOUS
<1>5. f \in [1..Len(t) -> 1..Len(s)]
  BY <1>1, <1>2, <1>3, <1>4
<1>6. \A i \in 1..Len(t) : f[i] = IF i <= p THEN i ELSE i + n
  OBVIOUS
<1>. HIDE DEF f
<1>7. \A i, j \in 1..Len(t) : i < j => f[i] < f[j]
  BY <1>1, <1>2, <1>3, <1>4, <1>6
<1>8. ASSUME NEW i \in 1..Len(t) PROVE t[i] = s[f[i]]
  <2>1. CASE i <= p
    BY <1>2, <1>3, <1>6, <2>1
  <2>2. CASE i > p
    <3>0. PICK x, y \in Nat : x = Len(d) /\ y = Len(b)
      BY <1>4, Zenon
    <3>a. Len(t) = p + x /\ Len(d) = Len(b) - n
      BY <1>1, <1>2, <1>3, <3>0, Zenon
    <3>b. x = y - n /\ i \in Int /\ i <= p + x
      BY <3>0, <3>a
    <3>c. i - p \in 1..x /\ p + (i - p) = i /\ n + (i - p) \in 1..y /\ p + (n + (i - p)) = i + n
      BY <1>4, <2>2, <3>b
    <3>1. i - p \in 1..Len(d) /\ p + (i - p) = i /\ n + (i - p) \in 1..Len(b)
          /\ p + (n + (i - p)) = i + n
      BY <3>0, <3>c, Zenon
    <3>2. t[i] = d[i - p] /\ d[i - p] = b[n + (i - p)] /\ s[p + (n + (i - p))] = b[n + (i - p)]
      BY <1>1, <1>2, <1>3, <3>1
    <3>3. f[i] = p + (n + (i - p))
      BY <1>3, <1>6, <2>2, <3>1
    <3>. QED
      BY <3>2, <3>3
  <2>. QED
    BY <1>3, <2>1, <2>2
<1>. QED
  BY <1>0, <1>1, <1>5, <1>7, <1>8 DEF Picked

\* The last bytes.
LEMMA PickedDrop ==
    ASSUME NEW s \in Seq(Byte), NEW n \in 0..Len(s)
    PROVE  Picked(Drop(s, n), s)
<1>1. PICK d \in Seq(Byte) : d = Drop(s, n) /\ Len(d) = Len(s) - n /\ \A i \in 1..(Len(s) - n) : d[i] = s[n + i]
  BY Dropped
<1>. DEFINE f == [i \in 1..Len(d) |-> i + n]
<1>2. f \in [1..Len(d) -> 1..Len(s)] /\ \A i \in 1..Len(d) : f[i] = i + n
  BY <1>1
<1>. HIDE DEF f
<1>3. \A i, j \in 1..Len(d) : i < j => f[i] < f[j]
  BY <1>1, <1>2
<1>4. \A i \in 1..Len(d) : d[i] = s[f[i]]
  BY <1>1, <1>2
<1>. QED
  BY <1>1, <1>2, <1>3, <1>4 DEF Picked

\* The first bytes, and what is behind them.
LEMMA PickedPart ==
    ASSUME NEW a \in Seq(Byte), NEW b \in Seq(Byte)
    PROVE  Picked(a, a \o b) /\ Picked(b, a \o b)
<1>0. PICK s : s = a \o b
  OBVIOUS
<1>1. /\ s \in Seq(Byte) /\ Len(s) = Len(a) + Len(b)
      /\ \A i \in 1..Len(a) : s[i] = a[i]
      /\ \A i \in 1..Len(b) : s[Len(a) + i] = b[i]
  BY <1>0, Joined
<1>2. Picked(a, s)
  <2>. DEFINE f == [i \in 1..Len(a) |-> i]
  <2>1. f \in [1..Len(a) -> 1..Len(s)] /\ \A i \in 1..Len(a) : f[i] = i
    BY <1>1
  <2>. HIDE DEF f
  <2>2. \A i, j \in 1..Len(a) : i < j => f[i] < f[j]
    BY <2>1
  <2>3. \A i \in 1..Len(a) : a[i] = s[f[i]]
    BY <1>1, <2>1
  <2>. QED
    BY <2>1, <2>2, <2>3 DEF Picked
<1>3. Picked(b, s)
  <2>. DEFINE f == [i \in 1..Len(b) |-> Len(a) + i]
  <2>1. f \in [1..Len(b) -> 1..Len(s)] /\ \A i \in 1..Len(b) : f[i] = Len(a) + i
    BY <1>1
  <2>. HIDE DEF f
  <2>2. \A i, j \in 1..Len(b) : i < j => f[i] < f[j]
    BY <2>1
  <2>3. \A i \in 1..Len(b) : b[i] = s[f[i]]
    BY <1>1, <2>1
  <2>. QED
    BY <2>1, <2>2, <2>3 DEF Picked
<1>. QED
  BY <1>0, <1>2, <1>3

\* What is picked from bytes in order is in order, and has no other bytes.
LEMMA PickedOrdered ==
    ASSUME NEW F, NEW s \in Seq(Byte), NEW t \in Seq(Byte), Picked(t, s), Ordered(F, s)
    PROVE  /\ Ordered(F, t) /\ FramesOf(t) \subseteq FramesOf(s)
           /\ \A i \in 1..Len(t) : \E j \in 1..Len(s) : t[i] = s[j]
<1>1. PICK f \in [1..Len(t) -> 1..Len(s)] :
        /\ \A i, j \in 1..Len(t) : i < j => f[i] < f[j]
        /\ \A i \in 1..Len(t) : t[i] = s[f[i]]
  BY DEF Picked
<1>2. \A i \in 1..Len(t) : f[i] \in 1..Len(s) /\ t[i] = s[f[i]]
  BY <1>1
<1>3. Ordered(F, t)
  BY <1>1, <1>2 DEF Ordered
<1>4. FramesOf(t) \subseteq FramesOf(s)
  BY <1>2 DEF FramesOf
<1>. QED
  BY <1>2, <1>3, <1>4

\* What guest g, with the reader x, has had, the frames G, and will have, the bytes s:
\* frames of others, and from every one of them in the order in which it has
\* transmitted them, each once.  A buffer that is not in a frame holds no frame that
\* the driver has not had.
GuestOrder(F, g, x, G, s, serving) ==
    /\ Ordered(F, s)
    /\ Held(x) \cup G \subseteq DOMAIN F
    /\ \A j \in 1..Len(s) : F[s[j].frame].from # g
    /\ InFrame(x) =>
          /\ F[x.Buffer[1].frame].from # g
          /\ \A k \in Stale(x) \cup G : Above(F, x.Buffer[1].frame, k)
          /\ \A j \in 1..Len(s) : Before(F, x.Buffer[x.pos], s[j])
    /\ serving => \A j \in 1..Len(s) : \A k \in Stale(x) \cup G : Above(F, s[j].frame, k)
    /\ ~InFrame(x) => \A k \in DOMAIN F : IsWhole(F, x.Buffer, k) => k \in G

\* What guest h sends, the bytes s, to the server, whose reader is y, when the frames R
\* have been sent on: frames of h, later ones than those in R and in the buffer.
SendOrder(F, h, y, s, R) ==
    /\ Ordered(F, s)
    /\ \A j \in 1..Len(s) : F[s[j].frame].from = h /\ \A k \in R : Above(F, s[j].frame, k)
    /\ InFrame(y) =>
          /\ F[y.Buffer[1].frame].from = h
          /\ \A j \in 1..Len(s) : Before(F, y.Buffer[y.pos], s[j])

\* Some of the bytes are lost, or the guest stops to read.
LEMMA GuestPicked ==
    ASSUME NEW F, NEW g, NEW x, NEW G, NEW s \in Seq(Byte), NEW t \in Seq(Byte), NEW v, NEW w,
           GuestOrder(F, g, x, G, s, v), Picked(t, s), w => v
    PROVE  GuestOrder(F, g, x, G, t, w)
<1>1. Ordered(F, t) /\ \A i \in 1..Len(t) : \E j \in 1..Len(s) : t[i] = s[j]
  BY PickedOrdered DEF GuestOrder
<1>. QED
  BY <1>1 DEF GuestOrder

\* The same for what a guest sends; what has been sent on may be forgotten.
LEMMA SendPicked ==
    ASSUME NEW F, NEW h, NEW y, NEW s \in Seq(Byte), NEW t \in Seq(Byte), NEW R, NEW T,
           SendOrder(F, h, y, s, R), Picked(t, s), T \subseteq R
    PROVE  SendOrder(F, h, y, t, T)
<1>1. Ordered(F, t) /\ \A i \in 1..Len(t) : \E j \in 1..Len(s) : t[i] = s[j]
  BY PickedOrdered DEF SendOrder
<1>. QED
  BY <1>1 DEF SendOrder

\* The server goes to another stage.
LEMMA SendStage ==
    ASSUME NEW F, NEW h, NEW y, NEW z, NEW s, NEW R, SendOrder(F, h, y, s, R),
           InFrame(z) => InFrame(y) /\ z.pos = y.pos /\ z.Buffer = y.Buffer
    PROVE  SendOrder(F, h, z, s, R)
  BY DEF SendOrder

\* Buffer b is what there was in buffer a, or a part of it.
Less(b, a) == \A i \in 1..Len(b) : b[i] = Junk \/ (i \in 1..Len(a) /\ b[i] = a[i])

\* One step of RecvSignalWithSocket, from x to y, that takes n of the bytes s: the
\* power; a part of the message; the size, or the end of the message; a failure.
ReadStep(F, x, y, s, n) ==
    \/ /\ x.at = "power" /\ y.at = "head" /\ y.pos = 0 /\ Less(y.Buffer, x.Buffer)
       /\ n = 1
    \/ /\ x.at \in {"head", "rest"} /\ y.at = x.at /\ y.pos = x.pos + n /\ y.total = x.total
       /\ n > 0
       /\ Len(y.Buffer) = Len(x.Buffer) /\ y.pos <= Len(x.Buffer)
       /\ \A i \in 1..Len(x.Buffer) :
             y.Buffer[i] = IF i \in (x.pos + 1)..(x.pos + n) THEN s[i - x.pos] ELSE x.Buffer[i]
    \/ /\ x.at \in {"head", "rest"} /\ y.at \in {"rest", "done"} /\ y.pos = x.pos /\ x.pos > 0
       /\ \A i \in 1..x.pos : y.Buffer[i] = x.Buffer[i]
       /\ Less(y.Buffer, x.Buffer) /\ y.total <= MTU
       /\ n = 0
    \/ /\ x.at \in {"power", "head", "rest"} /\ y.at = "failed" /\ y.Buffer = x.Buffer
       /\ InFrame(x) => x.pos < F[x.Buffer[1].frame].len
       /\ n = 0

\* Less is held in what is less.
LEMMA LessHeld ==
    ASSUME NEW x, NEW y, Less(y.Buffer, x.Buffer), InFrame(x) <=> InFrame(y), InFrame(x) => y.pos = x.pos
    PROVE  Held(y) \subseteq Held(x) /\ Stale(y) \subseteq Stale(x)
<1>1. \A i \in 1..Len(y.Buffer) : y.Buffer[i].frame = 0 \/ (i \in 1..Len(x.Buffer) /\ y.Buffer[i].frame = x.Buffer[i].frame)
  BY DEF Less, Junk
<1>. QED
  BY <1>1 DEF Held, Stale

\* What is whole in less was whole.
LEMMA LessWhole ==
    ASSUME NEW F, Sized(F), NEW a \in Seq(Cell), NEW b \in Seq(Cell), Less(b, a), NEW k \in DOMAIN F, IsWhole(F, b, k)
    PROVE  IsWhole(F, a, k)
<1>. USE WireAssumption
<1>1. F[k].len \in Nat /\ F[k].len > 0 /\ F[k].len <= Len(b) /\ Len(b) \in Nat /\ Len(a) \in Nat
  BY DEF Sized, IsWhole
<1>2. ASSUME NEW i \in 1..F[k].len PROVE i \in 1..Len(a) /\ a[i] = [frame |-> k, pos |-> i]
  <2>1. i \in 1..Len(b) /\ b[i] = [frame |-> k, pos |-> i]
    BY <1>1 DEF IsWhole
  <2>2. b[i].pos = i
    BY <2>1
  <2>3. b[i] # Junk
    BY <1>1, <2>2 DEF Junk
  <2>. QED
    BY <2>1, <2>3 DEF Less
<1>3. PICK n \in 1..F[k].len : n = F[k].len
  BY <1>1
<1>4. n \in 1..Len(a)
  BY <1>2, <1>3, Zenon
<1>5. F[k].len <= Len(a)
  BY <1>1, <1>3, <1>4
<1>. QED
  BY <1>2, <1>5 DEF IsWhole

\* A buffer has all of one frame at most.
LEMMA WholeFirst ==
    ASSUME NEW F, Sized(F), NEW b, NEW k \in DOMAIN F, IsWhole(F, b, k)
    PROVE  b[1].frame = k
<1>1. F[k].len \in Nat /\ F[k].len > 0
  BY WireAssumption DEF Sized
<1>2. 1 \in 1..F[k].len
  BY <1>1
<1>3. b[1] = [frame |-> k, pos |-> 1]
  BY <1>2 DEF IsWhole
<1>. QED
  BY <1>3

\* A frame that is not read to its end is not in the buffer: the bytes behind those
\* that were read are of other frames.
LEMMA ShortNotWhole ==
    ASSUME NEW F, Sized(F), NEW x \in Reading, InFrame(x), NEW k \in DOMAIN F, 0 \notin DOMAIN F,
           x.pos < F[x.Buffer[1].frame].len,
           \A j \in Stale(x) : Above(F, x.Buffer[1].frame, j),
           x.Buffer[1].frame \in Nat
    PROVE  ~IsWhole(F, x.Buffer, k)
<1>. SUFFICES ASSUME IsWhole(F, x.Buffer, k) PROVE FALSE
  OBVIOUS
<1>1. x.Buffer[1].frame = k
  BY WholeFirst
<1>2. x.pos \in Nat /\ Len(x.Buffer) \in Nat /\ F[k].len \in Nat /\ F[k].len <= Len(x.Buffer)
  BY ReadingType DEF Sized, IsWhole
<1>3. PICK i \in 1..Len(x.Buffer) : i = x.pos + 1 /\ i \in 1..F[k].len
  BY <1>1, <1>2
<1>4. x.Buffer[i] = [frame |-> k, pos |-> i]
  BY <1>3 DEF IsWhole
<1>5. x.Buffer[i].frame = k /\ i > x.pos /\ k # 0
  BY <1>2, <1>3, <1>4
<1>6. k \in Stale(x)
  BY <1>5 DEF Stale
<1>7. Above(F, k, k)
  BY <1>1, <1>6
<1>. QED
  BY <1>1, <1>7 DEF Above

\* The bytes that are read are taken from the stream.
LEMMA SomeRead ==
    ASSUME NEW F, NEW x \in Reading, NEW y \in Reading, NEW s \in Seq(Byte), NEW n \in 1..Len(s),
           x.at \in {"head", "rest"}, y.at = x.at, y.pos = x.pos + n,
           Len(y.Buffer) = Len(x.Buffer), y.pos <= Len(x.Buffer),
           \A i \in 1..Len(x.Buffer) :
              y.Buffer[i] = IF i \in (x.pos + 1)..(x.pos + n) THEN s[i - x.pos] ELSE x.Buffer[i]
    PROVE  /\ InFrame(y) /\ y.Buffer[y.pos] = s[n]
           /\ y.Buffer[1] = IF InFrame(x) THEN x.Buffer[1] ELSE s[1]
           /\ Stale(y) \subseteq Stale(x) /\ Held(y) \subseteq Held(x) \cup FramesOf(s)
<1>0. x.pos \in Nat /\ y.pos \in Nat /\ Len(x.Buffer) \in Nat /\ n \in Nat /\ n > 0
  BY ReadingType
<1>1. InFrame(y) /\ (InFrame(x) <=> x.pos > 0)
  BY <1>0 DEF InFrame
<1>2. y.Buffer[y.pos] = s[n]
  <2>1. y.pos \in 1..Len(x.Buffer) /\ y.pos \in (x.pos + 1)..(x.pos + n) /\ y.pos - x.pos = n
    BY <1>0
  <2>. QED
    BY <2>1
<1>3. y.Buffer[1] = IF InFrame(x) THEN x.Buffer[1] ELSE s[1]
  <2>1. 1 \in 1..Len(x.Buffer)
    BY <1>0
  <2>2. CASE x.pos = 0
    <3>1. 1 \in (x.pos + 1)..(x.pos + n) /\ 1 - x.pos = 1
      BY <1>0, <2>2
    <3>. QED
      BY <1>1, <2>1, <2>2, <3>1
  <2>3. CASE x.pos > 0
    <3>1. 1 \notin (x.pos + 1)..(x.pos + n)
      BY <1>0, <2>3
    <3>. QED
      BY <1>1, <2>1, <2>3, <3>1
  <2>. QED
    BY <1>0, <2>2, <2>3
<1>4. ASSUME NEW k \in Stale(y) PROVE k \in Stale(x)
  <2>1. PICK i \in 1..Len(y.Buffer) : i > y.pos /\ k = y.Buffer[i].frame /\ k # 0
    BY <1>1 DEF Stale
  <2>2. i \in 1..Len(x.Buffer) /\ i > x.pos /\ i \notin (x.pos + 1)..(x.pos + n)
    BY <1>0, <2>1
  <2>3. k = x.Buffer[i].frame
    BY <2>1, <2>2
  <2>. QED
    BY <2>1, <2>2, <2>3 DEF Stale
<1>5. ASSUME NEW k \in Held(y) PROVE k \in Held(x) \cup FramesOf(s)
  <2>1. PICK i \in 1..Len(x.Buffer) : k = y.Buffer[i].frame /\ k # 0
    BY DEF Held
  <2>2. CASE i \in (x.pos + 1)..(x.pos + n)
    <3>1. i - x.pos \in 1..Len(s) /\ y.Buffer[i] = s[i - x.pos]
      BY <1>0, <2>1, <2>2, SMTT(30)
    <3>. QED
      BY <2>1, <3>1 DEF FramesOf
  <2>3. CASE i \notin (x.pos + 1)..(x.pos + n)
    BY <2>1, <2>3 DEF Held
  <2>. QED
    BY <2>2, <2>3
<1>. QED
  BY <1>1, <1>2, <1>3, <1>4, <1>5

\* The bytes t are those of s without the first n, and in order.
Rest(F, s, n, t) ==
    /\ t \in Seq(Byte) /\ Picked(t, s) /\ Ordered(F, t) /\ FramesOf(t) \subseteq FramesOf(s)
    /\ \A i \in 1..Len(t) : \E j \in 1..Len(s) : t[i] = s[j]
    /\ n > 0 => \A j \in 1..Len(t) : Before(F, s[n], t[j])
    /\ n = 0 => t = s

\* What is left when n bytes were taken.
LEMMA DropOrdered ==
    ASSUME NEW F, NEW s \in Seq(Byte), Ordered(F, s), NEW n \in 0..Len(s), NEW t, t = Drop(s, n)
    PROVE  Rest(F, s, n, t)
<1>1. Len(s) \in Nat
  OBVIOUS
<1>2. t \in Seq(Byte) /\ Len(t) = Len(s) - n /\ \A i \in 1..(Len(s) - n) : t[i] = s[n + i]
  BY <1>1, Dropped
<1>3. Picked(t, s)
  BY <1>1, PickedDrop
<1>4. PICK d \in Seq(Byte) : d = t
  BY <1>2
<1>5. Picked(d, s)
  BY <1>3, <1>4
<1>6. /\ Ordered(F, d) /\ FramesOf(d) \subseteq FramesOf(s)
      /\ \A i \in 1..Len(d) : \E j \in 1..Len(s) : d[i] = s[j]
  BY <1>5, PickedOrdered
<1>7. ASSUME n > 0, NEW j \in 1..Len(t) PROVE Before(F, s[n], t[j])
  <2>1. n + j \in 1..Len(s) /\ n < n + j /\ t[j] = s[n + j] /\ n \in 1..Len(s)
    BY <1>1, <1>2, <1>7
  <2>. QED
    BY <2>1 DEF Ordered
<1>8. n = 0 => t = s
  BY DEF Drop
<1>. QED
  BY <1>2, <1>3, <1>4, <1>6, <1>7, <1>8 DEF Rest

\* A guest that reads keeps the order.
LEMMA GuestReadStep ==
    ASSUME NEW F, Sized(F), DOMAIN F \subseteq Nat \ {0}, NEW x \in Reading, NEW y \in Reading,
           Holds(F, x), NEW s \in Seq(Byte), NEW n \in 0..Len(s), ReadStep(F, x, y, s, n),
           NEW g, NEW G, GuestOrder(F, g, x, G, s, TRUE)
    PROVE  /\ GuestOrder(F, g, y, G, Drop(s, n), y.at # "failed")
           /\ Held(y) \cup FramesOf(Drop(s, n)) \subseteq Held(x) \cup FramesOf(s)
<1>0. PICK t : t = Drop(s, n)
  OBVIOUS
<1>2. /\ Ordered(F, s) /\ Held(x) \cup G \subseteq DOMAIN F
      /\ \A j \in 1..Len(s) : F[s[j].frame].from # g
      /\ InFrame(x) =>
            /\ F[x.Buffer[1].frame].from # g
            /\ \A k \in Stale(x) \cup G : Above(F, x.Buffer[1].frame, k)
            /\ \A j \in 1..Len(s) : Before(F, x.Buffer[x.pos], s[j])
      /\ \A j \in 1..Len(s) : \A k \in Stale(x) \cup G : Above(F, s[j].frame, k)
      /\ ~InFrame(x) => \A k \in DOMAIN F : IsWhole(F, x.Buffer, k) => k \in G
  BY DEF GuestOrder
<1>1. Rest(F, s, n, t)
  <2>1. Ordered(F, s)
    BY <1>2
  <2>. QED
    BY <1>0, <2>1, DropOrdered
<1>3. /\ t \in Seq(Byte) /\ Picked(t, s) /\ Ordered(F, t) /\ FramesOf(t) \subseteq FramesOf(s)
      /\ \A i \in 1..Len(t) : \E j \in 1..Len(s) : t[i] = s[j]
      /\ n > 0 => \A j \in 1..Len(t) : Before(F, s[n], t[j])
      /\ n = 0 => t = s
  BY <1>1 DEF Rest
<1>4. CASE /\ x.at = "power" /\ y.at = "head" /\ y.pos = 0 /\ Less(y.Buffer, x.Buffer)
           /\ n = 1
  <2>1. ~InFrame(x) /\ ~InFrame(y) /\ n > 0
    BY <1>4 DEF InFrame
  <2>2. Held(y) \subseteq Held(x) /\ Stale(y) \subseteq Stale(x)
    BY <1>4, <2>1, LessHeld
  <2>3. \A k \in DOMAIN F : IsWhole(F, y.Buffer, k) => IsWhole(F, x.Buffer, k)
    <3>1. PICK a \in Seq(Cell), b \in Seq(Cell) : a = x.Buffer /\ b = y.Buffer
      BY ReadingType
    <3>2. Less(b, a)
      BY <1>4, <3>1
    <3>3. \A k \in DOMAIN F : IsWhole(F, b, k) => IsWhole(F, a, k)
      BY <3>2, LessWhole
    <3>. QED
      BY <3>1, <3>3
  <2>4. GuestOrder(F, g, y, G, t, y.at # "failed")
    BY <1>2, <1>3, <2>1, <2>2, <2>3 DEF GuestOrder
  <2>. QED
    BY <1>0, <1>3, <2>1, <2>2, <2>4
<1>5. CASE /\ x.at \in {"head", "rest"} /\ y.at = x.at /\ y.pos = x.pos + n /\ y.total = x.total
           /\ n > 0
           /\ Len(y.Buffer) = Len(x.Buffer) /\ y.pos <= Len(x.Buffer)
           /\ \A i \in 1..Len(x.Buffer) :
                 y.Buffer[i] = IF i \in (x.pos + 1)..(x.pos + n) THEN s[i - x.pos] ELSE x.Buffer[i]
  <2>0. n \in 1..Len(s) /\ 1 \in 1..Len(s)
    BY <1>5
  <2>1. /\ InFrame(y) /\ y.Buffer[y.pos] = s[n]
        /\ y.Buffer[1] = IF InFrame(x) THEN x.Buffer[1] ELSE s[1]
        /\ Stale(y) \subseteq Stale(x) /\ Held(y) \subseteq Held(x) \cup FramesOf(s)
    BY <1>5, <2>0, SomeRead
  <2>2. FramesOf(s) \subseteq DOMAIN F
    BY <1>2 DEF Ordered, Valid, FramesOf
  <2>3. GuestOrder(F, g, y, G, t, y.at # "failed")
    BY <1>2, <1>3, <1>5, <2>0, <2>1, <2>2, ZenonT(40) DEF GuestOrder
  <2>. QED
    BY <1>0, <1>3, <1>5, <2>1, <2>3
<1>6. CASE /\ x.at \in {"head", "rest"} /\ y.at \in {"rest", "done"} /\ y.pos = x.pos /\ x.pos > 0
           /\ \A i \in 1..x.pos : y.Buffer[i] = x.Buffer[i]
           /\ Less(y.Buffer, x.Buffer) /\ y.total <= MTU
           /\ n = 0
  <2>1. InFrame(x) /\ InFrame(y)
    BY <1>6 DEF InFrame
  <2>2. Held(y) \subseteq Held(x) /\ Stale(y) \subseteq Stale(x)
    BY <1>6, <2>1, LessHeld
  <2>3. y.Buffer[1] = x.Buffer[1] /\ y.Buffer[y.pos] = x.Buffer[x.pos]
    BY <1>6, ReadingType
  <2>4. GuestOrder(F, g, y, G, s, y.at # "failed")
    BY <1>2, <2>1, <2>2, <2>3 DEF GuestOrder
  <2>. QED
    BY <1>0, <1>3, <1>6, <2>2, <2>4
<1>7. CASE /\ x.at \in {"power", "head", "rest"} /\ y.at = "failed" /\ y.Buffer = x.Buffer
           /\ InFrame(x) => x.pos < F[x.Buffer[1].frame].len
           /\ n = 0
  <2>1. ~InFrame(y) /\ Held(y) = Held(x)
    BY <1>7 DEF InFrame, Held
  <2>2. ASSUME NEW k \in DOMAIN F, IsWhole(F, y.Buffer, k) PROVE k \in G
    <3>1. CASE InFrame(x)
      <4>1. x.Buffer[1].frame \in DOMAIN F
        BY <1>7, <3>1 DEF Holds, InFrame
      <4>2. \A j \in Stale(x) : Above(F, x.Buffer[1].frame, j)
        BY <1>2, <3>1
      <4>3. ~IsWhole(F, x.Buffer, k)
        BY <1>7, <3>1, <4>1, <4>2, ShortNotWhole
      <4>. QED
        BY <1>7, <2>2, <4>3
    <3>2. CASE ~InFrame(x)
      BY <1>2, <1>7, <2>2, <3>2
    <3>. QED
      BY <3>1, <3>2
  <2>3. GuestOrder(F, g, y, G, s, y.at # "failed")
    BY <1>2, <1>7, <2>1, <2>2 DEF GuestOrder
  <2>. QED
    BY <1>0, <1>3, <1>7, <2>1, <2>3
<1>. QED
  BY <1>4, <1>5, <1>6, <1>7 DEF ReadStep

\* The server, that reads what guest h sends.
LEMMA SendReadStep ==
    ASSUME NEW F, NEW x \in Reading, NEW y \in Reading,
           NEW s \in Seq(Byte), NEW n \in 0..Len(s), ReadStep(F, x, y, s, n),
           NEW h, NEW R, SendOrder(F, h, x, s, R)
    PROVE  /\ SendOrder(F, h, y, Drop(s, n), R)
           /\ InFrame(y) =>
                 \/ InFrame(x) /\ y.Buffer[1] = x.Buffer[1]
                 \/ \E j \in 1..Len(s) : y.Buffer[1] = s[j]
<1>0. PICK t : t = Drop(s, n)
  OBVIOUS
<1>2. /\ Ordered(F, s)
      /\ \A j \in 1..Len(s) : F[s[j].frame].from = h /\ \A k \in R : Above(F, s[j].frame, k)
      /\ InFrame(x) =>
            /\ F[x.Buffer[1].frame].from = h
            /\ \A j \in 1..Len(s) : Before(F, x.Buffer[x.pos], s[j])
  BY DEF SendOrder
<1>1. Rest(F, s, n, t)
  <2>1. Ordered(F, s)
    BY <1>2
  <2>. QED
    BY <1>0, <2>1, DropOrdered
<1>3. /\ t \in Seq(Byte) /\ Picked(t, s) /\ Ordered(F, t) /\ FramesOf(t) \subseteq FramesOf(s)
      /\ \A i \in 1..Len(t) : \E j \in 1..Len(s) : t[i] = s[j]
      /\ n > 0 => \A j \in 1..Len(t) : Before(F, s[n], t[j])
      /\ n = 0 => t = s
  BY <1>1 DEF Rest
<1>4. CASE x.at = "power" /\ y.at = "head" /\ y.pos = 0 /\ n = 1
  <2>1. ~InFrame(y) /\ n > 0
    BY <1>4 DEF InFrame
  <2>2. SendOrder(F, h, y, t, R)
    BY <1>2, <1>3, <2>1 DEF SendOrder
  <2>. QED
    BY <1>0, <2>1, <2>2
<1>5. CASE /\ x.at \in {"head", "rest"} /\ y.at = x.at /\ y.pos = x.pos + n /\ y.total = x.total
           /\ n > 0
           /\ Len(y.Buffer) = Len(x.Buffer) /\ y.pos <= Len(x.Buffer)
           /\ \A i \in 1..Len(x.Buffer) :
                 y.Buffer[i] = IF i \in (x.pos + 1)..(x.pos + n) THEN s[i - x.pos] ELSE x.Buffer[i]
  <2>0. n \in 1..Len(s) /\ 1 \in 1..Len(s)
    BY <1>5
  <2>1. /\ InFrame(y) /\ y.Buffer[y.pos] = s[n]
        /\ y.Buffer[1] = IF InFrame(x) THEN x.Buffer[1] ELSE s[1]
    BY <1>5, <2>0, SomeRead
  <2>2. SendOrder(F, h, y, t, R)
    BY <1>2, <1>3, <2>0, <2>1 DEF SendOrder
  <2>. QED
    BY <1>0, <2>0, <2>1, <2>2
<1>6. CASE /\ x.at \in {"head", "rest"} /\ y.pos = x.pos /\ x.pos > 0
           /\ \A i \in 1..x.pos : y.Buffer[i] = x.Buffer[i]
           /\ n = 0
  <2>1. InFrame(x)
    BY <1>6 DEF InFrame
  <2>2. y.Buffer[1] = x.Buffer[1] /\ y.Buffer[y.pos] = x.Buffer[x.pos]
    BY <1>6, ReadingType
  <2>3. SendOrder(F, h, y, s, R)
    BY <1>2, <2>1, <2>2 DEF SendOrder
  <2>. QED
    BY <1>0, <1>3, <1>6, <2>1, <2>2, <2>3
<1>7. CASE y.at = "failed" /\ n = 0
  <2>1. ~InFrame(y)
    BY <1>7 DEF InFrame
  <2>2. SendOrder(F, h, y, s, R)
    BY <1>2, <2>1 DEF SendOrder
  <2>. QED
    BY <1>0, <1>3, <1>7, <2>1, <2>2
<1>. QED
  BY <1>4, <1>5, <1>6, <1>7 DEF ReadStep

\* What is accepted is not longer than the MTU.
Short(x) == x.at \in {"rest", "done", "send"} => x.total <= MTU

\* Reader r goes on to y with n of the bytes in its connection, which t follows.
Took(r, t, y, n) ==
    /\ rd' = [rd EXCEPT ![r] = y] /\ ReadStep(frames, rd[r], y, In(r) \o t, n)
    /\ In(r)' \o t = Drop(In(r) \o t, n) /\ n \in 0..Len(In(r) \o t)

\* NeededSize leaves what there was, or a part of it.
LEMMA NeededSizeLess ==
    ASSUME NEW b \in Seq(Cell), NEW size \in Nat, NEW keep \in BOOLEAN
    PROVE  Less(NeededSize(b, size, keep), b)
<1>1. CASE size <= Len(b)
  BY <1>1 DEF NeededSize, Less
<1>2. CASE ~(size <= Len(b))
  <2>1. PICK a : a = Allocate(b, size, keep)
    OBVIOUS
  <2>2. Len(a) = size /\ Len(b) \in Nat
    <3>1. a \in [1..size -> Cell]
      BY <2>1 DEF Allocate, Cell
    <3>. QED
      BY <3>1, FunctionIsSeq
  <2>3. ASSUME NEW i \in 1..Len(a) PROVE a[i] = Junk \/ (i \in 1..Len(b) /\ a[i] = b[i])
    <3>1. i \in 1..size /\ i \in Nat /\ i >= 1
      BY <2>2
    <3>2. a[i] = IF keep /\ i <= Len(b) THEN b[i] ELSE Junk
      BY <2>1, <3>1 DEF Allocate
    <3>. QED
      BY <2>2, <3>1, <3>2
  <2>4. Less(a, b)
    BY <2>3 DEF Less
  <2>. QED
    BY <1>2, <2>1, <2>4 DEF NeededSize
<1>. QED
  BY <1>1, <1>2

\* The cells of a buffer after recv().
LEMMA FilledCells ==
    ASSUME NEW b \in Seq(Cell), NEW pos \in Nat, NEW bytes \in Seq(Byte), NEW i \in 1..Len(b)
    PROVE  Filled(b, pos, bytes)[i] = IF i \in (pos + 1)..(pos + Len(bytes)) THEN bytes[i - pos] ELSE b[i]
<1>1. Len(bytes) \in Nat /\ Len(b) \in Nat /\ i \in Nat
  OBVIOUS
<1>2. i - pos \in 1..Len(bytes) <=> i \in (pos + 1)..(pos + Len(bytes))
  BY <1>1
<1>3. Filled(b, pos, bytes)[i] = IF i - pos \in 1..Len(bytes) THEN bytes[i - pos] ELSE b[i]
  BY DEF Filled
<1>. QED
  BY <1>2, <1>3

\* Every step of RecvSignalWithSocket is such a step.
LEMMA RecvTook ==
    ASSUME WireInv, NEW r \in Reader, RecvSignal(r), Holds(frames, rd[r]), Short(rd[r]),
           NEW t \in Seq(Byte)
    PROVE  given' = given /\ \E y \in Reading, n \in Nat : Took(r, t, y, n) /\ Short(y)
<1>. USE WireAssumption
<1>0. WireTypeOK /\ rd \in [Reader -> Reading] /\ Sized(frames) /\ In(r) \in Seq(Byte)
  BY InType, FramesSized DEF WireInv, WireTypeOK
<1>a. PICK x \in Reading : x = rd[r]
  BY <1>0
<1>b. BufferOK(x) /\ Holds(frames, x) /\ Short(x)
  BY <1>a DEF WireInv, BuffersOK
<1>c. PICK s \in Seq(Byte) : s = In(r) \o t /\ Len(s) = Len(In(r)) + Len(t)
  BY <1>0, Joined
<1>d. given' = given
  BY DEF RecvSignal, ReadPower, ReadSome, ReadHeader, ReadDone, ReadFails
<1>e. ASSUME NEW n \in 1..Len(In(r)), Takes(r, n), src' = src
      PROVE  /\ n \in 1..Len(s) /\ Drop(s, n) = In(r)' \o t
             /\ \A i \in 1..n : SubSeq(In(r), 1, n)[i] = s[i]
  <2>1. In(r)' = Drop(In(r), n)
    BY <1>0, <1>e, TakesIn
  <2>2. PICK a \in Seq(Byte) : a = In(r)
    BY <1>0
  <2>3. n \in 0..Len(a)
    BY <1>e, <2>2
  <2>4. Drop(a \o t, n) = Drop(a, n) \o t /\ \A i \in 1..n : SubSeq(a, 1, n)[i] = (a \o t)[i]
    BY <2>3, DropJoined
  <2>5. n \in 1..Len(s)
    BY <1>0, <1>c, <1>e
  <2>. QED
    BY <1>c, <2>1, <2>2, <2>4, <2>5, Zenon
<1>f. ASSUME UNCHANGED <<up, down, src>> PROVE In(r)' \o t = Drop(s, 0) /\ 0 \in 0..Len(s)
  <2>1. In(r)' \o t = s
    BY <1>c, <1>f, Zenon DEF In
  <2>2. Drop(s, 0) = s
    BY DEF Drop
  <2>. QED
    BY <2>1, <2>2
<1>1. CASE ReadPower(r)
  <2>1. PICK b : b = NeededSize(x.Buffer, HeaderSize, FALSE)
    OBVIOUS
  <2>2. PICK y \in Reading :
              /\ y = [at |-> "head", pos |-> 0, total |-> x.total, Buffer |-> b]
              /\ y.at = "head" /\ y.pos = 0
    BY <1>b, <2>1, PowerFits
  <2>3. rd' = [rd EXCEPT ![r] = y] /\ x.at = "power"
    BY <1>1, <1>a, <2>1, <2>2, Zenon DEF ReadPower
  <2>4. y.Buffer = b
    BY <2>2
  <2>5. Less(b, x.Buffer)
    <3>1. PICK c \in Seq(Cell) : c = x.Buffer
      BY ReadingType
    <3>2. PICK keep \in BOOLEAN : keep = FALSE
      OBVIOUS
    <3>3. Less(NeededSize(c, HeaderSize, keep), c)
      BY NeededSizeLess
    <3>. QED
      BY <2>1, <3>1, <3>2, <3>3
  <2>6. 1 \in 1..Len(In(r))
    BY <1>0, <1>1 DEF ReadPower
  <2>7. 1 \in 1..Len(s) /\ Drop(s, 1) = In(r)' \o t
    BY <1>1, <1>e, <2>6 DEF ReadPower, server
  <2>8. ReadStep(frames, x, y, s, 1)
    BY <2>2, <2>3, <2>4, <2>5 DEF ReadStep
  <2>9. 1 \in 0..Len(s)
    BY <2>7
  <2>10. Took(r, t, y, 1) /\ Short(y)
    BY <1>a, <1>c, <2>2, <2>3, <2>7, <2>8, <2>9 DEF Took, Short
  <2>. QED
    BY <1>d, <2>10
<1>2. ASSUME NEW n \in 1..Len(In(r)), ReadSome(r, n)
      PROVE  \E y \in Reading, m \in Nat : Took(r, t, y, m) /\ Short(y)
  <2>0. n \in 0..Len(In(r))
    BY <1>0, <1>2
  <2>1. PICK bytes \in Seq(Byte) : bytes = SubSeq(In(r), 1, n) /\ Len(bytes) = n
    BY <1>0, <2>0, Dropped, ZenonT(40)
  <2>2. \/ x.at = "head" /\ Len(bytes) <= HeaderSize - x.pos
        \/ x.at = "rest" /\ Len(bytes) <= x.total - x.pos
    BY <1>2, <1>a, <2>1 DEF ReadSome, SizeToRead
  <2>3. PICK y \in Reading :
              /\ y = [at |-> x.at, pos |-> x.pos + Len(bytes), total |-> x.total,
                      Buffer |-> Filled(x.Buffer, x.pos, bytes)]
              /\ y.at = x.at /\ y.total = x.total /\ y.pos = x.pos + Len(bytes)
              /\ Len(y.Buffer) = Len(x.Buffer) /\ BufferOK(y)
    BY <1>b, <2>2, SomeFits
  <2>4. rd' = [rd EXCEPT ![r] = y]
    BY <1>2, <1>a, <2>1, <2>3, Zenon DEF ReadSome
  <2>5. n \in 1..Len(s) /\ Drop(s, n) = In(r)' \o t /\ \A i \in 1..n : bytes[i] = s[i]
    BY <1>2, <1>e, <2>1 DEF ReadSome, server
  <2>6. x.pos \in Nat /\ n \in Nat /\ n > 0 /\ y.pos = x.pos + n /\ y.pos <= Len(x.Buffer)
    <3>1. n \in Nat /\ n > 0
      BY <2>5
    <3>2. y.pos <= Len(y.Buffer)
      BY <2>3 DEF BufferOK
    <3>. QED
      BY <2>1, <2>3, <3>1, <3>2, ReadingType
  <2>7. ASSUME NEW i \in 1..Len(x.Buffer)
        PROVE  y.Buffer[i] = IF i \in (x.pos + 1)..(x.pos + n) THEN s[i - x.pos] ELSE x.Buffer[i]
    <3>1. PICK c \in Seq(Cell), q \in Nat : c = x.Buffer /\ q = x.pos
      BY ReadingType
    <3>0. i \in 1..Len(c)
      BY <3>1
    <3>2. Filled(c, q, bytes)[i] = IF i \in (q + 1)..(q + Len(bytes)) THEN bytes[i - q] ELSE c[i]
      BY <3>0, FilledCells, SMTT(40)
    <3>3. y.Buffer = Filled(c, q, bytes)
      BY <2>3, <3>1
    <3>4. i \in (x.pos + 1)..(x.pos + n) => i - x.pos \in 1..n
      BY <2>6
    <3>. QED
      BY <2>1, <2>5, <3>1, <3>2, <3>3, <3>4
  <2>8. x.at \in {"head", "rest"}
    BY <2>2
  <2>9. ReadStep(frames, x, y, s, n)
    BY <2>3, <2>6, <2>7, <2>8 DEF ReadStep
  <2>10. n \in 0..Len(s)
    BY <2>5
  <2>11. Took(r, t, y, n) /\ Short(y)
    BY <1>a, <1>b, <1>c, <2>3, <2>4, <2>5, <2>9, <2>10 DEF Took, Short
  <2>. QED
    BY <2>6, <2>11
<1>3. CASE ReadHeader(r)
  <2>1. PICK len \in NlmsgLen(x.Buffer) :
           rd' = [rd EXCEPT ![r] =
                    IF len > MTU
                    THEN [x EXCEPT !.at = "failed"]
                    ELSE [at |-> "rest", pos |-> x.pos, total |-> len,
                          Buffer |-> NeededSize(x.Buffer, len, TRUE)]]
    BY <1>3, <1>a, Zenon DEF ReadHeader
  <2>2. x.at = "head" /\ x.pos = HeaderSize /\ x.pos > 0 /\ UNCHANGED <<up, down, src>>
    BY <1>3, <1>a DEF ReadHeader, server
  <2>3. len = frames[x.Buffer[1].frame].len
    BY <1>0, <1>b, <2>2, HeaderLen
  <2>4. x.Buffer[1].frame \in DOMAIN frames /\ len \in Nat /\ HeaderSize <= len
    BY <1>0, <1>b, <2>2, <2>3 DEF Holds, Sized
  <2>5. CASE len > MTU
    <3>1. PICK y : y = [x EXCEPT !.at = "failed"]
      OBVIOUS
    <3>2. y \in Reading /\ y.at = "failed" /\ y.Buffer = x.Buffer
      BY <3>1, NewStage DEF Stage
    <3>3. rd' = [rd EXCEPT ![r] = y]
      BY <2>1, <2>5, <3>1, Zenon
    <3>4. x.pos < frames[x.Buffer[1].frame].len
      BY <2>2, <2>3, <2>4, <2>5
    <3>5. ReadStep(frames, x, y, s, 0)
      BY <2>2, <3>2, <3>4 DEF ReadStep
    <3>6. Took(r, t, y, 0) /\ Short(y)
      BY <1>a, <1>c, <1>f, <2>2, <3>2, <3>3, <3>5 DEF Took, Short
    <3>. QED
      BY <1>d, <3>2, <3>6
  <2>6. CASE ~(len > MTU)
    <3>1. len <= MTU
      BY <2>4, <2>6
    <3>2. PICK b : b = NeededSize(x.Buffer, len, TRUE)
      OBVIOUS
    <3>3. PICK y \in Reading :
              /\ y = [at |-> "rest", pos |-> x.pos, total |-> len, Buffer |-> b]
              /\ y.at = "rest" /\ y.total = len /\ y.pos = x.pos
              /\ \A i \in 1..x.pos : y.Buffer[i] = x.Buffer[i]
      BY <1>b, <2>2, <2>4, <3>1, <3>2, HeaderFits, ZenonT(40)
    <3>4. rd' = [rd EXCEPT ![r] = y]
      BY <2>1, <2>6, <3>2, <3>3, Zenon
    <3>5. y.Buffer = b
      BY <3>3
    <3>6. Less(b, x.Buffer)
      <4>1. PICK c \in Seq(Cell) : c = x.Buffer
        BY ReadingType
      <4>2. PICK keep \in BOOLEAN : keep = TRUE
        OBVIOUS
      <4>3. Less(NeededSize(c, len, keep), c)
        BY <2>4, NeededSizeLess
      <4>. QED
        BY <3>2, <4>1, <4>2, <4>3
    <3>7. ReadStep(frames, x, y, s, 0)
      BY <2>2, <3>1, <3>3, <3>5, <3>6 DEF ReadStep
    <3>8. Took(r, t, y, 0) /\ Short(y)
      BY <1>a, <1>c, <1>f, <2>2, <3>1, <3>3, <3>4, <3>7 DEF Took, Short
    <3>. QED
      BY <1>d, <3>8
  <2>. QED
    BY <2>5, <2>6
<1>4. CASE ReadDone(r)
  <2>1. PICK y : y = [x EXCEPT !.at = "done"]
    OBVIOUS
  <2>2. y \in Reading /\ y.at = "done" /\ y.pos = x.pos /\ y.total = x.total /\ y.Buffer = x.Buffer
    BY <2>1, NewStage DEF Stage
  <2>3. rd' = [rd EXCEPT ![r] = y]
    BY <1>4, <1>a, <2>1, Zenon DEF ReadDone
  <2>4. x.at = "rest" /\ UNCHANGED <<up, down, src>>
    BY <1>4, <1>a DEF ReadDone, server
  <2>5. x.pos \in Nat /\ x.pos > 0 /\ x.total <= MTU
    BY <1>b, <2>4, ReadingType DEF BufferOK, Short
  <2>6. Less(y.Buffer, x.Buffer)
    BY <2>2 DEF Less
  <2>7. ReadStep(frames, x, y, s, 0)
    BY <2>2, <2>4, <2>5, <2>6 DEF ReadStep
  <2>8. Took(r, t, y, 0) /\ Short(y)
    BY <1>a, <1>c, <1>f, <2>2, <2>3, <2>4, <2>5, <2>7 DEF Took, Short
  <2>. QED
    BY <1>d, <2>2, <2>8
<1>5. CASE ReadFails(r)
  <2>1. PICK y : y = [x EXCEPT !.at = "failed"]
    OBVIOUS
  <2>2. y \in Reading /\ y.at = "failed" /\ y.Buffer = x.Buffer
    BY <2>1, NewStage DEF Stage
  <2>3. rd' = [rd EXCEPT ![r] = y] /\ UNCHANGED <<up, down, src>>
    BY <1>5, <1>a, <2>1, Zenon DEF ReadFails, server
  <2>4. x.at = "power" \/ (x.at = "head" /\ x.pos < HeaderSize) \/ (x.at = "rest" /\ x.pos < x.total)
    BY <1>5, <1>a DEF ReadFails, SizeToRead
  <2>5. ASSUME InFrame(x) PROVE x.pos < frames[x.Buffer[1].frame].len
    <3>1. x.at \in {"head", "rest"} /\ x.pos > 0 /\ x.pos \in Nat
      BY <2>4, <2>5, ReadingType DEF InFrame
    <3>. QED
      BY <1>0, <1>b, <2>4, <3>1 DEF Holds, Sized
  <2>6. ReadStep(frames, x, y, s, 0)
    BY <2>2, <2>4, <2>5 DEF ReadStep
  <2>7. Took(r, t, y, 0) /\ Short(y)
    BY <1>a, <1>c, <1>f, <2>2, <2>3, <2>6 DEF Took, Short
  <2>. QED
    BY <1>d, <2>2, <2>7
<1>. QED
  BY <1>d, <1>1, <1>2, <1>3, <1>4, <1>5 DEF RecvSignal

\* The frames that have come as far as the connection of guest g.
Reached(g) == Held(rd[g]) \cup Got[g] \cup FramesOf(Downstream(g))

Everything == UNION {Reached(g) : g \in Guests}

GuestOK(g) == GuestOrder(frames, g, rd[g], Got[g], Downstream(g), Serving(g))

SendOK(h) == SendOrder(frames, h, UpReader(h), Upstream(h), Everything)

\* The frame that the server handles has not yet come to those it is to be sent to.
ServerOrder ==
    InFrame(rd[Server]) =>
        \A g \in Guests : g # src /\ (ServerAt("send") => g \in to) =>
            \A k \in Reached(g) : Above(frames, rd[Server].Buffer[1].frame, k)

\* A read that failed has given nothing that was not given before.
GivenOK == \A g \in Guests : \A x \in given[g] : ~x.read /\ x.frame # 0 => x.frame \in Got[g]

\* The inductive invariant of the order.
OrderInv ==
    /\ \A g \in Guests : GuestOK(g) /\ SendOK(g)
    /\ ServerOrder
    /\ \A r \in Reader : Short(rd[r])
    /\ GivenOK

\* The server is in no frame, or still in the one it was in, and sends it to no others.
ServerGoesOn ==
    InFrame(rd'[Server]) =>
        /\ InFrame(rd[Server]) /\ src' = src
        /\ rd'[Server].pos = rd[Server].pos /\ rd'[Server].Buffer = rd[Server].Buffer
        /\ \A g \in Guests \ {src} :
              (rd'[Server].at = "send" => g \in to') => (rd[Server].at = "send" => g \in to)

\* The streams are bytes after every step.
LEMMA NextStreamType ==
    ASSUME WireTypeOK', NEW g \in Guests
    PROVE  Upstream(g)' \in Seq(Byte) /\ Downstream(g)' \in Seq(Byte)
<1>1. up'[g] \in Seq(Byte) /\ out'[g] \in Seq(Byte) /\ down'[g] \in Seq(Byte) /\ sending' \in Seq(Byte)
  BY DEF WireTypeOK
<1>2. PICK t \in Seq(Byte) : t = IF dst' = g THEN sending' ELSE <<>>
  BY <1>1, EmptySeq, Zenon
<1>3. up'[g] \o out'[g] \in Seq(Byte) /\ down'[g] \o t \in Seq(Byte)
  BY <1>1, Joined
<1>. QED
  BY <1>2, <1>3, Zenon DEF Upstream, Downstream

\* What the guests have read changes only with what they were given.
LEMMA GotSame ==
    ASSUME given' = given
    PROVE  Got' = Got /\ (GivenOK => GivenOK')
<1>1. Got' = Got
  BY Zenon DEF Got
<1>. QED
  BY <1>1, Zenon DEF GivenOK

\* A guest that reads nothing: some of what is sent to it may be lost.
LEMMA GuestKept ==
    ASSUME WireTypeOK, WireTypeOK', NEW g \in Guests, GuestOK(g), frames' = frames, rd'[g] = rd[g],
           Got'[g] = Got[g], Picked(Downstream(g)', Downstream(g)), connected'[g] => connected[g]
    PROVE  GuestOK(g)' /\ Reached(g)' \subseteq Reached(g)
<1>1. PICK s \in Seq(Byte), t \in Seq(Byte) : s = Downstream(g) /\ t = Downstream(g)'
  BY StreamType, NextStreamType
<1>2. Picked(t, s) /\ (Serving(g)' => Serving(g))
  BY <1>1 DEF Serving
<1>3. GuestOrder(frames, g, rd[g], Got[g], s, Serving(g))
  BY <1>1 DEF GuestOK
<1>4. GuestOrder(frames, g, rd[g], Got[g], t, Serving(g)')
  BY <1>2, <1>3, GuestPicked
<1>5. FramesOf(t) \subseteq FramesOf(s)
  BY <1>2, <1>3, PickedOrdered DEF GuestOrder
<1>6. Reached(g)' \subseteq Reached(g)
  BY <1>1, <1>5, Zenon DEF Reached
<1>. QED
  BY <1>1, <1>4, <1>6, Zenon DEF GuestOK

\* Nothing comes further than it was.
LEMMA ReachedLess ==
    ASSUME \A g \in Guests : Reached(g)' \subseteq Reached(g)
    PROVE  Everything' \subseteq Everything
  BY Zenon DEF Everything

\* A step in which nothing comes further.
LEMMA OrderStep ==
    ASSUME OrderInv, WireTypeOK, WireTypeOK', frames' = frames, ServerGoesOn,
           \A g \in Guests : GuestOK(g)' /\ Reached(g)' \subseteq Reached(g),
           \A h \in Guests : Picked(Upstream(h)', Upstream(h)),
           \A r \in Reader : Short(rd'[r]), GivenOK'
    PROVE  OrderInv'
<1>1. Everything' \subseteq Everything
  BY ReachedLess
<1>2. ASSUME NEW h \in Guests PROVE SendOK(h)'
  <2>1. PICK s \in Seq(Byte), t \in Seq(Byte) : s = Upstream(h) /\ t = Upstream(h)'
    BY StreamType, NextStreamType
  <2>2. SendOrder(frames, h, UpReader(h), s, Everything)
    BY <2>1 DEF OrderInv, SendOK
  <2>3. PICK z : z = UpReader(h)'
    OBVIOUS
  <2>4. Picked(t, s)
    BY <2>1
  <2>5. SendOrder(frames, h, UpReader(h), t, Everything')
    BY <1>1, <2>2, <2>4, SendPicked
  <2>6. InFrame(z) => InFrame(UpReader(h)) /\ z.pos = UpReader(h).pos /\ z.Buffer = UpReader(h).Buffer
    <3>1. CASE src' = h
      <4>1. z = rd'[Server]
        BY <2>3, <3>1 DEF UpReader
      <4>2. InFrame(z) => UpReader(h) = rd[Server]
        BY <3>1, <4>1 DEF UpReader, ServerGoesOn
      <4>. QED
        BY <4>1, <4>2 DEF ServerGoesOn
    <3>2. CASE src' # h
      <4>1. z = NewReader
        BY <2>3, <3>2 DEF UpReader
      <4>. QED
        BY <4>1 DEF InFrame, NewReader
    <3>. QED
      BY <3>1, <3>2
  <2>7. SendOrder(frames, h, z, t, Everything')
    BY <2>5, <2>6, SendStage
  <2>. QED
    BY <2>1, <2>3, <2>7, Zenon DEF SendOK
<1>3. ServerOrder'
  BY DEF ServerOrder, OrderInv, ServerGoesOn, ServerAt
<1>. QED
  BY <1>2, <1>3, Zenon DEF OrderInv

\* What a guest sends is what it was, or has lost its beginning or its end.
LEMMA UpPicked ==
    ASSUME WireTypeOK, NEW h \in Guests,
           \/ up'[h] = up[h] /\ out'[h] = out[h]
           \/ up'[h] = <<>> /\ out'[h] = out[h]
           \/ up'[h] = up[h] /\ out'[h] = <<>>
           \/ up'[h] = <<>> /\ out'[h] = <<>>
    PROVE  Picked(Upstream(h)', Upstream(h))
<1>1. PICK a \in Seq(Byte), b \in Seq(Byte) : a = up[h] /\ b = out[h]
  BY StreamType
<1>2. a \o b \in Seq(Byte) /\ a \o <<>> = a /\ <<>> \o b = b /\ <<>> \o <<>> = <<>>
  BY Joined, WithNothing, EmptySeq
<1>3. Upstream(h) = a \o b
  BY <1>1 DEF Upstream
<1>4. Picked(a \o b, a \o b) /\ Picked(<<>>, a \o b) /\ Picked(a, a \o b) /\ Picked(b, a \o b)
  BY <1>2, PickedSame, PickedNothing, PickedPart
<1>5. Upstream(h)' \in {a \o b, <<>>, a, b}
  BY <1>1, <1>2, Zenon DEF Upstream
<1>. QED
  BY <1>3, <1>4, <1>5, Zenon

\* The same for what is sent to a guest, when no byte is added to it.
LEMMA DownPicked ==
    ASSUME WireTypeOK, NEW g \in Guests,
           \/ down'[g] = down[g] /\ dst' = dst /\ sending' = sending
           \/ down'[g] = down[g] /\ (dst' # g \/ sending' = <<>>)
           \/ down'[g] = <<>> /\ (dst' # g \/ sending' = <<>>)
           \/ down'[g] = <<>> /\ dst' = dst /\ sending' = sending
    PROVE  Picked(Downstream(g)', Downstream(g))
<1>1. PICK a \in Seq(Byte), b \in Seq(Byte) : a = down[g] /\ b = IF dst = g THEN sending ELSE <<>>
  BY StreamType, EmptySeq, Zenon
<1>2. a \o b \in Seq(Byte) /\ a \o <<>> = a /\ <<>> \o b = b /\ <<>> \o <<>> = <<>>
  BY Joined, WithNothing, EmptySeq
<1>3. Downstream(g) = a \o b
  BY <1>1 DEF Downstream
<1>4. Picked(a \o b, a \o b) /\ Picked(<<>>, a \o b) /\ Picked(a, a \o b) /\ Picked(b, a \o b)
  BY <1>2, PickedSame, PickedNothing, PickedPart
<1>5. Downstream(g)' \in {a \o b, <<>>, a, b}
  BY <1>1, <1>2, Zenon DEF Downstream
<1>. QED
  BY <1>3, <1>4, <1>5, Zenon

\* A step in which no guest reads.
LEMMA ServerSideStep ==
    ASSUME OrderInv, WireTypeOK, WireTypeOK', UNCHANGED <<frames, given>>, ServerGoesOn,
           \A g \in Guests : /\ rd'[g] = rd[g] /\ Picked(Downstream(g)', Downstream(g))
                             /\ connected'[g] => connected[g],
           \A h \in Guests : Picked(Upstream(h)', Upstream(h)),
           Short(rd'[Server])
    PROVE  OrderInv'
<1>1. Got' = Got /\ GivenOK'
  BY GotSame DEF OrderInv
<1>2. ASSUME NEW g \in Guests PROVE GuestOK(g)' /\ Reached(g)' \subseteq Reached(g)
  <2>1. GuestOK(g) /\ Got'[g] = Got[g]
    BY <1>1 DEF OrderInv
  <2>. QED
    BY <2>1, GuestKept
<1>3. ASSUME NEW r \in Reader PROVE Short(rd'[r])
  BY DEF OrderInv, Reader
<1>. QED
  BY <1>1, <1>2, <1>3, OrderStep

-----------------------------------------------------------------------------
\* The server goes to another stage and no byte moves.
LEMMA StageOrder ==
    ASSUME OrderInv, WireInv, WireTypeOK', UNCHANGED <<frames, out, connected, up, down, given>>,
           NEW a \in {"idle", "power", "send"}, rd' = [rd EXCEPT ![Server].at = a],
           a = "send" => ServerAt("done") /\ src' = src,
           UNCHANGED <<dst, sending>> \/ (dst' = Server /\ sending' = <<>>)
    PROVE  OrderInv'
<1>. USE WireAssumption
<1>1. Server \in Reader /\ a \in Stage
  BY DEF Reader, Stage
<1>2. /\ rd'[Server].at = a /\ rd'[Server].pos = rd[Server].pos /\ rd'[Server].total = rd[Server].total
      /\ rd'[Server].Buffer = rd[Server].Buffer
      /\ \A q \in Reader \ {Server} : rd'[q] = rd[q]
  BY <1>1, StageMoved
<1>3. \A g \in Guests : rd'[g] = rd[g]
  BY <1>2 DEF Reader
<1>4. ServerGoesOn
  BY <1>2 DEF ServerGoesOn, InFrame, ServerAt
<1>5. Short(rd'[Server])
  BY <1>1, <1>2 DEF Short, OrderInv, ServerAt
<1>6. \A g \in Guests : Picked(Downstream(g)', Downstream(g)) /\ Picked(Upstream(g)', Upstream(g))
  BY DownPicked, UpPicked DEF WireInv
<1>. QED
  BY <1>3, <1>4, <1>5, <1>6, ServerSideStep DEF WireInv

\* ForwardData begins to read.
LEMMA SelectsOrder ==
    ASSUME OrderInv, WireInv, WireTypeOK', NEW g \in Guests, ServerSelects(g)
    PROVE  OrderInv'
<1>1. PICK a \in {"idle", "power", "send"} : a = "power"
  OBVIOUS
<1>. QED
  BY <1>1, StageOrder DEF ServerSelects, ServerGoes

\* All of the frame is there.
LEMMA ForwardsOrder ==
    ASSUME OrderInv, WireInv, WireTypeOK', ServerForwards
    PROVE  OrderInv'
<1>1. PICK a \in {"idle", "power", "send"} : a = "send"
  OBVIOUS
<1>. QED
  BY <1>1, StageOrder DEF ServerForwards, ServerGoes

\* The frame was sent on to all.
LEMMA ForwardedOrder ==
    ASSUME OrderInv, WireInv, WireTypeOK', ServerForwarded
    PROVE  OrderInv'
<1>1. PICK a \in {"idle", "power", "send"} : a = "idle"
  OBVIOUS
<1>. QED
  BY <1>1, StageOrder DEF ServerForwarded, ServerGoes

\* RemoveClient: what the guest has sent and will send of the frame is lost.
LEMMA RemovesOrder ==
    ASSUME OrderInv, WireInv, WireTypeOK', ServerRemoves
    PROVE  OrderInv'
<1>. USE WireAssumption
<1>1. Server \in Reader /\ "idle" \in Stage /\ rd' = [rd EXCEPT ![Server].at = "idle"]
  BY DEF Reader, Stage, ServerRemoves, ServerGoes
<1>2. rd'[Server].at = "idle" /\ \A q \in Reader \ {Server} : rd'[q] = rd[q]
  BY <1>1, StageMoved
<1>3. UNCHANGED <<frames, out, connected, down, dst, sending, given>>
  BY DEF ServerRemoves
<1>4. \A h \in Guests : up'[h] = up[h] \/ up'[h] = <<>>
  BY DEF ServerRemoves, WireInv, WireTypeOK
<1>5. ServerGoesOn /\ Short(rd'[Server])
  BY <1>2 DEF ServerGoesOn, InFrame, Short
<1>6. \A g \in Guests : Picked(Downstream(g)', Downstream(g)) /\ Picked(Upstream(g)', Upstream(g))
  BY <1>3, <1>4, DownPicked, UpPicked DEF WireInv
<1>7. \A g \in Guests : rd'[g] = rd[g]
  BY <1>2 DEF Reader
<1>. QED
  BY <1>3, <1>5, <1>6, <1>7, ServerSideStep DEF WireInv

\* A frame that is lost.
LEMMA LosesOrder ==
    ASSUME OrderInv, WireInv, WireTypeOK', NEW g \in Guests, ServerLoses(g)
    PROVE  OrderInv'
<1>1. UNCHANGED <<frames, out, connected, up, down, rd, src, dst, sending, given>> /\ to' = to \ {g}
  BY DEF ServerLoses
<1>2. ServerGoesOn
  BY <1>1 DEF ServerGoesOn
<1>3. Short(rd'[Server])
  BY <1>1 DEF OrderInv, Reader
<1>4. \A h \in Guests : Picked(Downstream(h)', Downstream(h)) /\ Picked(Upstream(h)', Upstream(h))
  BY <1>1, DownPicked, UpPicked DEF WireInv
<1>. QED
  BY <1>1, <1>2, <1>3, <1>4, ServerSideStep DEF WireInv

\* send() moves bytes, or loses those for a guest that has left.
LEMMA SendsOrder ==
    ASSUME OrderInv, WireInv, WireTypeOK', NEW n \in 1..Len(sending), ServerSends(n)
    PROVE  OrderInv'
<1>1. UNCHANGED <<frames, out, connected, up, rd, src, to, dst, given>> /\ sending' = Drop(sending, n)
  BY DEF ServerSends
<1>2. ServerGoesOn
  BY <1>1 DEF ServerGoesOn
<1>3. Short(rd'[Server])
  BY <1>1 DEF OrderInv, Reader
<1>4. \A h \in Guests : Picked(Upstream(h)', Upstream(h))
  BY <1>1, UpPicked DEF WireInv
<1>5. down \in [Guests -> Seq(Byte)] /\ sending \in Seq(Byte) /\ n \in 0..Len(sending)
  BY DEF WireInv, WireTypeOK
<1>6. ASSUME NEW h \in Guests PROVE Picked(Downstream(h)', Downstream(h))
  <2>1. PICK a \in Seq(Byte), s \in Seq(Byte) : a = down[h] /\ s = sending
    BY <1>5
  <2>2. n \in 0..Len(s)
    BY <1>5, <2>1
  <2>3. CASE dst # h
    <3>1. down'[h] = down[h] /\ dst' # h
      BY <1>1, <1>5, <2>3 DEF ServerSends
    <3>. QED
      BY <3>1, DownPicked DEF WireInv
  <2>4. CASE dst = h
    <3>1. Downstream(h)' = down'[h] \o Drop(s, n) /\ Downstream(h) = a \o s
      BY <1>1, <2>1, <2>4, Zenon DEF Downstream
    <3>2. CASE conn[dst] = "left"
      <4>1. down'[h] = a
        BY <2>1, <3>2, Zenon DEF ServerSends
      <4>2. Picked(a \o Drop(s, n), a \o s)
        BY <2>2, PickedMiddle
      <4>. QED
        BY <3>1, <4>1, <4>2, Zenon
    <3>3. CASE conn[dst] # "left"
      <4>1. down' = [down EXCEPT ![dst] = down[dst] \o SubSeq(sending, 1, n)]
        BY <3>3, Zenon DEF ServerSends
      <4>2. down'[h] = a \o SubSeq(s, 1, n)
        BY <1>5, <2>1, <2>4, <4>1, Zenon
      <4>3. (a \o SubSeq(s, 1, n)) \o Drop(s, n) = a \o s
        BY <2>2, SentBytes
      <4>4. Picked(a \o s, a \o s)
        BY Joined, PickedSame
      <4>. QED
        BY <3>1, <4>2, <4>3, <4>4, Zenon
    <3>. QED
      BY <3>2, <3>3
  <2>. QED
    BY <2>3, <2>4
<1>. QED
  BY <1>1, <1>2, <1>3, <1>4, <1>6, ServerSideStep DEF WireInv

\* The rest of the frame is not sent.
LEMMA SendFailsOrder ==
    ASSUME OrderInv, WireInv, WireTypeOK', ServerSendFails
    PROVE  OrderInv'
<1>1. UNCHANGED <<frames, out, connected, up, down, rd, src, to, dst, given>> /\ sending' = <<>>
  BY DEF ServerSendFails
<1>2. ServerGoesOn
  BY <1>1 DEF ServerGoesOn
<1>3. Short(rd'[Server])
  BY <1>1 DEF OrderInv, Reader
<1>4. \A h \in Guests : Picked(Downstream(h)', Downstream(h)) /\ Picked(Upstream(h)', Upstream(h))
  BY <1>1, DownPicked, UpPicked DEF WireInv
<1>. QED
  BY <1>1, <1>2, <1>3, <1>4, ServerSideStep DEF WireInv

\* The server ends: what it has not sent, and what was sent to it, is lost.
LEMMA ServerEndsOrder ==
    ASSUME OrderInv, WireInv, WireTypeOK', ServerEnds
    PROVE  OrderInv'
<1>. USE WireAssumption
<1>1. UNCHANGED <<frames, out, connected, down, given>> /\ sending' = <<>>
  BY DEF ServerEnds
<1>2. \A h \in Guests : up'[h] = <<>> /\ out'[h] = out[h]
  BY DEF ServerEnds
<1>3. rd'[Server] = NewReader /\ \A h \in Guests : rd'[h] = rd[h]
  BY DEF ServerEnds, WireInv, WireTypeOK, Reader
<1>4. ServerGoesOn /\ Short(rd'[Server])
  BY <1>3 DEF ServerGoesOn, InFrame, Short, NewReader
<1>5. \A h \in Guests : Picked(Downstream(h)', Downstream(h)) /\ Picked(Upstream(h)', Upstream(h))
  BY <1>1, <1>2, DownPicked, UpPicked DEF WireInv
<1>. QED
  BY <1>1, <1>3, <1>4, <1>5, ServerSideStep DEF WireInv

\* The bytes e are those of d, and behind them bytes of frame c.
Extends(e, d, c) ==
    \A j \in 1..Len(e) : (\E i \in 1..Len(d) : e[j] = d[i]) \/ e[j].frame = c

\* A frame that is above those before it keeps the order.
LEMMA OrderedJoined ==
    ASSUME NEW F, DOMAIN F \subseteq Nat, NEW d \in Seq(Byte), NEW f \in Seq(Byte), NEW c \in DOMAIN F,
           Ordered(F, d), OneFrame(F, f, c), \A k \in FramesOf(d) : Above(F, c, k)
    PROVE  /\ Ordered(F, d \o f) /\ Extends(d \o f, d, c)
           /\ FramesOf(d \o f) \subseteq FramesOf(d) \cup {c}
<1>1. PICK e \in Seq(Byte) : e = d \o f
  BY Joined, Zenon
<1>2. /\ Len(e) = Len(d) + Len(f) /\ Len(d) \in Nat /\ Len(f) \in Nat
      /\ \A i \in 1..Len(d) : e[i] = d[i]
      /\ \A i \in 1..Len(f) : e[Len(d) + i] = f[i]
  BY <1>1, Joined
<1>3. ASSUME NEW j \in 1..Len(e), j > Len(d)
      PROVE  e[j].frame = c /\ e[j].pos = j - Len(d) - 1 /\ e[j].pos <= F[c].len
  <2>1. PICK i \in 1..Len(f) : j = Len(d) + i
    <3>1. j - Len(d) \in 1..Len(f) /\ j = Len(d) + (j - Len(d))
      BY <1>2, <1>3
    <3>. QED
      BY <3>1
  <2>2. e[j] = f[i] /\ i - 1 = j - Len(d) - 1
    BY <1>2, <2>1
  <2>. QED
    BY <2>2 DEF OneFrame
<1>4. ASSUME NEW j \in 1..Len(e), ~(j > Len(d)) PROVE j \in 1..Len(d) /\ e[j] = d[j]
  BY <1>2, <1>4
<1>5. ASSUME NEW j \in 1..Len(e) PROVE Valid(F, e[j])
  <2>1. CASE j > Len(d)
    BY <1>3, <2>1 DEF Valid
  <2>2. CASE ~(j > Len(d))
    BY <1>4, <2>2 DEF Ordered
  <2>. QED
    BY <2>1, <2>2
<1>6. ASSUME NEW i \in 1..Len(e), NEW j \in 1..Len(e), i < j PROVE Before(F, e[i], e[j])
  <2>1. CASE ~(j > Len(d))
    <3>1. ~(i > Len(d))
      BY <1>2, <1>6, <2>1
    <3>. QED
      BY <1>4, <1>6, <2>1, <3>1 DEF Ordered
  <2>2. CASE j > Len(d) /\ ~(i > Len(d))
    <3>1. i \in 1..Len(d) /\ e[i] = d[i] /\ e[j].frame = c
      BY <1>3, <1>4, <2>2
    <3>2. d[i].frame \in FramesOf(d)
      BY <3>1 DEF FramesOf
    <3>. QED
      BY <3>1, <3>2 DEF Before, Above
  <2>3. CASE i > Len(d) /\ j > Len(d)
    <3>1. e[i].frame = c /\ e[j].frame = c /\ e[i].pos = i - Len(d) - 1 /\ e[j].pos = j - Len(d) - 1
      BY <1>3, <2>3
    <3>2. e[i].pos < e[j].pos
      BY <1>2, <1>6, <3>1
    <3>. QED
      BY <3>1, <3>2 DEF Before
  <2>. QED
    BY <2>1, <2>2, <2>3
<1>7. Extends(e, d, c)
  BY <1>3, <1>4 DEF Extends
<1>8. FramesOf(e) \subseteq FramesOf(d) \cup {c}
  BY <1>7 DEF FramesOf, Extends
<1>. QED
  BY <1>1, <1>5, <1>6, <1>7, <1>8 DEF Ordered

\* The last byte that a reader in a frame has read is of that frame, which is held.
LEMMA LastRead ==
    ASSUME NEW F, DOMAIN F \subseteq Nat \ {0}, NEW x \in Reading, BufferOK(x), Holds(F, x), InFrame(x)
    PROVE  /\ x.Buffer[x.pos].frame = x.Buffer[1].frame /\ x.Buffer[x.pos].pos = x.pos
           /\ x.Buffer[1].frame \in DOMAIN F /\ x.Buffer[1].frame \in Held(x)
<1>0. x.pos \in Nat /\ x.pos > 0 /\ Len(x.Buffer) \in Nat /\ x.pos <= Len(x.Buffer)
  BY ReadingType DEF InFrame, BufferOK
<1>1. /\ x.Buffer[1].frame \in DOMAIN F
      /\ \A i \in 1..x.pos : x.Buffer[i].frame = x.Buffer[1].frame /\ x.Buffer[i].pos = i
  BY <1>0 DEF Holds, InFrame
<1>2. x.pos \in 1..x.pos /\ 1 \in 1..Len(x.Buffer)
  BY <1>0
<1>3. x.Buffer[1].frame \in Held(x)
  BY <1>1, <1>2 DEF Held
<1>. QED
  BY <1>1, <1>2, <1>3

\* Frame c is sent on to guest g.
LEMMA GuestJoined ==
    ASSUME NEW F, DOMAIN F \subseteq Nat \ {0}, NEW x \in Reading, BufferOK(x), Holds(F, x),
           NEW d \in Seq(Byte), NEW f \in Seq(Byte), NEW c \in DOMAIN F, OneFrame(F, f, c),
           NEW g, NEW G, NEW v, GuestOrder(F, g, x, G, d, v), F[c].from # g,
           \A k \in Held(x) \cup G \cup FramesOf(d) : Above(F, c, k)
    PROVE  GuestOrder(F, g, x, G, d \o f, v) /\ FramesOf(d \o f) \subseteq FramesOf(d) \cup {c}
<1>0. PICK e : e = d \o f
  OBVIOUS
<1>1. Ordered(F, e) /\ Extends(e, d, c) /\ FramesOf(e) \subseteq FramesOf(d) \cup {c}
  <2>1. Ordered(F, d)
    BY DEF GuestOrder
  <2>. QED
    BY <1>0, <2>1, OrderedJoined
<1>2. \A j \in 1..Len(e) : (\E i \in 1..Len(d) : e[j] = d[i]) \/ e[j].frame = c
  BY <1>1 DEF Extends
<1>3. Stale(x) \subseteq Held(x)
  BY DEF Stale, Held
<1>4. InFrame(x) => \A j \in 1..Len(e) : Before(F, x.Buffer[x.pos], e[j])
  <2>. SUFFICES ASSUME InFrame(x), NEW j \in 1..Len(e) PROVE Before(F, x.Buffer[x.pos], e[j])
    OBVIOUS
  <2>1. x.Buffer[x.pos].frame \in Held(x)
    BY LastRead
  <2>2. Above(F, c, x.Buffer[x.pos].frame)
    BY <2>1
  <2>3. CASE e[j].frame = c
    BY <2>2, <2>3 DEF Above, Before
  <2>4. CASE \E i \in 1..Len(d) : e[j] = d[i]
    BY <2>4 DEF GuestOrder
  <2>. QED
    BY <1>2, <2>3, <2>4
<1>5. v => \A j \in 1..Len(e) : \A k \in Stale(x) \cup G : Above(F, e[j].frame, k)
  BY <1>2, <1>3 DEF GuestOrder
<1>6. \A j \in 1..Len(e) : F[e[j].frame].from # g
  BY <1>2 DEF GuestOrder
<1>7. GuestOrder(F, g, x, G, e, v)
  BY <1>1, <1>4, <1>5, <1>6 DEF GuestOrder
<1>. QED
  BY <1>0, <1>1, <1>7

\* The numbers of the frames.
LEMMA FrameNumbers ==
    ASSUME WireTypeOK
    PROVE  DOMAIN frames \subseteq Nat \ {0} /\ DOMAIN frames \subseteq Nat /\ DOMAIN frames = 1..Len(frames) /\ Len(frames) \in Nat
<1>1. frames \in Seq([from : Guests, len : Sizes])
  BY DEF WireTypeOK
<1>2. DOMAIN frames = 1..Len(frames) /\ Len(frames) \in Nat
  BY <1>1
<1>. QED
  BY <1>2

\* One frame more has been sent on.
LEMMA SendMore ==
    ASSUME NEW F, NEW h, NEW y, NEW s, NEW R, NEW T, NEW c, SendOrder(F, h, y, s, R),
           T \subseteq R \cup {c}, \A j \in 1..Len(s) : Above(F, s[j].frame, c)
    PROVE  SendOrder(F, h, y, s, T)
  BY DEF SendOrder

\* The frame that the server sends on: it is whole, and of the guest it was read from.
LEMMA ServerFrame ==
    ASSUME OrderInv, WireInv, StepInv, ServerAt("send"), NEW c, c = rd[Server].Buffer[1].frame
    PROVE  /\ InFrame(rd[Server]) /\ c \in DOMAIN frames /\ src \in Guests /\ frames[c].from = src
           /\ rd[Server].Buffer[rd[Server].pos].frame = c
           /\ rd[Server].Buffer[rd[Server].pos].pos = frames[c].len
<1>. USE WireAssumption
<1>1. PICK x \in Reading : x = rd[Server] /\ BufferOK(x) /\ Holds(frames, x)
  BY DEF WireInv, WireTypeOK, BuffersOK, StepInv, BuffersHold, Reader
<1>2. x.at = "send" /\ InFrame(x)
  BY <1>1, ReadingType DEF ServerAt, BufferOK, InFrame
<1>3. DOMAIN frames \subseteq Nat \ {0}
  BY FrameNumbers DEF WireInv
<1>4. x.Buffer[x.pos].frame = c /\ x.Buffer[x.pos].pos = x.pos /\ c \in DOMAIN frames
  BY <1>1, <1>2, <1>3, LastRead
<1>5. x.pos = frames[c].len
  BY <1>1, <1>2 DEF Holds, InFrame
<1>6. src \in Guests /\ UpReader(src) = x
  BY <1>1, <1>2 DEF StepInv, ServerShape, ServerAt, WireInv, WireTypeOK, UpReader
<1>7. frames[c].from = src
  BY <1>1, <1>2, <1>6 DEF OrderInv, SendOK, SendOrder
<1>. QED
  BY <1>1, <1>2, <1>4, <1>5, <1>6, <1>7

\* SendSignal: the frame is later than what the guest has had of the same sender.
LEMMA BeginsOrder ==
    ASSUME OrderInv, WireInv, StepInv, WireTypeOK', NEW g \in Guests, ServerBegins(g)
    PROVE  OrderInv'
<1>. USE WireAssumption
<1>1. /\ UNCHANGED <<frames, out, connected, up, down, rd, src, given>> /\ to' = to \ {g}
      /\ dst' = g /\ sending = <<>> /\ g \in to /\ ServerAt("send")
  BY DEF ServerBegins
<1>2. PICK c : c = rd[Server].Buffer[1].frame
  OBVIOUS
<1>3. /\ InFrame(rd[Server]) /\ c \in DOMAIN frames /\ src \in Guests /\ frames[c].from = src
      /\ rd[Server].Buffer[rd[Server].pos].frame = c
      /\ rd[Server].Buffer[rd[Server].pos].pos = frames[c].len
  BY <1>1, <1>2, ServerFrame
<1>4. g # src
  BY <1>1 DEF StepInv, ServerShape
<1>5. PICK f : f = Power(rd[Server].Buffer[1].frame) \o SubSeq(rd[Server].Buffer, 1, rd[Server].total)
  OBVIOUS
<1>6. f \in Seq(Byte) /\ OneFrame(frames, f, c) /\ sending' = f
  <2>1. BuffersHold
    BY DEF StepInv
  <2>2. f \in Seq(Byte) /\ OneFrame(frames, f, rd[Server].Buffer[1].frame)
    BY <1>1, <1>5, <2>1, BegunFrame
  <2>. QED
    BY <1>2, <1>5, <2>2 DEF ServerBegins
<1>7. \A k \in Reached(g) : Above(frames, c, k)
  BY <1>1, <1>2, <1>3, <1>4 DEF OrderInv, ServerOrder
<1>8. Got' = Got /\ GivenOK'
  BY <1>1, GotSame DEF OrderInv
<1>9. GuestOK(g)' /\ Reached(g)' \subseteq Reached(g) \cup {c}
  <2>1. PICK d \in Seq(Byte) : d = down[g]
    BY StreamType DEF WireInv
  <2>2. Downstream(g) = d /\ Downstream(g)' = d \o f
    <3>1. Downstream(g) = d \o <<>>
      BY <1>1, <2>1, Zenon DEF Downstream
    <3>2. d \o <<>> = d
      BY WithNothing
    <3>3. Downstream(g)' = d \o f
      BY <1>1, <1>6, <2>1, Zenon DEF Downstream
    <3>. QED
      BY <3>1, <3>2, <3>3
  <2>3. PICK x \in Reading : x = rd[g] /\ BufferOK(x) /\ Holds(frames, x)
    BY DEF WireInv, WireTypeOK, BuffersOK, StepInv, BuffersHold, Reader
  <2>4. PICK v : v = Serving(g)
    OBVIOUS
  <2>5. GuestOrder(frames, g, x, Got[g], d, v)
    BY <2>2, <2>3, <2>4 DEF OrderInv, GuestOK
  <2>6. \A k \in Held(x) \cup Got[g] \cup FramesOf(d) : Above(frames, c, k)
    BY <1>7, <2>2, <2>3 DEF Reached
  <2>7. DOMAIN frames \subseteq Nat \ {0} /\ frames[c].from # g
    BY <1>3, <1>4, FrameNumbers DEF WireInv
  <2>8. GuestOrder(frames, g, x, Got[g], d \o f, v) /\ FramesOf(d \o f) \subseteq FramesOf(d) \cup {c}
    BY <1>3, <1>6, <2>3, <2>5, <2>6, <2>7, GuestJoined
  <2>9. Serving(g)' = v /\ rd'[g] = x /\ Got'[g] = Got[g]
    BY <1>1, <1>8, <2>3, <2>4 DEF Serving
  <2>10. GuestOK(g)'
    BY <1>1, <2>2, <2>8, <2>9, Zenon DEF GuestOK
  <2>11. Reached(g)' \subseteq Reached(g) \cup {c}
    BY <2>2, <2>3, <2>8, <2>9, Zenon DEF Reached
  <2>. QED
    BY <2>10, <2>11
<1>10. ASSUME NEW h \in Guests \ {g} PROVE GuestOK(h)' /\ Reached(h)' \subseteq Reached(h)
  <2>1. down'[h] = down[h] /\ dst' # h
    BY <1>1
  <2>2. Picked(Downstream(h)', Downstream(h))
    BY <2>1, DownPicked DEF WireInv
  <2>. QED
    BY <1>1, <1>8, <2>2, GuestKept DEF WireInv, OrderInv
<1>11. Everything' \subseteq Everything \cup {c}
  <2>1. \A h \in Guests : Reached(h)' \subseteq Reached(h) \cup {c}
    BY <1>9, <1>10
  <2>. QED
    BY <2>1, Zenon DEF Everything
<1>12. ASSUME NEW h \in Guests PROVE SendOK(h)'
  <2>1. PICK s \in Seq(Byte) : s = Upstream(h) /\ s = Upstream(h)'
    BY <1>1, StreamType DEF Upstream, WireInv
  <2>2. PICK z : z = UpReader(h) /\ z = UpReader(h)'
    BY <1>1 DEF UpReader
  <2>3. SendOrder(frames, h, z, s, Everything)
    BY <2>1, <2>2 DEF OrderInv, SendOK
  <2>4. ASSUME NEW j \in 1..Len(s) PROVE Above(frames, s[j].frame, c)
    <3>1. frames[s[j].frame].from = h /\ Valid(frames, s[j])
      BY <2>3 DEF SendOrder, Ordered
    <3>2. CASE h # src
      BY <1>3, <3>1, <3>2 DEF Above
    <3>3. CASE h = src
      <4>1. z = rd[Server]
        BY <2>2, <3>3 DEF UpReader
      <4>2. Before(frames, rd[Server].Buffer[rd[Server].pos], s[j])
        BY <1>3, <2>3, <4>1 DEF SendOrder
      <4>3. c < s[j].frame \/ (c = s[j].frame /\ frames[c].len < s[j].pos)
        BY <1>3, <3>1, <3>3, <4>2 DEF Before
      <4>4. s[j].pos \in Nat /\ frames[c].len \in Nat
        <5>1. s[j] \in Byte
          BY ElementOfSeq
        <5>2. Sized(frames)
          BY FramesSized DEF WireInv
        <5>. QED
          BY <1>3, <5>1, <5>2 DEF Byte, Sized
      <4>5. c < s[j].frame
        BY <3>1, <4>3, <4>4 DEF Valid
      <4>. QED
        BY <4>5 DEF Above
    <3>. QED
      BY <3>2, <3>3
  <2>5. SendOrder(frames, h, z, s, Everything')
    BY <1>11, <2>3, <2>4, SendMore
  <2>. QED
    BY <1>1, <2>1, <2>2, <2>5, Zenon DEF SendOK
<1>13. ServerOrder'
  BY <1>1, <1>2, <1>10 DEF ServerOrder, OrderInv, ServerAt
<1>14. \A r \in Reader : Short(rd'[r])
  BY <1>1 DEF OrderInv
<1>. QED
  BY <1>8, <1>9, <1>10, <1>12, <1>13, <1>14, Zenon DEF OrderInv

\* The server reads: what it reads next is later than what it has sent on.
LEMMA ServerReadsOrder ==
    ASSUME OrderInv, WireInv, StepInv, WireTypeOK', RecvSignal(Server)
    PROVE  OrderInv'
<1>. USE WireAssumption
<1>0. Server \in Reader /\ rd[Server].at \in {"power", "head", "rest"}
  BY DEF Reader, RecvSignal, ReadPower, ReadSome, ReadHeader, ReadDone, ReadFails
<1>1. src \in Guests /\ src # Server
  BY <1>0 DEF StepInv, ServerShape, ServerAt, WireInv, WireTypeOK
<1>2. /\ UNCHANGED <<frames, out, connected, conn, src, to, dst, sending>>
      /\ down' = down /\ \A h \in Guests \ {src} : up'[h] = up[h]
  BY <1>0, RecvFrame
<1>3. PICK t \in Seq(Byte) : t = out[src]
  BY <1>1, StreamType DEF WireInv
<1>4. In(Server) = up[src] /\ In(Server)' = up'[src]
  BY <1>1, <1>2, Zenon DEF In
<1>5. Holds(frames, rd[Server]) /\ Short(rd[Server])
  BY <1>0 DEF StepInv, BuffersHold, OrderInv
<1>6. given' = given /\ \E y \in Reading, n \in Nat : Took(Server, t, y, n) /\ Short(y)
  BY <1>0, <1>5, RecvTook
<1>7. PICK y \in Reading, n \in Nat : Took(Server, t, y, n) /\ Short(y)
  BY <1>6
<1>8. PICK s \in Seq(Byte) : s = Upstream(src) /\ s = In(Server) \o t
  BY <1>1, <1>3, <1>4, StreamType DEF WireInv, Upstream
<1>9. /\ rd' = [rd EXCEPT ![Server] = y] /\ ReadStep(frames, rd[Server], y, s, n)
      /\ Upstream(src)' = Drop(s, n) /\ n \in 0..Len(s)
  <2>1. Upstream(src)' = In(Server)' \o t
    BY <1>2, <1>3, <1>4, Zenon DEF Upstream
  <2>. QED
    BY <1>7, <1>8, <2>1 DEF Took
<1>10. rd'[Server] = y /\ \A h \in Guests : rd'[h] = rd[h]
  <2>1. rd \in [Reader -> Reading]
    BY DEF WireInv, WireTypeOK
  <2>. QED
    BY <1>0, <1>9, <2>1, Zenon DEF Reader
<1>11. Got' = Got /\ GivenOK'
  BY <1>6, GotSame DEF OrderInv
<1>12. ASSUME NEW g \in Guests PROVE GuestOK(g)' /\ Reached(g)' \subseteq Reached(g)
  <2>1. Picked(Downstream(g)', Downstream(g))
    BY <1>2, DownPicked DEF WireInv
  <2>. QED
    BY <1>2, <1>10, <1>11, <2>1, GuestKept DEF WireInv, OrderInv
<1>13. Everything' \subseteq Everything
  BY <1>12, ReachedLess
<1>14. PICK x \in Reading : x = rd[Server] /\ x = UpReader(src)
  BY <1>0 DEF WireInv, WireTypeOK, UpReader
<1>15. SendOrder(frames, src, x, s, Everything)
  BY <1>1, <1>8, <1>14 DEF OrderInv, SendOK
<1>16. /\ SendOrder(frames, src, y, Drop(s, n), Everything)
       /\ InFrame(y) =>
             \/ InFrame(x) /\ y.Buffer[1] = x.Buffer[1]
             \/ \E j \in 1..Len(s) : y.Buffer[1] = s[j]
  BY <1>9, <1>14, <1>15, SendReadStep
<1>17. ASSUME NEW h \in Guests PROVE SendOK(h)'
  <2>1. CASE h = src
    <3>1. PICK d \in Seq(Byte) : d = Drop(s, n)
      BY <1>9, Dropped
    <3>2. Picked(d, d)
      BY PickedSame
    <3>3. SendOrder(frames, src, y, d, Everything)
      BY <1>16, <3>1
    <3>4. SendOrder(frames, src, y, d, Everything')
      BY <1>13, <3>2, <3>3, SendPicked
    <3>5. UpReader(h)' = y /\ Upstream(h)' = d
      BY <1>2, <1>9, <1>10, <2>1, <3>1 DEF UpReader
    <3>. QED
      BY <1>2, <2>1, <3>4, <3>5, Zenon DEF SendOK
  <2>2. CASE h # src
    <3>0. Upstream(h)' = Upstream(h)
      BY <1>2, <2>2 DEF Upstream
    <3>1. PICK d \in Seq(Byte) : d = Upstream(h) /\ d = Upstream(h)'
      BY <3>0, StreamType DEF WireInv
    <3>2. PICK z : z = UpReader(h) /\ z = UpReader(h)'
      BY <1>2, <2>2 DEF UpReader
    <3>3. Picked(d, d)
      BY PickedSame
    <3>4. SendOrder(frames, h, z, d, Everything)
      BY <3>1, <3>2 DEF OrderInv, SendOK
    <3>5. SendOrder(frames, h, z, d, Everything')
      BY <1>13, <3>3, <3>4, SendPicked
    <3>. QED
      BY <1>2, <3>1, <3>2, <3>5, Zenon DEF SendOK
  <2>. QED
    BY <2>1, <2>2
<1>18. ServerOrder'
  <2>. SUFFICES ASSUME InFrame(y), NEW g \in Guests, g # src, NEW k \in Reached(g)'
                PROVE  Above(frames, y.Buffer[1].frame, k)
    BY <1>2, <1>10 DEF ServerOrder
  <2>1. k \in Reached(g) /\ k \in Everything
    BY <1>12, Zenon DEF Everything
  <2>2. CASE InFrame(x) /\ y.Buffer[1] = x.Buffer[1]
    BY <1>0, <1>14, <2>1, <2>2 DEF OrderInv, ServerOrder, ServerAt
  <2>3. CASE \E j \in 1..Len(s) : y.Buffer[1] = s[j]
    BY <1>15, <2>1, <2>3 DEF SendOrder
  <2>. QED
    BY <1>16, <2>2, <2>3
<1>19. ASSUME NEW r \in Reader PROVE Short(rd'[r])
  BY <1>7, <1>10 DEF OrderInv, Reader
<1>. QED
  BY <1>11, <1>12, <1>17, <1>18, <1>19, Zenon DEF OrderInv

\* A step of guest g in which nothing comes further.
LEMMA GuestSideStep ==
    ASSUME OrderInv, WireTypeOK, WireTypeOK', NEW g \in Guests, UNCHANGED <<frames, src, to>>,
           rd'[Server] = rd[Server],
           \A h \in Guests \ {g} : /\ rd'[h] = rd[h] /\ Got'[h] = Got[h]
                                   /\ Picked(Downstream(h)', Downstream(h))
                                   /\ connected'[h] => connected[h],
           GuestOK(g)', Reached(g)' \subseteq Reached(g), Short(rd'[g]),
           \A h \in Guests : Picked(Upstream(h)', Upstream(h)),
           GivenOK'
    PROVE  OrderInv'
<1>1. ServerGoesOn
  BY DEF ServerGoesOn
<1>2. ASSUME NEW h \in Guests PROVE GuestOK(h)' /\ Reached(h)' \subseteq Reached(h)
  <2>1. CASE h = g
    BY <2>1
  <2>2. CASE h # g
    <3>1. GuestOK(h)
      BY DEF OrderInv
    <3>. QED
      BY <2>2, <3>1, GuestKept
  <2>. QED
    BY <2>1, <2>2
<1>3. ASSUME NEW r \in Reader PROVE Short(rd'[r])
  BY DEF OrderInv, Reader
<1>. QED
  BY <1>1, <1>2, <1>3, OrderStep

\* A reader outside of a frame goes to another stage outside of a frame.
LEMMA GuestStage ==
    ASSUME NEW F, NEW g, NEW x, NEW y, NEW G, NEW s, NEW v, NEW w, GuestOrder(F, g, x, G, s, v),
           ~InFrame(x), ~InFrame(y), y.Buffer = x.Buffer, w => v
    PROVE  GuestOrder(F, g, y, G, s, w) /\ Held(y) = Held(x)
<1>1. Held(y) = Held(x) /\ Stale(y) = Stale(x)
  BY DEF Held, Stale
<1>. QED
  BY <1>1 DEF GuestOrder

\* A connection without bytes.
LEMMA GuestEmpty ==
    ASSUME NEW F, NEW g, NEW x, NEW G, NEW s, NEW v, NEW w, NEW t, GuestOrder(F, g, x, G, s, v),
           Len(t) = 0
    PROVE  GuestOrder(F, g, x, G, t, w) /\ FramesOf(t) = {}
<1>1. 1..Len(t) = {}
  OBVIOUS
<1>. QED
  BY <1>1 DEF GuestOrder, Ordered, FramesOf

\* A guest that begins again.
LEMMA GuestFresh ==
    ASSUME NEW F, Sized(F), DOMAIN F \subseteq Nat \ {0}, NEW g, NEW x, NEW G, NEW v,
           NEW s \in Seq(Byte), NEW t \in Seq(Byte), GuestOrder(F, g, x, G, s, v), Picked(t, s),
           NEW w, ~w
    PROVE  /\ GuestOrder(F, g, NewReader, G, t, w)
           /\ Held(NewReader) = {} /\ FramesOf(t) \subseteq FramesOf(s)
<1>. USE WireAssumption
<1>1. Ordered(F, t) /\ FramesOf(t) \subseteq FramesOf(s) /\ \A i \in 1..Len(t) : \E j \in 1..Len(s) : t[i] = s[j]
  BY PickedOrdered DEF GuestOrder
<1>2. PICK b : b = CDynBuffer
  OBVIOUS
<1>3. Len(b) = DEFAULT_SIZE_BUFFER /\ \A i \in 1..DEFAULT_SIZE_BUFFER : b[i] = Junk
  BY <1>2 DEF CDynBuffer
<1>4. \A i \in 1..Len(b) : b[i].frame = 0
  BY <1>3 DEF Junk
<1>5. ~InFrame(NewReader) /\ NewReader.Buffer = b
  BY <1>2 DEF NewReader, InFrame
<1>6. Held(NewReader) = {}
  BY <1>4, <1>5 DEF Held
<1>7. ASSUME NEW k \in DOMAIN F, IsWhole(F, b, k) PROVE FALSE
  <2>1. b[1].frame = k
    BY <1>7, WholeFirst
  <2>2. 1 \in 1..Len(b)
    BY <1>3
  <2>. QED
    BY <1>4, <2>1, <2>2
<1>8. GuestOrder(F, g, NewReader, G, t, w)
  BY <1>1, <1>5, <1>6, <1>7 DEF GuestOrder
<1>. QED
  BY <1>1, <1>6, <1>8

\* What is given to a driver.
LEMMA GotAdds ==
    ASSUME WireTypeOK, NEW g \in Guests, NEW f, NEW b \in BOOLEAN,
           given' = [given EXCEPT ![g] = given[g] \cup {[frame |-> f, read |-> b]}]
    PROVE  /\ Got'[g] = IF b THEN Got[g] \cup {f} ELSE Got[g]
           /\ \A h \in Guests \ {g} : Got'[h] = Got[h]
           /\ GivenOK /\ (b \/ f = 0 \/ f \in Got[g]) => GivenOK'
<1>0. [frame |-> f, read |-> b].frame = f /\ [frame |-> f, read |-> b].read = b
  BY Zenon
<1>1. PICK x : x = [frame |-> f, read |-> b] /\ x.frame = f /\ x.read = b
  BY <1>0, Zenon
<1>2. given'[g] = given[g] \cup {x} /\ \A h \in Guests \ {g} : given'[h] = given[h]
  BY <1>1, Zenon DEF WireTypeOK
<1>3. \A h \in Guests : /\ Got[h] = {y.frame : y \in {z \in given[h] : z.read}}
                        /\ Got'[h] = {y.frame : y \in {z \in given'[h] : z.read}}
  BY Zenon DEF Got
<1>4. \A h \in Guests \ {g} : Got'[h] = Got[h]
  BY <1>2, <1>3, Zenon
<1>5. {z \in given'[g] : z.read} = IF b THEN {z \in given[g] : z.read} \cup {x} ELSE {z \in given[g] : z.read}
  BY <1>1, <1>2
<1>6. Got'[g] = IF b THEN Got[g] \cup {f} ELSE Got[g]
  <2>1. CASE b
    <3>1. Got'[g] = {y.frame : y \in {z \in given[g] : z.read} \cup {x}}
      BY <1>3, <1>5, <2>1, Zenon
    <3>2. {y.frame : y \in {z \in given[g] : z.read} \cup {x}} = {y.frame : y \in {z \in given[g] : z.read}} \cup {x.frame}
      BY Zenon
    <3>. QED
      BY <1>1, <1>3, <2>1, <3>1, <3>2, Zenon
  <2>2. CASE ~b
    BY <1>3, <1>5, <2>2, Zenon
  <2>. QED
    BY <2>1, <2>2
<1>7. ASSUME GivenOK, b \/ f = 0 \/ f \in Got[g],
             NEW h \in Guests, NEW y \in given'[h], ~y.read, y.frame # 0
      PROVE  y.frame \in Got'[h]
  <2>1. CASE h = g
    <3>1. CASE y = x
      BY <1>1, <1>6, <1>7, <2>1, <3>1
    <3>2. CASE y \in given[g]
      BY <1>6, <1>7, <2>1, <3>2 DEF GivenOK
    <3>. QED
      BY <1>2, <2>1, <3>1, <3>2
  <2>2. CASE h # g
    BY <1>2, <1>4, <1>7, <2>2 DEF GivenOK
  <2>. QED
    BY <2>1, <2>2
<1>. QED
  BY <1>4, <1>6, <1>7 DEF GivenOK

\* FrameIn finds the frame that is whole in a buffer, and only such a one.
LEMMA FrameInWhole ==
    ASSUME WireTypeOK, NEW b \in Seq(Cell)
    PROVE  /\ FrameIn(b) = 0 \/ (FrameIn(b) \in DOMAIN frames /\ IsWhole(frames, b, FrameIn(b)))
           /\ \A k \in DOMAIN frames : IsWhole(frames, b, k) => FrameIn(b) = k
<1>. USE WireAssumption
<1>1. Sized(frames)
  BY FramesSized
<1>. DEFINE IsIn(k, len) == len <= Len(b) /\ SubSeq(b, 1, len) = Message(k, len)
            whole == {k \in DOMAIN frames : IsIn(k, frames[k].len)}
<1>2. ASSUME NEW k \in DOMAIN frames PROVE IsIn(k, frames[k].len) <=> IsWhole(frames, b, k)
  <2>1. PICK n \in Nat : n = frames[k].len
    BY <1>1 DEF Sized
  <2>2. ASSUME n <= Len(b)
        PROVE  SubSeq(b, 1, n) = Message(k, n) <=> \A i \in 1..n : b[i] = [frame |-> k, pos |-> i]
    <3>1. PICK m : m = SubSeq(b, 1, n)
      OBVIOUS
    <3>2. n \in 0..Len(b)
      BY <2>2
    <3>3. m \in Seq(Cell) /\ Len(m) = n /\ \A i \in 1..n : m[i] = b[i]
      BY <3>1, <3>2, Dropped
    <3>4. m \in [1..n -> Cell]
      BY <3>3
    <3>5. m = Message(k, n) <=> \A i \in 1..n : m[i] = [frame |-> k, pos |-> i]
      BY <3>4 DEF Message
    <3>. QED
      BY <3>1, <3>3, <3>5
  <2>. QED
    BY <2>1, <2>2 DEF IsWhole
<1>3. whole = {k \in DOMAIN frames : IsWhole(frames, b, k)}
  BY <1>2
<1>4. FrameIn(b) = IF whole # {} THEN CHOOSE k \in whole : TRUE ELSE 0
  BY Zenon DEF FrameIn
<1>. HIDE DEF whole
<1>5. FrameIn(b) = 0 \/ FrameIn(b) \in whole
  BY <1>4, Zenon
<1>6. ASSUME NEW k \in DOMAIN frames, IsWhole(frames, b, k) PROVE FrameIn(b) = k
  <2>1. k \in whole
    BY <1>3, <1>6
  <2>2. FrameIn(b) \in whole
    BY <1>4, <2>1, Zenon
  <2>3. FrameIn(b) \in DOMAIN frames /\ IsWhole(frames, b, FrameIn(b))
    BY <1>3, <2>2
  <2>. QED
    BY <1>1, <1>6, <2>3, WholeFirst
<1>. QED
  BY <1>3, <1>5, <1>6

\* Reader x has read frame c to its end.
ReadWhole(F, x, c) ==
    /\ InFrame(x) /\ c \in DOMAIN F /\ c = x.Buffer[1].frame /\ c \in Held(x)
    /\ x.Buffer[x.pos].frame = c /\ x.Buffer[x.pos].pos = F[c].len
    /\ \A i \in 1..x.pos : x.Buffer[i].frame = c

\* The frame that a guest has read to its end.
LEMMA ReadFrame ==
    ASSUME WireInv, StepInv, NEW g \in Guests, rd[g].at = "done", NEW c, c = rd[g].Buffer[1].frame
    PROVE  /\ ReadWhole(frames, rd[g], c)
           /\ FrameIn(SubSeq(rd[g].Buffer, 1, rd[g].total)) = c
           /\ rd[g].total = frames[c].len
<1>. USE WireAssumption
<1>1. PICK x \in Reading : x = rd[g] /\ BufferOK(x) /\ Holds(frames, x)
  BY DEF WireInv, WireTypeOK, BuffersOK, StepInv, BuffersHold, Reader
<1>2. x.at = "done" /\ InFrame(x) /\ x.pos \in Nat /\ x.total \in Nat /\ x.Buffer \in Seq(Cell)
  BY <1>1, ReadingType DEF BufferOK, InFrame
<1>3. WireTypeOK /\ DOMAIN frames \subseteq Nat \ {0}
  BY FrameNumbers DEF WireInv
<1>4. x.Buffer[x.pos].frame = c /\ x.Buffer[x.pos].pos = x.pos /\ c \in DOMAIN frames /\ c \in Held(x)
  BY <1>1, <1>2, <1>3, LastRead
<1>5. /\ x.pos = frames[c].len /\ x.total = frames[c].len
      /\ \A i \in 1..x.pos : x.Buffer[i].frame = c /\ x.Buffer[i].pos = i
  BY <1>1, <1>2 DEF Holds, InFrame
<1>6. \A i \in 1..x.pos : x.Buffer[i] = [frame |-> c, pos |-> i]
  <2>1. \A i \in 1..x.pos : x.Buffer[i] \in Byte
    BY <1>1, <1>2 DEF BufferOK
  <2>. QED
    BY <1>5, <2>1 DEF Byte
<1>7. PICK b \in Seq(Cell) : b = SubSeq(x.Buffer, 1, x.total) /\ IsWhole(frames, b, c)
  <2>1. PICK b : b = SubSeq(x.Buffer, 1, x.total)
    OBVIOUS
  <2>2. x.total \in 0..Len(x.Buffer)
    BY <1>1, <1>2, ReadingType DEF BufferOK
  <2>3. b \in Seq(Cell) /\ Len(b) = x.total /\ \A i \in 1..x.total : b[i] = x.Buffer[i]
    BY <1>2, <2>1, <2>2, Dropped
  <2>4. \A i \in 1..x.total : b[i] = [frame |-> c, pos |-> i]
    BY <1>5, <1>6, <2>3
  <2>5. IsWhole(frames, b, c)
    <3>1. x.total <= Len(b)
      BY <1>2, <2>3
    <3>2. frames[c].len <= Len(b)
      BY <1>5, <3>1, Zenon
    <3>3. \A i \in 1..frames[c].len : b[i] = [frame |-> c, pos |-> i]
      BY <1>5, <2>4, Zenon
    <3>. QED
      BY <3>2, <3>3, Zenon DEF IsWhole
  <2>. QED
    BY <2>1, <2>3, <2>5
<1>8. FrameIn(b) = c
  BY <1>3, <1>4, <1>7, FrameInWhole
<1>. QED
  BY <1>1, <1>2, <1>4, <1>5, <1>7, <1>8 DEF ReadWhole

\* The reader x of guest g, that has had the frames G, has read frame c and becomes y.
Has(F, g, x, y, G, s, c) ==
    /\ Sized(F) /\ x \in Reading /\ s \in Seq(Byte) /\ GuestOrder(F, g, x, G, s, TRUE)
    /\ ~InFrame(y) /\ y.Buffer = x.Buffer /\ ReadWhole(F, x, c)

\* A frame that was read to its end is had.
LEMMA GuestHas ==
    ASSUME NEW F, NEW x, NEW y, NEW g, NEW G, NEW s, NEW w, NEW c, NEW H,
           Has(F, g, x, y, G, s, c), H = G \cup {c}
    PROVE  GuestOrder(F, g, y, H, s, w) /\ Held(y) = Held(x)
<1>. USE DEF Has
<1>0. /\ InFrame(x) /\ c \in DOMAIN F /\ c = x.Buffer[1].frame /\ c \in Held(x)
      /\ x.Buffer[x.pos].frame = c /\ x.Buffer[x.pos].pos = F[c].len
      /\ \A i \in 1..x.pos : x.Buffer[i].frame = c
      /\ x.pos \in Nat /\ Len(x.Buffer) \in Nat
  BY ReadingType DEF ReadWhole
<1>1. Held(y) = Held(x) /\ Stale(y) \subseteq Held(x)
  BY DEF Held, Stale
<1>2. Held(x) \subseteq Stale(x) \cup {c}
  <2>. SUFFICES ASSUME NEW k \in Held(x), k # c PROVE k \in Stale(x)
    OBVIOUS
  <2>1. PICK i \in 1..Len(x.Buffer) : k = x.Buffer[i].frame /\ k # 0
    BY DEF Held
  <2>2. i > x.pos
    BY <1>0, <2>1
  <2>. QED
    BY <2>1, <2>2 DEF Stale
<1>3. ASSUME NEW j \in 1..Len(s) PROVE Above(F, s[j].frame, c)
  <2>1. Before(F, x.Buffer[x.pos], s[j]) /\ Valid(F, s[j])
    BY <1>0 DEF GuestOrder, Ordered
  <2>2. s[j].pos \in Nat /\ F[c].len \in Nat
    <3>1. s[j] \in Byte
      BY ElementOfSeq
    <3>. QED
      BY <1>0, <3>1 DEF Byte, Sized
  <2>. QED
    BY <1>0, <2>1, <2>2 DEF Before, Above, Valid
<1>4. \A j \in 1..Len(s) : \A k \in Stale(y) \cup H : Above(F, s[j].frame, k)
  BY <1>1, <1>2, <1>3 DEF GuestOrder
<1>5. \A k \in DOMAIN F : IsWhole(F, y.Buffer, k) => k = c
  BY <1>0, WholeFirst
<1>6. /\ Ordered(F, s) /\ Held(x) \cup G \subseteq DOMAIN F
      /\ \A j \in 1..Len(s) : F[s[j].frame].from # g
  BY DEF GuestOrder
<1>7. GuestOrder(F, g, y, H, s, w)
  BY <1>0, <1>1, <1>4, <1>5, <1>6 DEF GuestOrder
<1>. QED
  BY <1>1, <1>7

\* A guest reads.
LEMMA GuestReadsOrder ==
    ASSUME OrderInv, WireInv, StepInv, WireTypeOK', NEW g \in Guests, RecvSignal(g)
    PROVE  OrderInv'
<1>. USE WireAssumption
<1>0. g \in Reader /\ g # Server /\ rd[g].at \in {"power", "head", "rest"} /\ Server \in Reader
  BY DEF Reader, RecvSignal, ReadPower, ReadSome, ReadHeader, ReadDone, ReadFails
<1>1. Serving(g)
  BY <1>0 DEF Serving
<1>2. /\ UNCHANGED <<frames, out, connected, conn, src, to, dst, sending>>
      /\ up' = up /\ \A h \in Guests \ {g} : down'[h] = down[h]
  BY <1>0, RecvFrame
<1>3. PICK t \in Seq(Byte) : t = IF dst = g THEN sending ELSE <<>>
  BY StreamType, EmptySeq, Zenon DEF WireInv
<1>4. In(g) = down[g] /\ In(g)' = down'[g]
  BY <1>0, Zenon DEF In
<1>5. PICK x \in Reading : x = rd[g] /\ Holds(frames, x) /\ Short(x)
  BY <1>0 DEF StepInv, BuffersHold, OrderInv, WireInv, WireTypeOK
<1>6. given' = given /\ \E y \in Reading, n \in Nat : Took(g, t, y, n) /\ Short(y)
  BY <1>0, <1>5, RecvTook
<1>7. PICK y \in Reading, n \in Nat : Took(g, t, y, n) /\ Short(y)
  BY <1>6
<1>8. Downstream(g) = In(g) \o t /\ Downstream(g)' = In(g)' \o t
  BY <1>2, <1>3, <1>4, Zenon DEF Downstream
<1>9. PICK s \in Seq(Byte) : s = Downstream(g)
  BY StreamType DEF WireInv
<1>10. /\ rd' = [rd EXCEPT ![g] = y] /\ ReadStep(frames, x, y, s, n)
       /\ Downstream(g)' = Drop(s, n) /\ n \in 0..Len(s)
  BY <1>5, <1>7, <1>8, <1>9 DEF Took
<1>11. rd'[g] = y /\ rd'[Server] = rd[Server] /\ \A h \in Guests \ {g} : rd'[h] = rd[h]
  <2>1. rd \in [Reader -> Reading]
    BY DEF WireInv, WireTypeOK
  <2>. QED
    BY <1>0, <1>10, <2>1, Zenon DEF Reader
<1>12. Got' = Got /\ GivenOK'
  BY <1>6, GotSame DEF OrderInv
<1>13. GuestOrder(frames, g, x, Got[g], s, TRUE)
  BY <1>1, <1>5, <1>9 DEF OrderInv, GuestOK, GuestOrder
<1>14. Sized(frames) /\ DOMAIN frames \subseteq Nat \ {0}
  BY FrameNumbers, FramesSized DEF WireInv
<1>15. PICK d \in Seq(Byte) : d = Drop(s, n)
  BY <1>10, Dropped
<1>16. PICK v : v = (y.at # "failed")
  OBVIOUS
<1>17. GuestOrder(frames, g, y, Got[g], d, v) /\ Held(y) \cup FramesOf(d) \subseteq Held(x) \cup FramesOf(s)
  BY <1>5, <1>10, <1>13, <1>14, <1>15, <1>16, GuestReadStep
<1>18. PICK w : w = Serving(g)'
  OBVIOUS
<1>19. w => v
  BY <1>11, <1>16, <1>18 DEF Serving
<1>20. GuestOrder(frames, g, y, Got[g], d, w)
  BY <1>17, <1>19, PickedSame, GuestPicked
<1>21. GuestOK(g)'
  BY <1>2, <1>10, <1>11, <1>12, <1>15, <1>18, <1>20, Zenon DEF GuestOK
<1>22. Reached(g)' \subseteq Reached(g)
  <2>1. Reached(g)' = Held(y) \cup Got[g] \cup FramesOf(d)
    BY <1>10, <1>11, <1>12, <1>15, Zenon DEF Reached
  <2>2. Reached(g) = Held(x) \cup Got[g] \cup FramesOf(s)
    BY <1>5, <1>9, Zenon DEF Reached
  <2>. QED
    BY <1>17, <2>1, <2>2
<1>23. \A h \in Guests : Picked(Upstream(h)', Upstream(h))
  BY <1>2, UpPicked DEF WireInv
<1>24. \A h \in Guests \ {g} : Picked(Downstream(h)', Downstream(h))
  BY <1>2, DownPicked DEF WireInv
<1>25. Short(rd'[g])
  BY <1>7, <1>11
<1>. QED
  BY <1>2, <1>11, <1>12, <1>21, <1>22, <1>23, <1>24, <1>25, GuestSideStep DEF WireInv

\* A guest sends.
LEMMA GuestSendsOrder ==
    ASSUME OrderInv, WireInv, WireTypeOK', NEW g \in Guests, NEW n \in 1..Len(out[g]), GuestSends(g, n)
    PROVE  OrderInv'
<1>1. UNCHANGED <<frames, connected, down, rd, src, to, dst, sending, given>>
  BY DEF GuestSends, server
<1>2. ServerGoesOn /\ Short(rd'[Server])
  BY <1>1 DEF ServerGoesOn, OrderInv, Reader
<1>3. \A h \in Guests : Picked(Downstream(h)', Downstream(h))
  BY <1>1, DownPicked DEF WireInv
<1>4. PICK a \in Seq(Byte), b \in Seq(Byte) : a = up[g] /\ b = out[g]
  BY StreamType DEF WireInv
<1>5. /\ up' = [up EXCEPT ![g] = up[g] \o SubSeq(out[g], 1, n)]
      /\ out' = [out EXCEPT ![g] = Drop(out[g], n)]
  BY Zenon DEF GuestSends
<1>6. up \in [Guests -> Seq(Byte)] /\ out \in [Guests -> Seq(Byte)]
  BY DEF WireInv, WireTypeOK
<1>7. /\ up'[g] = a \o SubSeq(b, 1, n) /\ out'[g] = Drop(b, n)
      /\ \A h \in Guests \ {g} : up'[h] = up[h] /\ out'[h] = out[h]
  BY <1>4, <1>5, <1>6, Zenon
<1>8. n \in 0..Len(b)
  BY <1>4
<1>9. Picked(Upstream(g)', Upstream(g))
  <2>1. (a \o SubSeq(b, 1, n)) \o Drop(b, n) = a \o b
    BY <1>8, SentBytes
  <2>2. Upstream(g)' = a \o b /\ Upstream(g) = a \o b
    BY <1>4, <1>7, <2>1, Zenon DEF Upstream
  <2>3. Picked(a \o b, a \o b)
    BY Joined, PickedSame
  <2>. QED
    BY <2>2, <2>3
<1>10. \A h \in Guests \ {g} : Picked(Upstream(h)', Upstream(h))
  BY <1>7, UpPicked DEF WireInv
<1>. QED
  BY <1>1, <1>2, <1>3, <1>9, <1>10, ServerSideStep DEF WireInv

\* The rest of the frame is not sent.
LEMMA GuestSendFailsOrder ==
    ASSUME OrderInv, WireInv, WireTypeOK', NEW g \in Guests, GuestSendFails(g)
    PROVE  OrderInv'
<1>1. UNCHANGED <<frames, up, down, rd, src, to, dst, sending, given>>
  BY DEF GuestSendFails, server
<1>2. ServerGoesOn /\ Short(rd'[Server])
  BY <1>1 DEF ServerGoesOn, OrderInv, Reader
<1>3. \A h \in Guests : Picked(Downstream(h)', Downstream(h))
  BY <1>1, DownPicked DEF WireInv
<1>4. \A h \in Guests : out'[h] = out[h] \/ out'[h] = <<>>
  BY DEF GuestSendFails, WireInv, WireTypeOK
<1>5. \A h \in Guests : connected'[h] => connected[h]
  BY Zenon DEF GuestSendFails, WireInv, WireTypeOK
<1>6. \A h \in Guests : Picked(Upstream(h)', Upstream(h))
  BY <1>1, <1>4, UpPicked DEF WireInv
<1>. QED
  BY <1>1, <1>2, <1>3, <1>5, <1>6, ServerSideStep DEF WireInv

\* The scheduler reports the connection of a guest.
LEMMA WakesOrder ==
    ASSUME OrderInv, WireInv, WireTypeOK', NEW g \in Guests, GuestWakes(g)
    PROVE  OrderInv'
<1>. USE WireAssumption
<1>1. /\ UNCHANGED <<frames, out, connected, up, down, src, to, dst, sending, given>>
      /\ rd[g].at = "idle" /\ connected[g] /\ rd' = [rd EXCEPT ![g].at = "power"]
  BY DEF GuestWakes, server
<1>2. g \in Reader /\ Server \in Reader /\ g # Server /\ "power" \in Stage
  BY DEF Reader, Stage
<1>3. /\ rd'[g].at = "power" /\ rd'[g].Buffer = rd[g].Buffer
      /\ \A q \in Reader \ {g} : rd'[q] = rd[q]
  BY <1>1, <1>2, StageMoved
<1>4. PICK y : y = rd'[g]
  OBVIOUS
<1>5. ~InFrame(rd[g]) /\ ~InFrame(y) /\ y.Buffer = rd[g].Buffer /\ Serving(g)
  BY <1>1, <1>3, <1>4 DEF InFrame, Serving
<1>6. Got' = Got /\ GivenOK'
  BY <1>1, GotSame DEF OrderInv
<1>7. PICK s, w : s = Downstream(g) /\ s = Downstream(g)' /\ w = Serving(g)'
  BY <1>1 DEF Downstream
<1>8. GuestOrder(frames, g, rd[g], Got[g], s, Serving(g))
  BY <1>7 DEF OrderInv, GuestOK
<1>9. GuestOrder(frames, g, y, Got[g], s, w) /\ Held(y) = Held(rd[g])
  BY <1>5, <1>8, GuestStage
<1>10. GuestOK(g)'
  BY <1>1, <1>4, <1>6, <1>7, <1>9, Zenon DEF GuestOK
<1>11. Reached(g)' \subseteq Reached(g)
  BY <1>4, <1>6, <1>7, <1>9, Zenon DEF Reached
<1>12. \A h \in Guests : Picked(Upstream(h)', Upstream(h)) /\ Picked(Downstream(h)', Downstream(h))
  BY <1>1, UpPicked, DownPicked DEF WireInv
<1>13. Short(rd'[g]) /\ rd'[Server] = rd[Server] /\ \A h \in Guests \ {g} : rd'[h] = rd[h]
  BY <1>2, <1>3 DEF Short, Reader
<1>. QED
  BY <1>1, <1>6, <1>10, <1>11, <1>12, <1>13, GuestSideStep DEF WireInv

\* A frame that was read to its end is given to the driver.
LEMMA HandsOnOrder ==
    ASSUME OrderInv, WireInv, StepInv, WireTypeOK', NEW g \in Guests, GuestHandsOn(g)
    PROVE  OrderInv'
<1>. USE WireAssumption
<1>0. PICK c : c = rd[g].Buffer[1].frame
  OBVIOUS
<1>1. /\ UNCHANGED <<frames, out, connected, up, down, src, to, dst, sending>>
      /\ rd[g].at = "done" /\ rd' = [rd EXCEPT ![g].at = "idle"]
  BY DEF GuestHandsOn, server
<1>2. g \in Reader /\ Server \in Reader /\ g # Server /\ "idle" \in Stage
  BY DEF Reader, Stage
<1>3. /\ rd'[g].at = "idle" /\ rd'[g].Buffer = rd[g].Buffer
      /\ \A q \in Reader \ {g} : rd'[q] = rd[q]
  BY <1>1, <1>2, StageMoved
<1>4. /\ ReadWhole(frames, rd[g], c) /\ c \in Held(rd[g])
      /\ FrameIn(SubSeq(rd[g].Buffer, 1, rd[g].total)) = c
  BY <1>0, <1>1, ReadFrame DEF ReadWhole
<1>5. PICK b \in BOOLEAN : b
  OBVIOUS
<1>6. given' = [given EXCEPT ![g] = given[g] \cup {[frame |-> c, read |-> b]}]
  BY <1>4, <1>5, Zenon DEF GuestHandsOn
<1>7. Got'[g] = Got[g] \cup {c} /\ \A h \in Guests \ {g} : Got'[h] = Got[h]
  BY <1>5, <1>6, GotAdds, Zenon DEF WireInv
<1>8. GivenOK'
  BY <1>5, <1>6, GotAdds, Zenon DEF WireInv, OrderInv
<1>9. PICK y, w : y = rd'[g] /\ w = Serving(g)'
  OBVIOUS
<1>10. ~InFrame(y) /\ y.Buffer = rd[g].Buffer /\ Serving(g)
  BY <1>1, <1>3, <1>9 DEF InFrame, Serving
<1>11. PICK s \in Seq(Byte) : s = Downstream(g) /\ s = Downstream(g)'
  BY <1>1, StreamType DEF Downstream, WireInv
<1>12. GuestOrder(frames, g, rd[g], Got[g], s, Serving(g))
  BY <1>11 DEF OrderInv, GuestOK
<1>13. Sized(frames) /\ rd[g] \in Reading
  BY <1>2, FramesSized DEF WireInv, WireTypeOK
<1>14. GuestOrder(frames, g, y, Got'[g], s, w) /\ Held(y) = Held(rd[g])
  <2>1. GuestOrder(frames, g, rd[g], Got[g], s, TRUE)
    BY <1>10, <1>12 DEF GuestOrder
  <2>2. PICK H \in {Got'[g]}, x \in Reading : H = Got'[g] /\ x = rd[g] /\ H = Got[g] \cup {c}
    BY <1>7, <1>13
  <2>3. ReadWhole(frames, x, c) /\ GuestOrder(frames, g, x, Got[g], s, TRUE) /\ y.Buffer = x.Buffer
    BY <1>4, <1>10, <2>1, <2>2
  <2>4. Has(frames, g, x, y, Got[g], s, c)
    BY <1>10, <1>13, <2>3 DEF Has
  <2>5. GuestOrder(frames, g, y, H, s, w) /\ Held(y) = Held(x)
    BY <2>2, <2>4, GuestHas
  <2>. QED
    BY <2>2, <2>5
<1>15. GuestOK(g)'
  BY <1>1, <1>7, <1>9, <1>11, <1>14, Zenon DEF GuestOK
<1>16. Reached(g)' \subseteq Reached(g)
  BY <1>4, <1>7, <1>9, <1>11, <1>14, Zenon DEF Reached
<1>17. \A h \in Guests : Picked(Upstream(h)', Upstream(h)) /\ Picked(Downstream(h)', Downstream(h))
  BY <1>1, UpPicked, DownPicked DEF WireInv
<1>18. Short(rd'[g]) /\ rd'[Server] = rd[Server] /\ \A h \in Guests \ {g} : rd'[h] = rd[h]
  BY <1>2, <1>3 DEF Short, Reader
<1>. QED
  BY <1>1, <1>7, <1>8, <1>15, <1>16, <1>17, <1>18, GuestSideStep DEF WireInv

\* recv_from_server goes on with a buffer in which there is no new frame.
LEMMA ReadFailedOrder ==
    ASSUME OrderInv, WireInv, WireTypeOK', NEW g \in Guests, GuestReadFailed(g)
    PROVE  OrderInv'
<1>. USE WireAssumption
<1>1. /\ UNCHANGED <<frames, out, up, down, src, to, dst, sending>>
      /\ rd[g].at = "failed" /\ rd' = [rd EXCEPT ![g].at = "idle"]
      /\ connected' = [connected EXCEPT ![g] = FALSE]
  BY DEF GuestReadFailed, server
<1>2. g \in Reader /\ Server \in Reader /\ g # Server /\ "idle" \in Stage
  BY DEF Reader, Stage
<1>3. /\ rd'[g].at = "idle" /\ rd'[g].Buffer = rd[g].Buffer
      /\ \A q \in Reader \ {g} : rd'[q] = rd[q]
  BY <1>1, <1>2, StageMoved
<1>4. ~connected'[g] /\ \A h \in Guests \ {g} : connected'[h] = connected[h]
  BY <1>1, Zenon DEF WireInv, WireTypeOK
<1>5. PICK y, w : y = rd'[g] /\ w = Serving(g)'
  OBVIOUS
<1>6. ~InFrame(rd[g]) /\ ~InFrame(y) /\ y.Buffer = rd[g].Buffer /\ ~w
  BY <1>1, <1>3, <1>4, <1>5 DEF InFrame, Serving
<1>7. PICK s : s = Downstream(g) /\ s = Downstream(g)'
  BY <1>1 DEF Downstream
<1>8. GuestOrder(frames, g, rd[g], Got[g], s, Serving(g))
  BY <1>7 DEF OrderInv, GuestOK
<1>9. PICK f : f = FrameIn(rd[g].Buffer)
  OBVIOUS
<1>10. f = 0 \/ f \in Got[g]
  <2>1. rd[g].Buffer \in Seq(Cell)
    BY <1>2, ReadingType DEF WireInv, WireTypeOK
  <2>2. f = 0 \/ (f \in DOMAIN frames /\ IsWhole(frames, rd[g].Buffer, f))
    BY <1>9, <2>1, FrameInWhole DEF WireInv
  <2>. QED
    BY <1>6, <1>8, <2>2 DEF GuestOrder
<1>11. PICK b \in BOOLEAN : ~b
  OBVIOUS
<1>12. given' = [given EXCEPT ![g] = given[g] \cup {[frame |-> f, read |-> b]}]
  BY <1>9, <1>11, Zenon DEF GuestReadFailed
<1>13. Got'[g] = Got[g] /\ \A h \in Guests \ {g} : Got'[h] = Got[h]
  BY <1>11, <1>12, GotAdds, Zenon DEF WireInv
<1>14. GivenOK'
  BY <1>10, <1>12, GotAdds, Zenon DEF WireInv, OrderInv
<1>15. GuestOrder(frames, g, y, Got[g], s, w) /\ Held(y) = Held(rd[g])
  BY <1>6, <1>8, GuestStage
<1>16. GuestOK(g)'
  BY <1>1, <1>5, <1>7, <1>13, <1>15, Zenon DEF GuestOK
<1>17. Reached(g)' \subseteq Reached(g)
  BY <1>5, <1>7, <1>13, <1>15, Zenon DEF Reached
<1>18. \A h \in Guests : Picked(Upstream(h)', Upstream(h)) /\ Picked(Downstream(h)', Downstream(h))
  BY <1>1, UpPicked, DownPicked DEF WireInv
<1>19. Short(rd'[g]) /\ rd'[Server] = rd[Server] /\ \A h \in Guests \ {g} : rd'[h] = rd[h]
  BY <1>2, <1>3 DEF Short, Reader
<1>. QED
  BY <1>1, <1>4, <1>13, <1>14, <1>16, <1>17, <1>18, <1>19, GuestSideStep DEF WireInv

\* A new connection has no bytes, and the thread of the guest is in no frame.
LEMMA ReconnectOrder ==
    ASSUME OrderInv, WireInv, StepInv, WireTypeOK', ~Overtake, NEW g \in Guests, Reconnect(g)
    PROVE  OrderInv'
<1>. USE WireAssumption
<1>1. /\ UNCHANGED <<frames, rd, src, to, dst, sending, given>>
      /\ ServerAt("idle") /\ out[g] = <<>>
      /\ connected' = [connected EXCEPT ![g] = TRUE]
      /\ up' = [up EXCEPT ![g] = <<>>] /\ down' = [down EXCEPT ![g] = <<>>]
  BY DEF Reconnect, server
<1>2. sending = <<>>
  BY <1>1 DEF StepInv, ServerShape, ServerAt
<1>3. /\ up'[g] = <<>> /\ \A h \in Guests \ {g} : up'[h] = up[h]
      /\ down'[g] = <<>> /\ \A h \in Guests \ {g} : down'[h] = down[h]
      /\ \A h \in Guests \ {g} : connected'[h] = connected[h]
  BY <1>1, Zenon DEF WireInv, WireTypeOK
<1>4. \A h \in Guests : out'[h] = out[h]
  <2>1. out' = [out EXCEPT ![g] = IF out[g] # <<>> /\ Head(out[g]).pos <= 1 THEN out[g] ELSE <<>>]
    BY Zenon DEF Reconnect
  <2>2. out' = [out EXCEPT ![g] = <<>>]
    BY <1>1, <2>1, Zenon
  <2>. QED
    BY <1>1, <2>2, Zenon DEF WireInv, WireTypeOK
<1>5. Got' = Got /\ GivenOK'
  BY <1>1, GotSame DEF OrderInv
<1>6. PICK t, w : t = Downstream(g)' /\ w = Serving(g)'
  OBVIOUS
<1>7. t = <<>> /\ Len(t) = 0
  <2>1. t = <<>> \o <<>>
    BY <1>1, <1>2, <1>3, <1>6, Zenon DEF Downstream
  <2>. QED
    BY <2>1
<1>8. GuestOrder(frames, g, rd[g], Got[g], Downstream(g), Serving(g))
  BY DEF OrderInv, GuestOK
<1>9. GuestOrder(frames, g, rd[g], Got[g], t, w) /\ FramesOf(t) = {}
  BY <1>7, <1>8, GuestEmpty
<1>10. GuestOK(g)'
  BY <1>1, <1>5, <1>6, <1>9, Zenon DEF GuestOK
<1>11. Reached(g)' \subseteq Reached(g)
  BY <1>1, <1>5, <1>6, <1>9, Zenon DEF Reached
<1>12. \A h \in Guests : Picked(Upstream(h)', Upstream(h))
  BY <1>3, <1>4, UpPicked DEF WireInv
<1>13. \A h \in Guests \ {g} : Picked(Downstream(h)', Downstream(h))
  BY <1>1, <1>3, DownPicked DEF WireInv
<1>14. Short(rd'[g])
  BY <1>1 DEF OrderInv, Reader
<1>. QED
  BY <1>1, <1>3, <1>5, <1>10, <1>11, <1>12, <1>13, <1>14, GuestSideStep DEF WireInv

\* A guest ends, and begins again with an empty buffer.
LEMMA GuestEndsOrder ==
    ASSUME OrderInv, WireInv, WireTypeOK', NEW g \in Guests, GuestEnds(g)
    PROVE  OrderInv'
<1>. USE WireAssumption
<1>1. /\ UNCHANGED <<frames, up, src, to, dst, sending, given>>
      /\ connected' = [connected EXCEPT ![g] = FALSE] /\ out' = [out EXCEPT ![g] = <<>>]
      /\ down' = [down EXCEPT ![g] = <<>>] /\ rd' = [rd EXCEPT ![g] = NewReader]
  BY DEF GuestEnds, server
<1>2. /\ ~connected'[g] /\ \A h \in Guests \ {g} : connected'[h] = connected[h]
      /\ out'[g] = <<>> /\ \A h \in Guests \ {g} : out'[h] = out[h]
      /\ down'[g] = <<>> /\ \A h \in Guests \ {g} : down'[h] = down[h]
  BY <1>1, Zenon DEF WireInv, WireTypeOK
<1>3. rd'[g] = NewReader /\ rd'[Server] = rd[Server] /\ \A h \in Guests \ {g} : rd'[h] = rd[h]
  BY <1>1 DEF WireInv, WireTypeOK, Reader
<1>4. Got' = Got /\ GivenOK'
  BY <1>1, GotSame DEF OrderInv
<1>5. \A h \in Guests : Picked(Upstream(h)', Upstream(h)) /\ Picked(Downstream(h)', Downstream(h))
  BY <1>1, <1>2, UpPicked, DownPicked DEF WireInv
<1>6. PICK s \in Seq(Byte), t \in Seq(Byte) : s = Downstream(g) /\ t = Downstream(g)'
  BY StreamType, NextStreamType DEF WireInv
<1>7. PICK w : w = Serving(g)'
  OBVIOUS
<1>8. ~w
  <2>1. rd'[g].at = "idle"
    BY <1>3 DEF NewReader
  <2>. QED
    BY <1>2, <1>7, <2>1, Zenon DEF Serving
<1>9. GuestOrder(frames, g, rd[g], Got[g], s, Serving(g)) /\ Picked(t, s)
  BY <1>5, <1>6 DEF OrderInv, GuestOK
<1>10. Sized(frames) /\ DOMAIN frames \subseteq Nat \ {0}
  BY FramesSized, FrameNumbers DEF WireInv
<1>11. /\ GuestOrder(frames, g, NewReader, Got[g], t, w)
       /\ Held(NewReader) = {} /\ FramesOf(t) \subseteq FramesOf(s)
  BY <1>8, <1>9, <1>10, GuestFresh
<1>12. GuestOK(g)'
  BY <1>1, <1>3, <1>4, <1>6, <1>7, <1>11, Zenon DEF GuestOK
<1>13. Reached(g)' \subseteq Reached(g)
  BY <1>3, <1>4, <1>6, <1>11, Zenon DEF Reached
<1>14. Short(rd'[g])
  BY <1>3 DEF Short, NewReader
<1>. QED
  BY <1>1, <1>2, <1>3, <1>4, <1>5, <1>12, <1>13, <1>14, GuestSideStep DEF WireInv

\* The frames E are the frames F, and behind them one more, number n.
OneMore(F, E, n) ==
    /\ n \in Nat \ {0} /\ DOMAIN F \subseteq Nat \ {0} /\ \A k \in DOMAIN F : k < n /\ E[k] = F[k]
    /\ DOMAIN E = DOMAIN F \cup {n}
    /\ Sized(E)

\* The order of what there is stays.
LEMMA LaterOrdered ==
    ASSUME NEW F, NEW E, NEW n, OneMore(F, E, n), NEW s, Ordered(F, s)
    PROVE  Ordered(E, s) /\ FramesOf(s) \subseteq DOMAIN F
<1>1. \A i \in 1..Len(s) : s[i].frame \in DOMAIN F /\ Valid(F, s[i])
  BY DEF Ordered, Valid
<1>2. \A i \in 1..Len(s) : E[s[i].frame] = F[s[i].frame] /\ Valid(E, s[i])
  BY <1>1 DEF OneMore, Valid
<1>3. \A i, j \in 1..Len(s) : i < j => Before(E, s[i], s[j])
  BY <1>2 DEF Ordered, Before
<1>4. FramesOf(s) \subseteq DOMAIN F
  BY <1>1 DEF FramesOf
<1>. QED
  BY <1>2, <1>3, <1>4 DEF Ordered

\* The same for two frames.
LEMMA LaterAbove ==
    ASSUME NEW F, NEW E, NEW n, OneMore(F, E, n), NEW j \in DOMAIN F, NEW k \in DOMAIN F, Above(F, k, j)
    PROVE  Above(E, k, j)
  BY DEF OneMore, Above

\* What a guest has had and will have stays in order.
LEMMA LaterGuest ==
    ASSUME NEW F, NEW E, NEW n, OneMore(F, E, n), NEW g, NEW G, NEW v, NEW s, NEW x \in Reading,
           BufferOK(x), Holds(F, x), GuestOrder(F, g, x, G, s, v)
    PROVE  GuestOrder(E, g, x, G, s, v)
<1>. USE WireAssumption
<1>1. DOMAIN F \subseteq Nat \ {0} /\ DOMAIN E = DOMAIN F \cup {n} /\ n \notin DOMAIN F
  BY DEF OneMore
<1>2. Ordered(E, s) /\ FramesOf(s) \subseteq DOMAIN F
  BY LaterOrdered DEF GuestOrder
<1>3. \A j \in 1..Len(s) : s[j].frame \in DOMAIN F /\ E[s[j].frame] = F[s[j].frame]
  BY <1>2 DEF FramesOf, OneMore
<1>4. Stale(x) \subseteq Held(x) /\ Held(x) \cup G \subseteq DOMAIN F
  BY DEF Stale, Held, GuestOrder
<1>5. InFrame(x) => x.Buffer[1].frame \in DOMAIN F /\ x.Buffer[x.pos].frame = x.Buffer[1].frame
  BY <1>1, LastRead
<1>6. InFrame(x) => /\ E[x.Buffer[1].frame].from # g
                    /\ \A k \in Stale(x) \cup G : Above(E, x.Buffer[1].frame, k)
  <2>. SUFFICES ASSUME InFrame(x)
                PROVE  /\ E[x.Buffer[1].frame].from # g
                       /\ \A k \in Stale(x) \cup G : Above(E, x.Buffer[1].frame, k)
    OBVIOUS
  <2>1. E[x.Buffer[1].frame] = F[x.Buffer[1].frame] /\ F[x.Buffer[1].frame].from # g
    BY <1>5 DEF OneMore, GuestOrder
  <2>2. ASSUME NEW k \in Stale(x) \cup G PROVE Above(E, x.Buffer[1].frame, k)
    <3>1. Above(F, x.Buffer[1].frame, k) /\ k \in DOMAIN F
      BY <1>4 DEF GuestOrder
    <3>. QED
      BY <1>5, <3>1, LaterAbove
  <2>. QED
    BY <2>1, <2>2
<1>7. InFrame(x) => \A j \in 1..Len(s) : Before(E, x.Buffer[x.pos], s[j])
  BY <1>3, <1>5 DEF OneMore, GuestOrder, Before
<1>8. v => \A j \in 1..Len(s) : \A k \in Stale(x) \cup G : Above(E, s[j].frame, k)
  <2>. SUFFICES ASSUME v, NEW j \in 1..Len(s), NEW k \in Stale(x) \cup G PROVE Above(E, s[j].frame, k)
    OBVIOUS
  <2>1. Above(F, s[j].frame, k) /\ k \in DOMAIN F
    BY <1>4 DEF GuestOrder
  <2>. QED
    BY <1>3, <2>1, LaterAbove
<1>9. ASSUME ~InFrame(x), NEW k \in DOMAIN E, IsWhole(E, x.Buffer, k) PROVE k \in G
  <2>1. CASE k \in DOMAIN F
    <3>1. E[k] = F[k]
      BY <2>1 DEF OneMore
    <3>2. IsWhole(F, x.Buffer, k)
      BY <1>9, <3>1 DEF IsWhole
    <3>. QED
      BY <1>9, <2>1, <3>2 DEF GuestOrder
  <2>2. CASE k = n
    <3>1. x.Buffer[1].frame = n
      BY <1>9, <2>2, WholeFirst DEF OneMore
    <3>2. E[k].len \in Nat /\ E[k].len >= HeaderSize /\ E[k].len <= Len(x.Buffer)
      BY <1>9 DEF OneMore, Sized, IsWhole
    <3>3. 1 \in 1..Len(x.Buffer) /\ n # 0
      BY <3>2, ReadingType DEF OneMore
    <3>4. n \in Held(x)
      BY <3>1, <3>3 DEF Held
    <3>. QED
      BY <1>1, <1>4, <3>4
  <2>. QED
    BY <1>1, <2>1, <2>2
<1>. QED
  BY <1>1, <1>2, <1>3, <1>4, <1>6, <1>7, <1>8, <1>9 DEF GuestOrder

\* What a guest sends stays in order.
LEMMA LaterSend ==
    ASSUME NEW F, NEW E, NEW n, OneMore(F, E, n), NEW h, NEW s, NEW R, NEW y \in Reading,
           BufferOK(y), Holds(F, y), SendOrder(F, h, y, s, R), R \subseteq DOMAIN F
    PROVE  SendOrder(E, h, y, s, R)
<1>1. DOMAIN F \subseteq Nat \ {0}
  BY DEF OneMore
<1>2. Ordered(E, s) /\ FramesOf(s) \subseteq DOMAIN F
  BY LaterOrdered DEF SendOrder
<1>3. \A j \in 1..Len(s) : s[j].frame \in DOMAIN F /\ E[s[j].frame] = F[s[j].frame]
  BY <1>2 DEF FramesOf, OneMore
<1>4. InFrame(y) => /\ y.Buffer[1].frame \in DOMAIN F /\ y.Buffer[y.pos].frame = y.Buffer[1].frame
                    /\ E[y.Buffer[1].frame] = F[y.Buffer[1].frame]
  BY <1>1, LastRead DEF OneMore
<1>5. ASSUME NEW j \in 1..Len(s), NEW k \in R PROVE Above(E, s[j].frame, k)
  <2>1. Above(F, s[j].frame, k) /\ k \in DOMAIN F
    BY DEF SendOrder
  <2>. QED
    BY <1>3, <2>1, LaterAbove
<1>6. InFrame(y) => \A j \in 1..Len(s) : Before(E, y.Buffer[y.pos], s[j])
  BY <1>3, <1>4 DEF SendOrder, Before
<1>. QED
  BY <1>2, <1>3, <1>4, <1>5, <1>6 DEF SendOrder

\* The bytes of the new frame behind those of the guest.
LEMMA SendJoined ==
    ASSUME NEW E, NEW n \in DOMAIN E, DOMAIN E \subseteq Nat \ {0}, NEW h, NEW s \in Seq(Byte), NEW R,
           NEW y \in Reading, NEW f \in Seq(Byte),
           SendOrder(E, h, y, s, R), E[n].from = h, OneFrame(E, f, n),
           \A k \in FramesOf(s) \cup R : k < n, InFrame(y) => y.Buffer[y.pos].frame < n
    PROVE  SendOrder(E, h, y, s \o f, R)
<1>0. PICK e : e = s \o f
  OBVIOUS
<1>1. Ordered(E, e) /\ Extends(e, s, n)
  <2>1. Ordered(E, s) /\ \A k \in FramesOf(s) : Above(E, n, k)
    BY DEF SendOrder, Above
  <2>. QED
    BY <1>0, <2>1, OrderedJoined
<1>2. \A j \in 1..Len(e) : (\E i \in 1..Len(s) : e[j] = s[i]) \/ e[j].frame = n
  BY <1>1 DEF Extends
<1>3. \A k \in R : Above(E, n, k)
  BY DEF Above
<1>4. \A j \in 1..Len(e) : E[e[j].frame].from = h /\ \A k \in R : Above(E, e[j].frame, k)
  BY <1>2, <1>3 DEF SendOrder
<1>5. InFrame(y) => \A j \in 1..Len(e) : Before(E, y.Buffer[y.pos], e[j])
  BY <1>2 DEF SendOrder, Before
<1>6. InFrame(y) => E[y.Buffer[1].frame].from = h
  BY DEF SendOrder
<1>. QED
  BY <1>0, <1>1, <1>4, <1>5, <1>6 DEF SendOrder

\* All frames that have come anywhere were transmitted.
LEMMA ReachedKnown ==
    ASSUME OrderInv, NEW g \in Guests
    PROVE  Reached(g) \subseteq DOMAIN frames
<1>1. GuestOrder(frames, g, rd[g], Got[g], Downstream(g), Serving(g))
  BY DEF OrderInv, GuestOK
<1>2. FramesOf(Downstream(g)) \subseteq DOMAIN frames
  BY <1>1 DEF GuestOrder, Ordered, Valid, FramesOf
<1>. QED
  BY <1>1, <1>2 DEF GuestOrder, Reached

\* A new frame is later than all others.
LEMMA TransmitOrder ==
    ASSUME OrderInv, WireInv, StepInv, WireTypeOK', NEW g \in Guests, NEW s \in Sizes, Transmit(g, s)
    PROVE  OrderInv'
<1>. USE WireAssumption
<1>1. /\ UNCHANGED <<connected, conn, up, down, rd, src, to, dst, sending, given>>
      /\ out[g] = <<>> /\ Len(frames) < MaxFrames
      /\ frames' = Append(frames, [from |-> g, len |-> s])
      /\ out' = [out EXCEPT ![g] = Power(Len(frames) + 1) \o Message(Len(frames) + 1, s)]
  BY DEF Transmit, server
<1>2. PICK n \in Nat \ {0} : n = Len(frames) + 1 /\ n \in 1..MaxFrames
  BY <1>1 DEF WireInv, WireTypeOK
<1>3. PICK E : E = frames'
  OBVIOUS
<1>4. OneMore(frames, E, n) /\ E[n].from = g /\ E[n].len = s /\ DOMAIN E \subseteq Nat \ {0}
  <2>1. PICK e \in [from : Guests, len : Sizes] : e = [from |-> g, len |-> s] /\ e.len = s /\ e.from = g
    <3>1. /\ [from |-> g, len |-> s] \in [from : Guests, len : Sizes]
          /\ [from |-> g, len |-> s].len = s /\ [from |-> g, len |-> s].from = g
      OBVIOUS
    <3>. QED
      BY <3>1, Zenon
  <2>2. frames \in Seq([from : Guests, len : Sizes]) /\ E = Append(frames, e)
    BY <1>1, <1>3, <2>1 DEF WireInv, WireTypeOK
  <2>3. /\ E \in Seq([from : Guests, len : Sizes]) /\ Len(E) = Len(frames) + 1
        /\ \A j \in 1..Len(frames) : E[j] = frames[j]
        /\ E[Len(frames) + 1] = e
    BY <2>2, AppendProperties
  <2>4. DOMAIN frames = 1..Len(frames) /\ DOMAIN E = 1..Len(E) /\ Len(frames) \in Nat
    BY <2>2, <2>3
  <2>5. /\ DOMAIN E = DOMAIN frames \cup {n} /\ E[n] = e /\ DOMAIN frames \subseteq Nat \ {0}
        /\ \A j \in DOMAIN frames : j < n /\ E[j] = frames[j]
    BY <1>2, <2>3, <2>4
  <2>6. Sized(E)
    <3>1. Sized(frames) /\ s \in Nat /\ HeaderSize <= s
      BY FramesSized DEF WireInv
    <3>. QED
      BY <2>1, <2>5, <3>1 DEF Sized
  <2>. QED
    BY <2>1, <2>5, <2>6 DEF OneMore
<1>5. PICK f \in Seq(Byte) : f = Power(n) \o Message(n, s) /\ OneFrame(E, f, n)
  <2>0. PICK m : m = Message(n, s)
    OBVIOUS
  <2>1. /\ m \in Seq(Byte) /\ Len(m) = s /\ Power(n) \in Seq(Byte)
        /\ \A i \in 1..s : m[i] = [frame |-> n, pos |-> i]
    BY <1>2, <2>0, FrameBytes, ZenonT(40)
  <2>2. Len(m) = E[n].len /\ \A i \in 1..Len(m) : m[i].frame = n /\ m[i].pos = i
    BY <1>4, <2>1, SMTT(30)
  <2>3. OneFrame(E, Power(n) \o m, n)
    BY <1>2, <2>1, <2>2, OneByOne
  <2>4. Power(n) \o m \in Seq(Byte)
    BY <2>1, Joined
  <2>. QED
    BY <2>0, <2>3, <2>4
<1>6. out'[g] = f /\ \A h \in Guests \ {g} : out'[h] = out[h]
  <2>1. out' = [out EXCEPT ![g] = f] /\ out \in [Guests -> Seq(Byte)]
    BY <1>1, <1>2, <1>5, Zenon DEF WireInv, WireTypeOK
  <2>. QED
    BY <2>1, Zenon
<1>7. Got' = Got /\ GivenOK'
  BY <1>1, GotSame DEF OrderInv
<1>8. ASSUME NEW r \in Reader PROVE rd[r] \in Reading /\ BufferOK(rd[r]) /\ Holds(frames, rd[r])
  BY DEF WireInv, WireTypeOK, BuffersOK, StepInv, BuffersHold
<1>9. \A h \in Guests : Downstream(h)' = Downstream(h) /\ Serving(h)' = Serving(h)
  BY <1>1 DEF Downstream, Serving
<1>10. \A h \in Guests : Reached(h)' = Reached(h)
  BY <1>1, <1>7, <1>9, Zenon DEF Reached
<1>11. ASSUME NEW h \in Guests PROVE GuestOK(h)'
  <2>1. rd[h] \in Reading /\ BufferOK(rd[h]) /\ Holds(frames, rd[h])
    BY <1>8 DEF Reader
  <2>2. GuestOrder(frames, h, rd[h], Got[h], Downstream(h), Serving(h))
    BY DEF OrderInv, GuestOK
  <2>3. GuestOrder(E, h, rd[h], Got[h], Downstream(h), Serving(h))
    BY <1>4, <2>1, <2>2, LaterGuest
  <2>. QED
    BY <1>1, <1>3, <1>7, <1>9, <2>3, Zenon DEF GuestOK
<1>12. Everything' = Everything /\ Everything \subseteq DOMAIN frames
  BY <1>10, ReachedKnown, Zenon DEF Everything
<1>13. ASSUME NEW h \in Guests PROVE SendOK(h)'
  <2>1. PICK y : y = UpReader(h) /\ y = UpReader(h)'
    BY <1>1 DEF UpReader
  <2>2. y \in Reading /\ BufferOK(y) /\ Holds(frames, y)
    <3>1. NewReader \in Reading /\ BufferOK(NewReader)
      BY NewReaderOK
    <3>2. Holds(frames, NewReader)
      BY NewNotMid
    <3>. QED
      BY <1>8, <2>1, <3>1, <3>2 DEF UpReader, Reader
  <2>3. PICK a \in Seq(Byte) : a = Upstream(h)
    BY StreamType DEF WireInv
  <2>4. SendOrder(frames, h, y, a, Everything)
    BY <2>1, <2>3 DEF OrderInv, SendOK
  <2>5. SendOrder(E, h, y, a, Everything)
    BY <1>4, <1>12, <2>2, <2>4, LaterSend
  <2>6. CASE h # g
    <3>1. Upstream(h)' = a
      BY <1>1, <1>6, <2>3, <2>6 DEF Upstream
    <3>. QED
      BY <1>3, <1>12, <2>1, <2>5, <3>1, Zenon DEF SendOK
  <2>7. CASE h = g
    <3>1. PICK b \in Seq(Byte) : b = up[g]
      BY StreamType DEF WireInv
    <3>2. Upstream(h)' = b \o f /\ Upstream(h) = b \o <<>>
      BY <1>1, <1>6, <2>7, <3>1, Zenon DEF Upstream
    <3>3. a = b
      BY <2>3, <3>2, WithNothing
    <3>4. FramesOf(a) \subseteq DOMAIN frames
      BY <1>4, <2>4, LaterOrdered DEF SendOrder
    <3>5. \A k \in FramesOf(a) \cup Everything : k < n
      BY <1>4, <1>12, <3>4 DEF OneMore
    <3>6. InFrame(y) => y.Buffer[y.pos].frame < n
      <4>1. DOMAIN frames \subseteq Nat \ {0}
        BY <1>4 DEF OneMore
      <4>2. InFrame(y) => y.Buffer[y.pos].frame \in DOMAIN frames
        BY <2>2, <4>1, LastRead
      <4>. QED
        BY <1>4, <4>2 DEF OneMore
    <3>7. n \in DOMAIN E /\ E[n].from = h
      BY <1>4, <2>7 DEF OneMore
    <3>8. SendOrder(E, h, y, a \o f, Everything)
      BY <1>4, <1>5, <2>2, <2>5, <3>5, <3>6, <3>7, SendJoined
    <3>. QED
      BY <1>3, <1>12, <2>1, <3>2, <3>3, <3>8, Zenon DEF SendOK
  <2>. QED
    BY <2>6, <2>7
<1>14. ServerOrder'
  <2>. SUFFICES ASSUME InFrame(rd[Server]), NEW h \in Guests, h # src, ServerAt("send") => h \in to,
                       NEW k \in Reached(h)
                PROVE  Above(E, rd[Server].Buffer[1].frame, k)
    BY <1>1, <1>3, <1>10 DEF ServerOrder, ServerAt
  <2>1. Above(frames, rd[Server].Buffer[1].frame, k)
    BY DEF OrderInv, ServerOrder
  <2>2. rd[Server].Buffer[1].frame \in DOMAIN frames
    BY <1>8 DEF Reader, Holds, InFrame
  <2>3. k \in DOMAIN frames
    BY ReachedKnown
  <2>. QED
    BY <1>4, <2>1, <2>2, <2>3, LaterAbove
<1>15. \A r \in Reader : Short(rd'[r])
  BY <1>1 DEF OrderInv
<1>. QED
  BY <1>7, <1>11, <1>13, <1>14, <1>15, Zenon DEF OrderInv

\* In the beginning nothing was transmitted.
LEMMA InitOrder == Init => OrderInv
<1>. SUFFICES ASSUME Init PROVE OrderInv
  OBVIOUS
<1>. USE WireAssumption
<1>1. \A r \in Reader : rd[r] = NewReader
  BY DEF Init
<1>2. frames = <<>> /\ DOMAIN frames = {}
  BY DEF Init
<1>3. PICK e : e = <<>> /\ 1..Len(e) = {} /\ e \o e = e
  <2>1. 1..Len(<<>>) = {} /\ <<>> \o <<>> = <<>>
    BY WithNothing, EmptySeq
  <2>. QED
    BY <2>1, Zenon
<1>4. ~InFrame(NewReader) /\ Short(NewReader)
  BY DEF InFrame, Short, NewReader
<1>5. Held(NewReader) = {}
  <2>1. PICK b : b = CDynBuffer
    OBVIOUS
  <2>2. Len(b) = DEFAULT_SIZE_BUFFER /\ \A i \in 1..DEFAULT_SIZE_BUFFER : b[i] = Junk
    BY <2>1 DEF CDynBuffer
  <2>3. \A i \in 1..Len(b) : b[i].frame = 0
    BY <2>2 DEF Junk
  <2>4. NewReader.Buffer = b
    BY <2>1 DEF NewReader
  <2>. QED
    BY <2>3, <2>4 DEF Held
<1>6. \A g \in Guests : given[g] = {} /\ Got[g] = {}
  BY DEF Init, Got
<1>7. \A g \in Guests : Upstream(g) = e /\ Downstream(g) = e
  BY <1>3, Zenon DEF Init, Upstream, Downstream
<1>8. ASSUME NEW g \in Guests PROVE GuestOK(g) /\ SendOK(g)
  <2>1. rd[g] = NewReader /\ UpReader(g) = NewReader
    BY <1>1 DEF Init, UpReader, Reader
  <2>2. Ordered(frames, e)
    BY <1>3 DEF Ordered
  <2>3. GuestOrder(frames, g, NewReader, {}, e, Serving(g))
    BY <1>2, <1>3, <1>4, <1>5, <2>2 DEF GuestOrder
  <2>4. SendOrder(frames, g, NewReader, e, Everything)
    BY <1>3, <1>4, <2>2 DEF SendOrder
  <2>. QED
    BY <1>6, <1>7, <2>1, <2>3, <2>4, Zenon DEF GuestOK, SendOK
<1>9. ServerOrder
  BY <1>1, <1>4 DEF ServerOrder, Reader
<1>10. GivenOK
  BY <1>6 DEF GivenOK
<1>. QED
  BY <1>1, <1>4, <1>8, <1>9, <1>10, Zenon DEF OrderInv

\* Every step keeps the order.
LEMMA NextOrder ==
    ASSUME ~Overtake, OrderInv, WireInv, StepInv, WireTypeOK', [Next]_vars
    PROVE  OrderInv'
<1>1. CASE ServerStep
  BY <1>1, SelectsOrder, LosesOrder, BeginsOrder, ServerReadsOrder, RemovesOrder, ForwardsOrder,
     SendsOrder, SendFailsOrder, ForwardedOrder, Zenon DEF ServerStep
<1>2. CASE ServerEnds
  BY <1>2, ServerEndsOrder
<1>3. ASSUME NEW g \in Guests, GuestStep(g) PROVE OrderInv'
  BY <1>3, TransmitOrder, GuestSendsOrder, GuestSendFailsOrder, WakesOrder, GuestReadsOrder,
     HandsOnOrder, ReadFailedOrder, ReconnectOrder, GuestEndsOrder, Zenon DEF GuestStep
<1>4. CASE UNCHANGED vars
  <2>1. UNCHANGED <<frames, out, connected, up, down, rd, src, to, dst, sending, given>>
    BY <1>4 DEF vars, server
  <2>2. ServerGoesOn /\ Short(rd'[Server])
    BY <2>1 DEF ServerGoesOn, OrderInv, Reader
  <2>3. \A h \in Guests : Picked(Downstream(h)', Downstream(h)) /\ Picked(Upstream(h)', Upstream(h))
    BY <2>1, DownPicked, UpPicked DEF WireInv
  <2>. QED
    BY <2>1, <2>2, <2>3, ServerSideStep DEF WireInv
<1>. QED
  BY <1>1, <1>2, <1>3, <1>4 DEF Next

\* The order of the frames is kept on the whole way: from the sender, through the buffer
\* of the server, to every guest, in frames that are whole or are lost.
THEOREM FramesStayInOrder ==
    ASSUME ~Overtake
    PROVE  Spec => [](WireInv /\ StepInv /\ OrderInv)
<1>1. Spec => [](WireInv /\ StepInv)
  BY WireStaysInStep
<1>2. WireInv' => WireTypeOK'
  BY DEF WireInv
<1>3. (WireInv /\ StepInv) /\ WireInv' /\ OrderInv /\ [Next]_vars => OrderInv'
  BY <1>2, NextOrder
<1>. QED
  BY <1>1, <1>3, InitOrder, PTL DEF Spec

\* What recv_from_server does behind manage_server_crash, with the buffer of a read that
\* has failed, is harmless: no frame is given that was not given before.
THEOREM FailedReadsAddNothing ==
    ASSUME ~Overtake
    PROVE  Spec => []FailedReadAddsNothing
<1>1. WireInv /\ StepInv /\ OrderInv => FailedReadAddsNothing
  <2>. SUFFICES ASSUME WireInv, OrderInv, NEW g \in Guests, NEW x \in given[g], ~x.read, x.frame # 0
                PROVE  [x EXCEPT !.read = TRUE] \in given[g]
    BY Zenon DEF FailedReadAddsNothing
  <2>1. x.frame \in Got[g]
    BY Zenon DEF OrderInv, GivenOK
  <2>2. PICK y \in given[g] : y.read /\ y.frame = x.frame
    BY <2>1, Zenon DEF Got
  <2>3. x \in [frame : 0..MaxFrames, read : BOOLEAN] /\ y \in [frame : 0..MaxFrames, read : BOOLEAN]
    BY Zenon DEF WireInv, WireTypeOK
  <2>4. [x EXCEPT !.read = TRUE] = y
    BY <2>2, <2>3
  <2>. QED
    BY <2>4
<1>. QED
  BY <1>1, FramesStayInOrder, PTL

-----------------------------------------------------------------------------
(***************************************************************************)
(* The sockets implement the medium                                        *)
(***************************************************************************)

\* The medium has carried nothing.
LEMMA InitMedium == Init => Medium!Init
<1>. SUFFICES ASSUME Init PROVE Medium!Init
  OBVIOUS
<1>1. Got = [g \in Guests |-> {}]
  BY DEF Init, Got
<1>. QED
  BY <1>1 DEF Init, Medium!Init

\* A guest that hands on a frame receives it.
LEMMA HandsOnReceives ==
    ASSUME OrderInv, WireInv, StepInv, NEW g \in Guests, GuestHandsOn(g)
    PROVE  \E k \in DOMAIN frames : Medium!Receive(g, k)
<1>. USE WireAssumption
<1>0. PICK c : c = rd[g].Buffer[1].frame
  OBVIOUS
<1>1. rd[g].at = "done" /\ frames' = frames
  BY DEF GuestHandsOn
<1>2. /\ ReadWhole(frames, rd[g], c)
      /\ FrameIn(SubSeq(rd[g].Buffer, 1, rd[g].total)) = c
      /\ rd[g].total = frames[c].len
  BY <1>0, <1>1, ReadFrame
<1>3. InFrame(rd[g]) /\ c \in DOMAIN frames
  BY <1>2 DEF ReadWhole
<1>4. /\ frames[c].from # g
      /\ \A j \in Got[g] : frames[j].from = frames[c].from => j < c
  <2>1. frames[c].from # g /\ \A j \in Stale(rd[g]) \cup Got[g] : Above(frames, c, j)
    BY <1>0, <1>3 DEF OrderInv, GuestOK, GuestOrder
  <2>. QED
    BY <2>1 DEF Above
<1>5. frames[c].len <= MTU
  BY <1>1, <1>2 DEF OrderInv, Short, Reader
<1>6. Got' = [Got EXCEPT ![g] = Got[g] \cup {c}]
  <2>1. PICK b \in BOOLEAN : b
    OBVIOUS
  <2>2. given' = [given EXCEPT ![g] = given[g] \cup {[frame |-> c, read |-> b]}]
    BY <1>2, <2>1, Zenon DEF GuestHandsOn
  <2>3. Got'[g] = Got[g] \cup {c} /\ \A h \in Guests \ {g} : Got'[h] = Got[h]
    BY <2>1, <2>2, GotAdds, Zenon DEF WireInv
  <2>4. Got' = [h \in Guests |-> Got'[h]] /\ Got = [h \in Guests |-> Got[h]]
    BY Zenon DEF Got
  <2>. QED
    BY <2>3, <2>4
<1>7. Medium!Receive(g, c)
  BY <1>1, <1>4, <1>5, <1>6, Zenon DEF Medium!Receive
<1>. QED
  BY <1>3, <1>7

\* Every other step but Transmit is none of the medium.
LEMMA NextMedium ==
    ASSUME OrderInv, WireInv, StepInv, [Next]_vars
    PROVE  [Medium!Next]_<<frames, Got>>
<1>1. ASSUME UNCHANGED <<frames, given>> PROVE UNCHANGED <<frames, Got>>
  BY <1>1, GotSame
<1>2. ASSUME NEW r \in Reader, RecvSignal(r) PROVE UNCHANGED <<frames, given>>
  BY <1>2 DEF RecvSignal, ReadPower, ReadSome, ReadHeader, ReadDone, ReadFails
<1>3. CASE ServerStep
  <2>1. Server \in Reader
    BY DEF Reader
  <2>2. UNCHANGED <<frames, given>>
    BY <1>2, <1>3, <2>1, Zenon DEF ServerStep, ServerSelects, ServerLoses, ServerBegins,
       ServerRemoves, ServerForwards, ServerSends, ServerSendFails, ServerForwarded
  <2>. QED
    BY <1>1, <2>2
<1>4. CASE ServerEnds
  BY <1>1, <1>4 DEF ServerEnds
<1>5. ASSUME NEW g \in Guests, GuestStep(g) PROVE [Medium!Next]_<<frames, Got>>
  <2>1. ASSUME NEW s \in Sizes, Transmit(g, s) PROVE Medium!Next
    <3>1. Medium!Transmit(g)
      BY <2>1, GotSame, Zenon DEF Transmit, Medium!Transmit
    <3>. QED
      BY <3>1 DEF Medium!Next
  <2>2. CASE GuestHandsOn(g)
    BY <2>2, HandsOnReceives DEF Medium!Next
  <2>3. CASE GuestReadFailed(g)
    <3>0. PICK f : f = FrameIn(rd[g].Buffer)
      OBVIOUS
    <3>1. PICK b \in BOOLEAN : ~b
      OBVIOUS
    <3>2. given' = [given EXCEPT ![g] = given[g] \cup {[frame |-> f, read |-> b]}] /\ frames' = frames
      BY <2>3, <3>0, <3>1, Zenon DEF GuestReadFailed
    <3>3. \A h \in Guests : Got'[h] = Got[h]
      BY <3>1, <3>2, GotAdds, Zenon DEF WireInv
    <3>4. Got' = [h \in Guests |-> Got'[h]] /\ Got = [h \in Guests |-> Got[h]]
      BY Zenon DEF Got
    <3>. QED
      BY <3>2, <3>3, <3>4
  <2>4. CASE \/ \E n \in 1..Len(out[g]) : GuestSends(g, n)
             \/ GuestSendFails(g) \/ GuestWakes(g) \/ RecvSignal(g) \/ Reconnect(g) \/ GuestEnds(g)
    <3>1. g \in Reader
      BY DEF Reader
    <3>2. UNCHANGED <<frames, given>>
      BY <1>2, <2>4, <3>1, Zenon DEF GuestSends, GuestSendFails, GuestWakes, Reconnect, GuestEnds
    <3>. QED
      BY <1>1, <3>2
  <2>. QED
    BY <1>5, <2>1, <2>2, <2>3, <2>4 DEF GuestStep
<1>6. CASE UNCHANGED vars
  BY <1>1, <1>6 DEF vars
<1>. QED
  BY <1>3, <1>4, <1>5, <1>6 DEF Next

\* The sockets, the buffers and the two ends of RecvSignalWithSocket are, together, a
\* medium that carries whole frames: a guest is given only frames of other guests, of no
\* more than MTU bytes, each once and in the order of their sender, whatever the reads,
\* the sends, the timeouts and the ends of the processes cut.
THEOREM SocketsImplementMedium ==
    ASSUME ~Overtake
    PROVE  Spec => ImplementsMedium
<1>1. OrderInv /\ WireInv /\ StepInv /\ [Next]_vars => [Medium!Next]_<<frames, Got>>
  BY NextMedium
<1>. QED
  BY <1>1, InitMedium, FramesStayInOrder, PTL DEF Spec, ImplementsMedium, Medium!Spec

=============================================================================
