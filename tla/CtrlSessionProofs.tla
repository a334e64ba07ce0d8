------------------------- MODULE CtrlSessionProofs -------------------------
(***************************************************************************)
(* Theorems about CtrlSession, for every set of requests, lists of any     *)
(* length and names of any size.                                           *)
(*                                                                         *)
(* The connection is a stream of bytes without any mark between fields.    *)
(* Both halves of the argument say which fields of a message are still to  *)
(* be read, and that they are the bytes on their way followed by the       *)
(* fields still to be sent (Carries).  A recv() that asks for the width of *)
(* the first of them then returns that field and leaves the others         *)
(* (RecvField), so everything comes down to both programs agreeing on the  *)
(* widths and the order of the fields: OrderInv says so for the request,   *)
(* AnswerInv for the answer.                                               *)
(*                                                                         *)
(* FlattenSeq, by which CtrlSession joins the fields of the entries, is    *)
(* defined in the community modules by a recursive function; the lemmas    *)
(* about it are proved by looking at the smallest place where they would   *)
(* fail.                                                                   *)
(***************************************************************************)
EXTENDS CtrlSession, SequenceTheorems, NaturalsInduction, WellFoundedInduction, TLAPS

-----------------------------------------------------------------------------
(***************************************************************************)
(* Sequences of sequences: what FlattenSeq returns                         *)
(***************************************************************************)

\* f[i] is the first i of the sequences s, one after the other.
Sums(f, s, n, T) ==
    /\ f \in [1..n -> Seq(T)]
    /\ \A i \in 1..n : f[i] = IF i = 1 THEN s[i] ELSE f[i - 1] \o s[i]

\* The function FlattenSeq takes its last value from.
Flat(s) == CHOOSE f : f = [i \in 1..Len(s) |-> IF i = 1 THEN s[i] ELSE f[i - 1] \o s[i]]

\* A set of numbers that is not empty has a smallest one.
LEMMA SmallestOf ==
    ASSUME NEW Off, Off \subseteq Nat, Off # {}
    PROVE  \E m \in Off : \A j \in Nat : j < m => j \notin Off
<1>1. IsWellFoundedOn(OpToRel(<, Nat), Nat)
  BY NatLessThanWellFounded
<1>2. PICK m \in Off : \A j \in Off : ~(<<j, m>> \in OpToRel(<, Nat))
  BY <1>1, WFMin
<1>. QED
  BY <1>2 DEF OpToRel

\* What FlattenSeq returns, without the names its definition uses inside.
LEMMA FlattenIsFlat ==
    ASSUME NEW s, Len(s) # 0
    PROVE  FlattenSeq(s) = Flat(s)[Len(s)]
  BY DEF FlattenSeq, Flat

\* The sums of a sequence of sequences exist, as far as it goes.
LEMMA SumsExist ==
    ASSUME NEW T, NEW s \in Seq(Seq(T)), NEW n \in 1..Len(s)
    PROVE  \E f : Sums(f, s, n, T)
<1>. DEFINE Off == {k \in Nat : k \in 1..Len(s) /\ ~\E f : Sums(f, s, k, T)}
<1>1. ASSUME Off # {} PROVE FALSE
  <2>1. PICK m \in Off : \A j \in Nat : j < m => j \notin Off
    BY <1>1, SmallestOf
  <2>0. Len(s) \in Nat /\ m \in Nat /\ m >= 1 /\ m <= Len(s) /\ s[m] \in Seq(T) /\ s[1] \in Seq(T)
    BY <2>1
  <2>2. CASE m = 1
    <3>1. PICK f : f = [i \in 1..1 |-> s[1]]
      OBVIOUS
    <3>2. Sums(f, s, 1, T)
      BY <2>0, <3>1 DEF Sums
    <3>. QED
      BY <2>1, <2>2, <3>2
  <2>3. CASE m > 1
    <3>1. m - 1 \in Nat /\ m - 1 \in 1..Len(s) /\ m - 1 < m
      BY <2>0, <2>3
    <3>2. PICK g : Sums(g, s, m - 1, T)
      BY <2>1, <3>1
    <3>3. PICK f : f = [i \in 1..m |-> IF i = m THEN g[m - 1] \o s[m] ELSE g[i]]
      OBVIOUS
    <3>4. g[m - 1] \in Seq(T) /\ g \in [1..(m - 1) -> Seq(T)]
      BY <3>1, <3>2, <2>0 DEF Sums
    <3>5. g[m - 1] \o s[m] \in Seq(T)
      BY <3>4, <2>0, ConcatProperties
    <3>6. f \in [1..m -> Seq(T)]
      <4>1. \A i \in 1..m : i # m => i \in 1..(m - 1)
        BY <2>0
      <4>. QED
        BY <3>3, <3>4, <3>5, <4>1
    <3>7. ASSUME NEW i \in 1..m PROVE f[i] = IF i = 1 THEN s[i] ELSE f[i - 1] \o s[i]
      <4>1. CASE i = m
        <5>1. PICK k : k = m - 1
          OBVIOUS
        <5>2. k \in 1..m /\ k # m /\ m \in 1..m
          BY <5>1, <2>0, <2>3
        <5>3. f[m] = g[k] \o s[m] /\ f[k] = g[k]
          BY <3>3, <5>1, <5>2
        <5>4. f[m] = f[m - 1] \o s[m]
          BY <5>1, <5>3
        <5>5. m # 1
          BY <2>3, <2>0
        <5>. QED
          BY <5>4, <5>5, <4>1, Zenon
      <4>2. CASE i # m
        <5>1. i \in 1..(m - 1) /\ f[i] = g[i] /\ (i # 1 => f[i - 1] = g[i - 1])
          BY <3>3, <4>2, <2>0, <2>3
        <5>2. g[i] = IF i = 1 THEN s[i] ELSE g[i - 1] \o s[i]
          BY <5>1, <3>2 DEF Sums
        <5>. QED
          BY <5>1, <5>2
      <4>. QED
        BY <4>1, <4>2
    <3>8. Sums(f, s, m, T)
      BY <3>6, <3>7 DEF Sums
    <3>. QED
      BY <2>1, <3>8
  <2>. QED
    BY <2>0, <2>2, <2>3
<1>. QED
  BY <1>1

\* The function of FlattenSeq is the one of the sums.
LEMMA FlatSums ==
    ASSUME NEW T, NEW s \in Seq(Seq(T)), Len(s) # 0
    PROVE  Sums(Flat(s), s, Len(s), T)
<1>0. Len(s) \in Nat /\ Len(s) \in 1..Len(s)
  OBVIOUS
<1>1. PICK g : Sums(g, s, Len(s), T)
  BY <1>0, SumsExist
<1>2. g = [i \in 1..Len(s) |-> IF i = 1 THEN s[i] ELSE g[i - 1] \o s[i]]
  BY <1>1 DEF Sums
<1>3. Flat(s) = [i \in 1..Len(s) |-> IF i = 1 THEN s[i] ELSE Flat(s)[i - 1] \o s[i]]
  BY <1>2, Zenon DEF Flat
<1>4. PICK f : f = Flat(s)
  OBVIOUS
<1>5. f = [i \in 1..Len(s) |-> IF i = 1 THEN s[i] ELSE f[i - 1] \o s[i]]
  BY <1>3, <1>4
<1>6. \A i \in 1..Len(s) : f[i] = IF i = 1 THEN s[i] ELSE f[i - 1] \o s[i]
  BY <1>5
<1>7. \A i \in 1..Len(s) : f[i] \in Seq(T)
  <2>. DEFINE Off == {k \in Nat : k \in 1..Len(s) /\ f[k] \notin Seq(T)}
  <2>1. ASSUME Off # {} PROVE FALSE
    <3>1. PICK m \in Off : \A j \in Nat : j < m => j \notin Off
      BY <2>1, SmallestOf
    <3>2. m \in 1..Len(s) /\ s[m] \in Seq(T) /\ f[m] \notin Seq(T)
      BY <3>1
    <3>3. CASE m = 1
      BY <3>2, <3>3, <1>6
    <3>4. CASE m # 1
      <4>1. m - 1 \in Nat /\ m - 1 < m /\ m - 1 \in 1..Len(s)
        BY <3>2, <3>4, <1>0
      <4>2. f[m - 1] \in Seq(T)
        BY <4>1, <3>1
      <4>3. f[m] = f[m - 1] \o s[m]
        BY <3>2, <3>4, <1>6
      <4>. QED
        BY <4>2, <4>3, <3>2, ConcatProperties
    <3>. QED
      BY <3>3, <3>4
  <2>. QED
    BY <2>1, SMTT(30)
<1>8. f \in [1..Len(s) -> Seq(T)]
  BY <1>5, <1>7
<1>. QED
  BY <1>6, <1>8, <1>4 DEF Sums

\* All of a sequence of sequences is again a sequence.
LEMMA FlattenType ==
    ASSUME NEW T, NEW s \in Seq(Seq(T))
    PROVE  FlattenSeq(s) \in Seq(T)
<1>1. CASE Len(s) = 0
  BY <1>1, EmptySeq DEF FlattenSeq
<1>2. CASE Len(s) # 0
  <2>1. Sums(Flat(s), s, Len(s), T) /\ Len(s) \in 1..Len(s)
    BY <1>2, FlatSums
  <2>2. Flat(s)[Len(s)] \in Seq(T)
    BY <2>1 DEF Sums
  <2>. QED
    BY <2>2, <1>2, FlattenIsFlat
<1>. QED
  BY <1>1, <1>2

\* Of no sequence at all nothing remains.
LEMMA FlattenEmpty == FlattenSeq(<<>>) = <<>>
  BY DEF FlattenSeq

\* t holds s behind its first d sequences.
Shifted(s, t, d) == Len(s) + d <= Len(t) /\ \A i \in 1..Len(s) : t[i + d] = s[i]

\* g holds, d places later, what f holds, behind a.
Agrees(f, g, a, n, d) == \A i \in 1..n : g[i + d] = a \o f[i]

\* The order in which sequences are joined does not matter.
Associative(T) == \A a, b, c \in Seq(T) : (a \o b) \o c = a \o (b \o c)

\* It does not, for the sequences over any set.
LEMMA Associates ==
    ASSUME NEW T
    PROVE  Associative(T)
  BY ConcatAssociative DEF Associative

\* Sums that agree where they begin agree as far as the sequences do.
LEMMA SumsAgree ==
    ASSUME NEW T, NEW s \in Seq(Seq(T)), NEW t \in Seq(Seq(T)), NEW a \in Seq(T),
           NEW f, NEW g, NEW d \in {0, 1}, Shifted(s, t, d),
           Sums(f, s, Len(s), T), Sums(g, t, Len(t), T),
           d = 0 => a = <<>>, d = 1 => a = t[1]
    PROVE  Agrees(f, g, a, Len(s), d)
<1>. DEFINE Off == {k \in Nat : k \in 1..Len(s) /\ g[k + d] # a \o f[k]}
<1>1. ASSUME Off # {} PROVE FALSE
  <2>1. PICK m \in Off : \A j \in Nat : j < m => j \notin Off
    BY <1>1, SmallestOf
  <2>2. m \in 1..Len(s) /\ m + d \in 1..Len(t) /\ Len(s) \in Nat /\ Len(t) \in Nat
    <3>1. Len(s) \in Nat /\ Len(t) \in Nat /\ d \in Nat /\ m \in Nat
      BY LenProperties
    <3>2. m \in 1..Len(s)
      BY <2>1
    <3>. QED
      BY <3>1, <3>2 DEF Shifted
  <2>3. s[m] \in Seq(T) /\ f[m] \in Seq(T) /\ t[m + d] = s[m]
    <3>1. s[m] \in Seq(T)
      BY <2>2, ElementOfSeq
    <3>. QED
      BY <2>2, <3>1 DEF Sums, Shifted
  <2>4. f[m] = IF m = 1 THEN s[m] ELSE f[m - 1] \o s[m]
    BY <2>2 DEF Sums
  <2>5. g[m + d] = IF m + d = 1 THEN s[m] ELSE g[(m + d) - 1] \o s[m]
    BY <2>2, <2>3 DEF Sums
  <2>6. CASE m = 1 /\ d = 0
    <3>1. g[m + d] = s[m] /\ f[m] = s[m]
      BY <2>4, <2>5, <2>6
    <3>2. a \o s[m] = s[m]
      BY <2>6, <2>3, ConcatEmptySeq
    <3>. QED
      BY <3>1, <3>2, <2>1
  <2>7. CASE m = 1 /\ d = 1
    <3>0. 1 \in 1..Len(t) /\ (m + d) - 1 = 1 /\ m + d # 1
      BY <2>2, <2>7
    <3>1. g[1] = t[1]
      BY <3>0 DEF Sums
    <3>2. g[m + d] = g[1] \o s[m]
      BY <2>5, <3>0
    <3>3. f[m] = s[m]
      BY <2>4, <2>7
    <3>. QED
      BY <3>1, <3>2, <3>3, <2>1, <2>7
  <2>8. CASE m # 1
    <3>1. m - 1 \in Nat /\ m - 1 < m /\ m - 1 \in 1..Len(s) /\ (m + d) - 1 = (m - 1) + d /\ m + d # 1
      BY <2>2, <2>8, SMTT(30)
    <3>2. g[(m - 1) + d] = a \o f[m - 1]
      BY <3>1, <2>1
    <3>3. g[m + d] = (a \o f[m - 1]) \o s[m]
      BY <3>1, <3>2, <2>5
    <3>4. f[m - 1] \in Seq(T)
      BY <3>1 DEF Sums
    <3>5. (a \o f[m - 1]) \o s[m] = a \o (f[m - 1] \o s[m])
      <4>1. PICK u \in Seq(T), w \in Seq(T) : u = f[m - 1] /\ w = s[m]
        BY <3>4, <2>3
      <4>2. Associative(T)
        BY Associates
      <4>3. (a \o u) \o w = a \o (u \o w)
        BY <4>2 DEF Associative
      <4>. QED
        BY <4>1, <4>3
    <3>6. f[m] = f[m - 1] \o s[m]
      BY <2>4, <2>8
    <3>. QED
      BY <3>3, <3>5, <3>6, <2>1
  <2>. QED
    BY <2>6, <2>7, <2>8
<1>2. Off = {}
  BY <1>1
<1>3. ASSUME NEW i \in 1..Len(s) PROVE g[i + d] = a \o f[i]
  <2>1. i \in Nat
    OBVIOUS
  <2>2. ASSUME g[i + d] # a \o f[i] PROVE i \in Off
    BY <2>1, <2>2
  <2>. QED
    BY <1>2, <2>2, Zenon
<1>. QED
  BY <1>3 DEF Agrees

\* A sequence in front.
LEMMA FlattenCons ==
    ASSUME NEW T, NEW a \in Seq(T), NEW s \in Seq(Seq(T))
    PROVE  FlattenSeq(<<a>> \o s) = a \o FlattenSeq(s)
<1>1. PICK t \in Seq(Seq(T)) : t = <<a>> \o s
  <2>1. <<a>> \in Seq(Seq(T))
    OBVIOUS
  <2>2. <<a>> \o s \in Seq(Seq(T))
    BY <2>1, ConcatProperties
  <2>. QED
    BY <2>2
<1>2. Len(t) = Len(s) + 1 /\ t[1] = a /\ (\A i \in 1..Len(s) : t[i + 1] = s[i]) /\ Len(s) \in Nat
  BY <1>1
<1>3. Len(t) # 0 /\ FlattenSeq(t) = Flat(t)[Len(t)] /\ Sums(Flat(t), t, Len(t), T)
  BY <1>2, FlattenIsFlat, FlatSums
<1>4. CASE Len(s) = 0
  <2>1. Flat(t)[1] = a
    BY <1>2, <1>3, <1>4 DEF Sums
  <2>2. s = <<>> /\ FlattenSeq(s) = <<>>
    BY <1>4, FlattenEmpty, EmptySeq
  <2>3. a \o <<>> = a
    BY ConcatEmptySeq
  <2>. QED
    BY <2>1, <2>2, <2>3, <1>1, <1>2, <1>3, <1>4
<1>5. CASE Len(s) # 0
  <2>1. FlattenSeq(s) = Flat(s)[Len(s)] /\ Sums(Flat(s), s, Len(s), T)
    BY <1>5, FlattenIsFlat, FlatSums
  <2>2. \A i \in 1..Len(s) : Flat(t)[i + 1] = a \o Flat(s)[i]
    <3>1. Shifted(s, t, 1)
      BY <1>2 DEF Shifted
    <3>2. Agrees(Flat(s), Flat(t), a, Len(s), 1)
      BY <2>1, <3>1, <1>2, <1>3, SumsAgree
    <3>. QED
      BY <3>2 DEF Agrees
  <2>3. Flat(t)[Len(s) + 1] = a \o Flat(s)[Len(s)]
    BY <2>2, <1>2, <1>5
  <2>. QED
    BY <2>1, <2>3, <1>1, <1>2, <1>3
<1>. QED
  BY <1>4, <1>5

\* A sequence behind.
LEMMA FlattenAppend ==
    ASSUME NEW T, NEW a \in Seq(T), NEW s \in Seq(Seq(T))
    PROVE  FlattenSeq(Append(s, a)) = FlattenSeq(s) \o a
<1>1. PICK t \in Seq(Seq(T)) : t = Append(s, a)
  BY AppendProperties
<1>2. Len(t) = Len(s) + 1 /\ t[Len(t)] = a /\ (\A i \in 1..Len(s) : t[i] = s[i]) /\ Len(s) \in Nat
  BY <1>1
<1>3. Len(t) # 0 /\ FlattenSeq(t) = Flat(t)[Len(t)] /\ Sums(Flat(t), t, Len(t), T)
  BY <1>2, FlattenIsFlat, FlatSums
<1>4. CASE Len(s) = 0
  <2>1. Flat(t)[1] = a
    BY <1>2, <1>3, <1>4 DEF Sums
  <2>2. s = <<>> /\ FlattenSeq(s) = <<>>
    BY <1>4, FlattenEmpty, EmptySeq
  <2>3. <<>> \o a = a
    BY ConcatEmptySeq
  <2>. QED
    BY <2>1, <2>2, <2>3, <1>1, <1>2, <1>3, <1>4
<1>5. CASE Len(s) # 0
  <2>1. FlattenSeq(s) = Flat(s)[Len(s)] /\ Sums(Flat(s), s, Len(s), T)
    BY <1>5, FlattenIsFlat, FlatSums
  <2>2. \A i \in 1..Len(s) : Flat(t)[i + 0] = <<>> \o Flat(s)[i]
    <3>0. PICK d \in {0, 1} : d = 0
      OBVIOUS
    <3>1. Shifted(s, t, d)
      <4>1. \A i \in 1..Len(s) : i + d = i
        BY <3>0
      <4>2. Len(s) + d <= Len(t)
        BY <3>0, <1>2
      <4>. QED
        BY <4>1, <4>2, <1>2 DEF Shifted
    <3>2. <<>> \in Seq(T)
      BY EmptySeq
    <3>3. d # 1
      BY <3>0
    <3>4. PICK e \in Seq(T) : e = <<>>
      BY <3>2
    <3>5. Agrees(Flat(s), Flat(t), e, Len(s), d)
      BY <2>1, <3>1, <3>3, <3>4, <1>3, SumsAgree
    <3>. QED
      BY <3>0, <3>4, <3>5 DEF Agrees
  <2>3. Flat(s)[Len(s)] \in Seq(T)
    <3>1. Len(s) \in 1..Len(s)
      BY <1>2, <1>5
    <3>. QED
      BY <2>1, <3>1, Zenon DEF Sums
  <2>4. Flat(t)[Len(s)] = Flat(s)[Len(s)]
    <3>1. Len(s) \in 1..Len(s) /\ Len(s) + 0 = Len(s)
      BY <1>2, <1>5
    <3>2. Flat(t)[Len(s) + 0] = <<>> \o Flat(s)[Len(s)]
      BY <2>2, <3>1
    <3>3. <<>> \o Flat(s)[Len(s)] = Flat(s)[Len(s)]
      BY <2>3, ConcatEmptySeq
    <3>. QED
      BY <3>1, <3>2, <3>3
  <2>5. Flat(t)[Len(t)] = Flat(t)[Len(s)] \o a
    <3>1. Len(t) \in 1..Len(t) /\ Len(t) # 1 /\ Len(t) - 1 = Len(s)
      BY <1>2, <1>5
    <3>2. Flat(t)[Len(t)] = Flat(t)[Len(t) - 1] \o t[Len(t)]
      BY <3>1, <1>3 DEF Sums
    <3>. QED
      BY <3>1, <3>2, <1>2
  <2>. QED
    BY <2>1, <2>4, <2>5, <1>1, <1>3
<1>. QED
  BY <1>4, <1>5

-----------------------------------------------------------------------------
(***************************************************************************)
(* Fields, bytes and what the connection carries                           *)
(***************************************************************************)

\* What the fields and the bytes are.
Kind == {"order", "value", "cid", "coo", "size", "name", "store", "S", "C", "spies", "clients", "error",
         "loss", "scale", "vhost", "inet", "limit", "spy", "distance"}

\* A field as it is sent; the value of a name is its length.
AField == {f \in [kind : Kind, v : Int] : f.kind = "name" => f.v >= 0}

\* A byte of a field.
AByte == [of : AField, pos : Nat]

\* The sequence c begins with x, and t is the rest of it.
Starts(c, x, t, T) ==
    /\ c \in Seq(T) /\ c # <<>> /\ Len(c) = Len(t) + 1
    /\ Head(c) = x /\ Tail(c) = t /\ c = <<x>> \o t

\* A single element makes a sequence.
LEMMA OneType ==
    ASSUME NEW T, NEW x \in T
    PROVE  \E c \in Seq(T) : c = <<x>>
<1>1. <<x>> \in Seq(T)
  OBVIOUS
<1>. QED
  BY <1>1

\* So does an element before a sequence.
LEMMA ConsType ==
    ASSUME NEW T, NEW x \in T, NEW t \in Seq(T)
    PROVE  \E c \in Seq(T) : c = <<x>> \o t
<1>1. PICK o \in Seq(T) : o = <<x>>
  BY OneType
<1>2. o \o t \in Seq(T)
  BY ConcatProperties
<1>. QED
  BY <1>1, <1>2

\* What is made of an element and a sequence starts with the one and goes on
\* with the other.
LEMMA StartsWith ==
    ASSUME NEW T, NEW x \in T, NEW t \in Seq(T), NEW c, c = <<x>> \o t
    PROVE  Starts(c, x, t, T)
<1>1. c \in Seq(T)
  BY ConsType
<1>2. Len(c) = Len(t) + 1 /\ c[1] = x /\ \A i \in 1..Len(t) : c[i + 1] = t[i]
  BY <1>1
<1>3. c # <<>> /\ Head(c) = x
  BY <1>2
<1>4. Tail(c) \in Seq(T) /\ Len(Tail(c)) = Len(t) /\ \A i \in 1..Len(t) : Tail(c)[i] = c[i + 1]
  BY <1>2, <1>3
<1>5. Tail(c) = t
  BY <1>2, <1>4, SeqEqual
<1>. QED
  BY <1>1, <1>2, <1>3, <1>5 DEF Starts

\* A sequence that is not empty starts with its head and goes on with its
\* tail.
LEMMA Uncons ==
    ASSUME NEW T, NEW s \in Seq(T), s # <<>>
    PROVE  Head(s) \in T /\ Tail(s) \in Seq(T) /\ Starts(s, Head(s), Tail(s), T)
<1>1. Head(s) \in T /\ Tail(s) \in Seq(T) /\ Len(s) = Len(Tail(s)) + 1 /\ Len(s) # 0
  OBVIOUS
<1>2. PICK c \in Seq(T) : c = <<Head(s)>> \o Tail(s)
  BY <1>1
<1>3. Len(c) = Len(s) /\ c[1] = Head(s) /\ \A i \in 1..Len(Tail(s)) : c[i + 1] = Tail(s)[i]
  BY <1>1, <1>2
<1>4. \A i \in 1..Len(s) : c[i] = s[i]
  <2>1. ASSUME NEW i \in 1..Len(s), i # 1 PROVE c[i] = s[i]
    <3>1. PICK k : k = i - 1
      OBVIOUS
    <3>2. k \in 1..Len(Tail(s)) /\ k + 1 = i
      BY <2>1, <3>1, <1>1
    <3>3. c[k + 1] = Tail(s)[k] /\ Tail(s)[k] = s[k + 1]
      BY <3>2, <1>3, <1>1
    <3>. QED
      BY <3>2, <3>3
  <2>. QED
    BY <2>1, <1>3
<1>5. c = s
  BY <1>3, <1>4, SeqEqual
<1>. QED
  BY <1>1, <1>2, <1>5 DEF Starts

\* A function on 1..n is a sequence.
LEMMA FunctionIsSeq ==
    ASSUME NEW S, NEW n \in Nat, NEW f \in [1..n -> S]
    PROVE  f \in Seq(S) /\ Len(f) = n
<1>1. f \in Seq(S)
  BY SeqDef, Zenon
<1>2. DOMAIN f = 1..n /\ DOMAIN f = 1..Len(f) /\ Len(f) \in Nat
  BY <1>1, LenProperties
<1>3. Len(f) = n
  BY <1>2
<1>. QED
  BY <1>1, <1>3

\* Every recv() asks for at least one byte.
LEMMA SizeType ==
    ASSUME NEW kind
    PROVE  SizeOf(kind) \in Nat /\ SizeOf(kind) >= 1
  BY CtrlAssumption DEF SizeOf

\* The bytes of a field.
LEMMA FieldBytes ==
    ASSUME NEW f \in AField
    PROVE  /\ Width(f) \in Nat /\ Width(f) >= 1
           /\ Bytes(f) \in Seq(AByte) /\ Len(Bytes(f)) = Width(f) /\ Bytes(f) # <<>>
           /\ Values(Bytes(f)) = {f.v}
<1>1. Width(f) \in Nat /\ Width(f) >= 1
  BY SizeType DEF AField, Width
<1>2. Bytes(f) \in [1..Width(f) -> AByte]
  BY <1>1 DEF Bytes, AByte
<1>3. Bytes(f) \in Seq(AByte) /\ Len(Bytes(f)) = Width(f)
  BY <1>1, <1>2, FunctionIsSeq
<1>7. Bytes(f)[1].of = f
  BY <1>1 DEF Bytes
<1>8. Values(Bytes(f)) = {f.v}
  BY <1>7, Zenon DEF Values
<1>9. Bytes(f) # <<>>
  BY <1>1, <1>3
<1>. QED
  BY <1>1, <1>3, <1>8, <1>9

\* The bytes of some fields, one after the other, as send() puts them on the
\* connection.
Stream(fs) == FlattenSeq([k \in 1..Len(fs) |-> Bytes(fs[k])])

\* The bytes of each of them.
Chunks(fs) == [k \in 1..Len(fs) |-> Bytes(fs[k])]

\* What Chunks is: one chunk of bytes for every field.
LEMMA ChunksType ==
    ASSUME NEW fs \in Seq(AField)
    PROVE  /\ Chunks(fs) \in Seq(Seq(AByte)) /\ Len(Chunks(fs)) = Len(fs)
           /\ \A k \in 1..Len(fs) : Chunks(fs)[k] = Bytes(fs[k])
           /\ Stream(fs) = FlattenSeq(Chunks(fs))
<1>1. \A k \in 1..Len(fs) : Bytes(fs[k]) \in Seq(AByte)
  BY FieldBytes
<1>2. Chunks(fs) \in [1..Len(fs) -> Seq(AByte)] /\ Len(fs) \in Nat
  BY <1>1 DEF Chunks
<1>3. Chunks(fs) \in Seq(Seq(AByte)) /\ Len(Chunks(fs)) = Len(fs)
  BY <1>2, FunctionIsSeq
<1>. QED
  BY <1>3 DEF Chunks, Stream

\* The stream is made of bytes.
LEMMA StreamType ==
    ASSUME NEW fs \in Seq(AField)
    PROVE  Stream(fs) \in Seq(AByte)
  BY ChunksType, FlattenType

\* No field, no byte.
LEMMA StreamEmpty == Stream(<<>>) = <<>>
<1>1. Chunks(<<>>) \in Seq(Seq(AByte)) /\ Len(Chunks(<<>>)) = 0 /\ Stream(<<>>) = FlattenSeq(Chunks(<<>>))
  <2>1. <<>> \in Seq(AField) /\ Len(<<>>) = 0
    OBVIOUS
  <2>. QED
    BY <2>1, ChunksType
<1>2. Chunks(<<>>) = <<>>
  BY <1>1, EmptySeq
<1>. QED
  BY <1>1, <1>2, FlattenEmpty

\* The bytes of the first field stand first.
LEMMA StreamCons ==
    ASSUME NEW f \in AField, NEW fs \in Seq(AField)
    PROVE  Stream(<<f>> \o fs) = Bytes(f) \o Stream(fs)
<1>1. PICK gs \in Seq(AField) : gs = <<f>> \o fs
  BY ConsType
<1>2. Len(gs) = Len(fs) + 1 /\ gs[1] = f /\ (\A i \in 1..Len(fs) : gs[i + 1] = fs[i]) /\ Len(fs) \in Nat
  BY <1>1
<1>3. PICK c \in Seq(Seq(AByte)) : c = Chunks(fs) /\ Len(c) = Len(fs) /\ (\A k \in 1..Len(fs) : c[k] = Bytes(fs[k]))
                                 /\ Stream(fs) = FlattenSeq(c)
  BY ChunksType
<1>4. PICK d \in Seq(Seq(AByte)) : d = Chunks(gs) /\ Len(d) = Len(gs) /\ (\A k \in 1..Len(gs) : d[k] = Bytes(gs[k]))
                                 /\ Stream(gs) = FlattenSeq(d)
  BY ChunksType
<1>5. PICK b \in Seq(AByte) : b = Bytes(f)
  BY FieldBytes
<1>6. PICK e \in Seq(Seq(AByte)) : e = <<b>> \o c
  BY ConsType
<1>7. Len(e) = Len(c) + 1 /\ e[1] = b /\ \A i \in 1..Len(c) : e[i + 1] = c[i]
  BY <1>6
<1>8. ASSUME NEW i \in 1..Len(d) PROVE d[i] = e[i]
  <2>1. CASE i = 1
    <3>1. d[1] = Bytes(gs[1])
      BY <1>2, <1>4
    <3>. QED
      BY <2>1, <3>1, <1>2, <1>5, <1>7
  <2>2. CASE i # 1
    <3>1. PICK k : k = i - 1
      OBVIOUS
    <3>2. k \in 1..Len(fs) /\ k + 1 = i /\ i \in 1..Len(gs)
      BY <3>1, <2>2, <1>2, <1>4
    <3>3. d[i] = Bytes(gs[i]) /\ gs[i] = fs[k] /\ e[i] = c[k] /\ c[k] = Bytes(fs[k])
      BY <3>2, <1>2, <1>3, <1>4, <1>7
    <3>. QED
      BY <3>3
  <2>. QED
    BY <2>1, <2>2
<1>9. d = e
  BY <1>8, <1>2, <1>3, <1>4, <1>7, SeqEqual
<1>10. FlattenSeq(e) = b \o FlattenSeq(c)
  BY <1>6, FlattenCons
<1>. QED
  BY <1>1, <1>3, <1>4, <1>5, <1>9, <1>10

\* The bytes of a field that is sent stand behind what was sent before.
LEMMA StreamAppend ==
    ASSUME NEW f \in AField, NEW fs \in Seq(AField)
    PROVE  Stream(Append(fs, f)) = Stream(fs) \o Bytes(f)
<1>1. PICK gs \in Seq(AField) : gs = Append(fs, f)
  BY AppendProperties
<1>2. Len(gs) = Len(fs) + 1 /\ gs[Len(gs)] = f /\ (\A i \in 1..Len(fs) : gs[i] = fs[i]) /\ Len(fs) \in Nat
  BY <1>1
<1>3. PICK c \in Seq(Seq(AByte)) : c = Chunks(fs) /\ Len(c) = Len(fs) /\ (\A k \in 1..Len(fs) : c[k] = Bytes(fs[k]))
                                 /\ Stream(fs) = FlattenSeq(c)
  BY ChunksType
<1>4. PICK d \in Seq(Seq(AByte)) : d = Chunks(gs) /\ Len(d) = Len(gs) /\ (\A k \in 1..Len(gs) : d[k] = Bytes(gs[k]))
                                 /\ Stream(gs) = FlattenSeq(d)
  BY ChunksType
<1>5. PICK b \in Seq(AByte) : b = Bytes(f)
  BY FieldBytes
<1>6. PICK e \in Seq(Seq(AByte)) : e = Append(c, b)
  BY AppendProperties
<1>7. Len(e) = Len(c) + 1 /\ e[Len(e)] = b /\ \A i \in 1..Len(c) : e[i] = c[i]
  BY <1>6
<1>8. ASSUME NEW i \in 1..Len(d) PROVE d[i] = e[i]
  <2>1. CASE i = Len(d)
    <3>1. d[Len(gs)] = Bytes(gs[Len(gs)])
      BY <1>2, <1>4
    <3>. QED
      BY <2>1, <3>1, <1>2, <1>3, <1>4, <1>5, <1>7
  <2>2. CASE i # Len(d)
    <3>2. i \in 1..Len(fs) /\ i \in 1..Len(gs)
      BY <2>2, <1>2, <1>4
    <3>3. d[i] = Bytes(gs[i]) /\ gs[i] = fs[i] /\ e[i] = c[i] /\ c[i] = Bytes(fs[i])
      BY <3>2, <1>2, <1>3, <1>4, <1>7
    <3>. QED
      BY <3>3
  <2>. QED
    BY <2>1, <2>2
<1>9. d = e
  BY <1>8, <1>2, <1>3, <1>4, <1>7, SeqEqual
<1>10. FlattenSeq(e) = FlattenSeq(c) \o b
  BY <1>6, FlattenAppend
<1>. QED
  BY <1>1, <1>3, <1>4, <1>5, <1>9, <1>10

\* Of the fields rest, which the reader has not read, some are on their way
\* as the bytes s, the others are still to be sent.
Carries(s, later, rest) ==
    /\ later \in Seq(AField)
    /\ \E fs \in Seq(AField) : s = Stream(fs) /\ rest = fs \o later

\* Nothing has been sent: all that is to be read is still to be sent.
LEMMA CarriesAll ==
    ASSUME NEW rest \in Seq(AField)
    PROVE  Carries(<<>>, rest, rest)
<1>1. PICK fs \in Seq(AField) : fs = <<>>
  BY EmptySeq
<1>2. <<>> = Stream(fs) /\ rest = fs \o rest
  BY <1>1, StreamEmpty, ConcatEmptySeq
<1>. QED
  BY <1>2 DEF Carries

\* A send() moves the first field that is left to the connection.
LEMMA CarriesSend ==
    ASSUME NEW s, NEW later, NEW rest, Carries(s, later, rest), later # <<>>
    PROVE  Carries(s \o Bytes(Head(later)), Tail(later), rest)
<1>1. PICK fs \in Seq(AField) : s = Stream(fs) /\ rest = fs \o later
  BY DEF Carries
<1>2. PICK h \in AField, t \in Seq(AField) : h = Head(later) /\ t = Tail(later) /\ later = <<h>> \o t
  <2>1. Head(later) \in AField /\ Tail(later) \in Seq(AField) /\ Starts(later, Head(later), Tail(later), AField)
    BY Uncons DEF Carries
  <2>. QED
    BY <2>1 DEF Starts
<1>3. PICK gs \in Seq(AField) : gs = Append(fs, h)
  BY AppendProperties
<1>4. Stream(gs) = s \o Bytes(h)
  BY <1>1, <1>3, StreamAppend
<1>5. PICK o \in Seq(AField) : o = <<h>>
  BY OneType
<1>6. gs = fs \o o
  BY <1>3, <1>5, AppendIsConcat
<1>7. Associative(AField)
  BY Associates
<1>8. fs \o (o \o t) = (fs \o o) \o t
  BY <1>7, ZenonT(40) DEF Associative
<1>9. rest = gs \o t
  BY <1>1, <1>2, <1>5, <1>6, <1>8, Zenon
<1>. QED
  BY <1>2, <1>4, <1>9 DEF Carries

\* What is left when the first field has been read.
Behind(s, later, rest, u) ==
    /\ u \in Seq(AByte)
    /\ s = Bytes(Head(rest)) \o u
    /\ Carries(u, later, Tail(rest))

\* If there are bytes, the first ones are those of the field that is to be
\* read next.
LEMMA CarriesRead ==
    ASSUME NEW s, NEW later, NEW rest, Carries(s, later, rest), s # <<>>
    PROVE  rest # <<>> /\ Head(rest) \in AField /\ \E u : Behind(s, later, rest, u)
<1>1. PICK fs \in Seq(AField) : s = Stream(fs) /\ rest = fs \o later
  BY DEF Carries
<1>2. fs # <<>>
  BY <1>1, StreamEmpty
<1>3. PICK h \in AField, t \in Seq(AField) : fs = <<h>> \o t
  BY <1>2, Uncons DEF Starts
<1>4. s = Bytes(h) \o Stream(t) /\ Stream(t) \in Seq(AByte)
  BY <1>1, <1>3, StreamCons, StreamType
<1>5. PICK o \in Seq(AField) : o = <<h>>
  BY OneType
<1>6. Associative(AField) /\ later \in Seq(AField)
  BY Associates DEF Carries
<1>7. (o \o t) \o later = o \o (t \o later)
  BY <1>6, ZenonT(40) DEF Associative
<1>8. PICK r \in Seq(AField) : r = t \o later
  BY <1>6, ConcatProperties
<1>9. rest = <<h>> \o r
  BY <1>1, <1>3, <1>5, <1>7, <1>8, Zenon
<1>10. rest # <<>> /\ Head(rest) = h /\ Tail(rest) = r
  <2>1. Starts(rest, h, r, AField)
    BY <1>9, StartsWith
  <2>. QED
    BY <2>1 DEF Starts
<1>11. Carries(Stream(t), later, r)
  BY <1>6, <1>8 DEF Carries
<1>12. Behind(s, later, rest, Stream(t))
  BY <1>4, <1>10, <1>11 DEF Behind
<1>. QED
  BY <1>10, <1>12

\* If there are none, and nothing is left to be sent, there is nothing to be
\* read.
LEMMA CarriesNone ==
    ASSUME NEW rest, Carries(<<>>, <<>>, rest)
    PROVE  rest = <<>>
<1>1. PICK fs \in Seq(AField) : <<>> = Stream(fs) /\ rest = fs \o <<>>
  BY DEF Carries
<1>2. rest = fs
  BY <1>1, ConcatEmptySeq
<1>3. ASSUME fs # <<>> PROVE FALSE
  <2>1. PICK h \in AField, t \in Seq(AField) : fs = <<h>> \o t
    BY <1>3, Uncons DEF Starts
  <2>2. PICK b \in Seq(AByte), u \in Seq(AByte) : b = Bytes(h) /\ u = Stream(t) /\ b # <<>>
    BY FieldBytes, StreamType
  <2>3. b \o u = <<>>
    BY <1>1, <2>1, <2>2, StreamCons
  <2>. QED
    BY <2>2, <2>3, ConcatEqualIffEmpty
<1>. QED
  BY <1>2, <1>3

\* A sequence without its first k elements.
From(s, k) == SubSeq(s, k + 1, Len(s))

\* What the rest of a sequence is.
LEMMA FromType ==
    ASSUME NEW T, NEW s \in Seq(T), NEW k \in 0..Len(s)
    PROVE  /\ From(s, k) \in Seq(T) /\ Len(From(s, k)) = Len(s) - k
           /\ \A i \in 1..(Len(s) - k) : From(s, k)[i] = s[k + i]
  BY DEF From

\* Without none of its elements a sequence is what it was.
LEMMA FromAll ==
    ASSUME NEW T, NEW s \in Seq(T)
    PROVE  From(s, 0) = s
  BY SubSeqFull DEF From

\* There is no rest behind the last element.
LEMMA FromEnd ==
    ASSUME NEW T, NEW s \in Seq(T), NEW k \in 0..Len(s)
    PROVE  From(s, k) = <<>> <=> k = Len(s)
  BY FromType, EmptySeq

\* The rest of a sequence starts with its next element.
LEMMA FromStarts ==
    ASSUME NEW T, NEW s \in Seq(T), NEW k \in 0..(Len(s) - 1)
    PROVE  Starts(From(s, k), s[k + 1], From(s, k + 1), T)
<1>1. k + 1 \in 1..Len(s) /\ Len(s) \in (k + 1)..Len(s) /\ Len(s) \in Nat
  OBVIOUS
<1>2. From(s, k) = <<s[k + 1]>> \o From(s, k + 1)
  BY <1>1, SubSeqRecursiveFirst DEF From
<1>3. s[k + 1] \in T /\ From(s, k + 1) \in Seq(T)
  BY <1>1, FromType
<1>. QED
  BY <1>2, <1>3, StartsWith

\* If nothing is left to be read, there are no bytes.
LEMMA CarriesEnd ==
    ASSUME NEW s, NEW later, Carries(s, later, <<>>)
    PROVE  s = <<>>
<1>1. PICK fs \in Seq(AField) : s = Stream(fs) /\ <<>> = fs \o later
  BY DEF Carries
<1>2. fs = <<>>
  <2>1. later \in Seq(AField)
    BY DEF Carries
  <2>2. fs \o later = <<>> <=> fs = <<>> /\ later = <<>>
    BY <2>1, ConcatEqualIffEmpty
  <2>. QED
    BY <1>1, <2>2
<1>. QED
  BY <1>1, <1>2, StreamEmpty

\* A recv() of at most size bytes.
Most(s, size) == IF Len(s) < size THEN Len(s) ELSE size

\* It reads the next field, and nothing else.
ReadsField(s, later, rest, n) ==
    /\ n \in 1..Len(s)
    /\ Values(SubSeq(s, 1, n)) = {Head(rest).v}
    /\ Carries(SubSeq(s, n + 1, Len(s)), later, Tail(rest))

\* A recv() that asks for the width of the next field, or for more when that
\* field is the last one, returns this field.
LEMMA RecvField ==
    ASSUME NEW s, NEW later, NEW rest, NEW size \in Nat, Carries(s, later, rest), s # <<>>,
           \/ Width(Head(rest)) = size
           \/ Width(Head(rest)) <= size /\ Tail(rest) = <<>>
    PROVE  ReadsField(s, later, rest, Most(s, size))
<1>1. Head(rest) \in AField /\ \E u : Behind(s, later, rest, u)
  BY CarriesRead
<1>2. PICK u : Behind(s, later, rest, u)
  BY <1>1
<1>3. PICK b \in Seq(AByte) : b = Bytes(Head(rest)) /\ Len(b) = Width(Head(rest)) /\ Len(b) >= 1
                              /\ Values(b) = {Head(rest).v}
  BY <1>1, FieldBytes
<1>4. u \in Seq(AByte) /\ s = b \o u /\ Carries(u, later, Tail(rest))
  BY <1>2, <1>3 DEF Behind
<1>5. s \in Seq(AByte) /\ Len(s) = Len(b) + Len(u) /\ Len(b) \in Nat /\ Len(u) \in Nat
  BY <1>4, ConcatProperties, LenProperties
<1>6. Most(s, size) = Len(b)
  <2>1. CASE Width(Head(rest)) = size
    BY <2>1, <1>3, <1>5 DEF Most
  <2>2. CASE Width(Head(rest)) <= size /\ Tail(rest) = <<>>
    <3>1. u = <<>>
      BY <2>2, <1>4, CarriesEnd
    <3>2. Len(u) = 0
      BY <3>1
    <3>. QED
      BY <2>2, <3>2, <1>3, <1>5 DEF Most
  <2>. QED
    BY <2>1, <2>2
<1>7. SubSeq(s, 1, Len(b)) = b
  <2>1. \A i \in 1..Len(b) : s[i] = b[i]
    BY <1>4
  <2>2. PICK p \in Seq(AByte) : p = SubSeq(s, 1, Len(b)) /\ Len(p) = Len(b) /\ \A i \in 1..Len(b) : p[i] = s[i]
    <3>1. SubSeq(s, 1, Len(b)) \in Seq(AByte) /\ Len(SubSeq(s, 1, Len(b))) = Len(b)
      BY <1>5
    <3>2. \A i \in 1..Len(b) : SubSeq(s, 1, Len(b))[i] = s[i]
      BY <1>5
    <3>. QED
      BY <3>1, <3>2
  <2>3. p = b
    BY <2>1, <2>2, SeqEqual
  <2>. QED
    BY <2>2, <2>3
<1>8. SubSeq(s, Len(b) + 1, Len(s)) = u
  <2>1. \A i \in 1..Len(u) : s[Len(b) + i] = u[i]
    BY <1>4
  <2>2. PICK p \in Seq(AByte) : p = From(s, Len(b)) /\ Len(p) = Len(u) /\ \A i \in 1..Len(u) : p[i] = s[Len(b) + i]
    <3>1. Len(b) \in 0..Len(s) /\ Len(s) - Len(b) = Len(u)
      BY <1>5
    <3>2. /\ From(s, Len(b)) \in Seq(AByte) /\ Len(From(s, Len(b))) = Len(s) - Len(b)
          /\ \A i \in 1..(Len(s) - Len(b)) : From(s, Len(b))[i] = s[Len(b) + i]
      BY <1>5, <3>1, FromType
    <3>. QED
      BY <3>1, <3>2
  <2>3. p = u
    BY <2>1, <2>2, <1>4, SeqEqual
  <2>. QED
    BY <2>2, <2>3 DEF From
<1>9. Len(b) \in 1..Len(s)
  BY <1>3, <1>5
<1>. QED
  BY <1>3, <1>4, <1>6, <1>7, <1>8, <1>9 DEF ReadsField

-----------------------------------------------------------------------------
(***************************************************************************)
(* What is sent for an order                                               *)
(***************************************************************************)

\* The kinds of the arguments of an order (Arguments).
ArgKinds(o) ==
    CASE o = TORDER_CHANGE_COORDINATE -> <<"cid", "coo">>
      [] o = TORDER_SETNAME -> <<"cid", "size", "name">>
      [] o = TORDER_PACKET_LOSS -> <<"value">>
      [] o = TORDER_DISTANCE_BETWEEN_CID -> <<"cid", "cid">>
      [] o = TORDER_SET_SCALE -> <<"scale">>
      [] OTHER -> <<>>

\* None of them is an order; a name is the last one, of SETNAME.
ArgKindsOK(ks, o) ==
    /\ ks \in Seq(Kind)
    /\ \A i \in 1..Len(ks) : /\ ks[i] # "order"
                             /\ ks[i] = "name" => i = Len(ks) /\ i = 3 /\ o = TORDER_SETNAME

\* Arguments says so.
LEMMA ArgumentsKinds ==
    ASSUME NEW o
    PROVE  Arguments(o) = Items(ArgKinds(o)) /\ ArgKindsOK(ArgKinds(o), o)
<1>. USE DEF TORDER_LIST, TORDER_SHOW, TORDER_CHANGE_COORDINATE, TORDER_SETNAME, TORDER_PACKET_LOSS,
             TORDER_STATUS, TORDER_DISTANCE_BETWEEN_CID, TORDER_SET_SCALE, TORDER_CLOSE_ALL_CLIENT
<1>1. Arguments(o) = Items(ArgKinds(o))
  BY DEF Arguments, ArgKinds
<1>2. CASE o = TORDER_CHANGE_COORDINATE
  <2>1. ArgKinds(o) = <<"cid", "coo">>
    BY <1>2 DEF ArgKinds
  <2>2. ArgKindsOK(<<"cid", "coo">>, o)
    BY <1>2 DEF ArgKindsOK, Kind
  <2>. QED
    BY <1>1, <2>1, <2>2, Zenon
<1>3. CASE o = TORDER_SETNAME
  <2>1. ArgKinds(o) = <<"cid", "size", "name">>
    BY <1>3 DEF ArgKinds
  <2>2. ArgKindsOK(<<"cid", "size", "name">>, o)
    BY <1>3 DEF ArgKindsOK, Kind
  <2>. QED
    BY <1>1, <2>1, <2>2, Zenon
<1>4. CASE o = TORDER_PACKET_LOSS
  <2>1. ArgKinds(o) = <<"value">>
    BY <1>4 DEF ArgKinds
  <2>2. ArgKindsOK(<<"value">>, o)
    BY <1>4 DEF ArgKindsOK, Kind
  <2>. QED
    BY <1>1, <2>1, <2>2, Zenon
<1>5. CASE o = TORDER_DISTANCE_BETWEEN_CID
  <2>1. ArgKinds(o) = <<"cid", "cid">>
    BY <1>5 DEF ArgKinds
  <2>2. ArgKindsOK(<<"cid", "cid">>, o)
    BY <1>5 DEF ArgKindsOK, Kind
  <2>. QED
    BY <1>1, <2>1, <2>2, Zenon
<1>6. CASE o = TORDER_SET_SCALE
  <2>1. ArgKinds(o) = <<"scale">>
    BY <1>6 DEF ArgKinds
  <2>2. ArgKindsOK(<<"scale">>, o)
    BY <1>6 DEF ArgKindsOK, Kind
  <2>. QED
    BY <1>1, <2>1, <2>2, Zenon
<1>7. CASE o \notin {TORDER_CHANGE_COORDINATE, TORDER_SETNAME, TORDER_PACKET_LOSS,
                     TORDER_DISTANCE_BETWEEN_CID, TORDER_SET_SCALE}
  <2>1. ArgKinds(o) = <<>>
    BY <1>7 DEF ArgKinds
  <2>2. ArgKindsOK(<<>>, o)
    BY DEF ArgKindsOK
  <2>. QED
    BY <1>1, <2>1, <2>2, Zenon
<1>. QED
  BY <1>2, <1>3, <1>4, <1>5, <1>6, <1>7

\* An item that is to be read.
AnItem == [kind : Kind, size : Nat]

\* The items of some kinds.
LEMMA ItemsType ==
    ASSUME NEW ks \in Seq(Kind)
    PROVE  /\ Items(ks) \in Seq(AnItem) /\ Len(Items(ks)) = Len(ks)
           /\ \A i \in 1..Len(ks) : Items(ks)[i] = Item(ks[i])
<1>1. \A i \in 1..Len(ks) : Item(ks[i]) \in AnItem
  BY SizeType DEF Item, AnItem
<1>2. Items(ks) \in [1..Len(ks) -> AnItem] /\ Len(ks) \in Nat
  BY <1>1 DEF Items
<1>3. Items(ks) \in Seq(AnItem) /\ Len(Items(ks)) = Len(ks)
  BY <1>2, FunctionIsSeq
<1>. QED
  BY <1>3 DEF Items

\* What vwifi-ctrl may ask for, the second order of show included.
Request ==
    {r \in [order : TORDER_LIST..TORDER_CLOSE_ALL_CLIENT, args : Seq(Nat)] :
        /\ Len(r.args) = Len(Arguments(r.order))
        /\ r.order = TORDER_SETNAME => r.args[3] <= MAX_SIZE_NAME}

\* The fields of the arguments.
ArgFields(r) == [i \in 1..Len(r.args) |-> Field(Arguments(r.order)[i].kind, r.args[i])]

\* The field of the order itself.
OrderField(r) == Field("order", r.order)

\* The fields of the arguments are fields, one for each.
LEMMA ArgFieldsType ==
    ASSUME NEW r \in Request
    PROVE  /\ ArgFields(r) \in Seq(AField) /\ Len(ArgFields(r)) = Len(r.args)
           /\ \A i \in 1..Len(r.args) : ArgFields(r)[i] = Field(Arguments(r.order)[i].kind, r.args[i])
<1>1. PICK ks \in Seq(Kind) : ks = ArgKinds(r.order) /\ Arguments(r.order) = Items(ks)
  BY ArgumentsKinds DEF ArgKindsOK
<1>2. Len(ks) = Len(r.args) /\ r.args \in Seq(Nat) /\ Len(r.args) \in Nat
  BY <1>1, ItemsType DEF Request
<1>3. ASSUME NEW i \in 1..Len(r.args) PROVE Field(Arguments(r.order)[i].kind, r.args[i]) \in AField
  <2>1. Arguments(r.order)[i] = Item(ks[i]) /\ ks[i] \in Kind /\ r.args[i] \in Nat
    BY <1>1, <1>2, ItemsType
  <2>. QED
    BY <2>1 DEF Field, AField, Item
<1>4. ArgFields(r) \in [1..Len(r.args) -> AField]
  BY <1>3 DEF ArgFields
<1>5. ArgFields(r) \in Seq(AField) /\ Len(ArgFields(r)) = Len(r.args)
  BY <1>2, <1>4, FunctionIsSeq
<1>. QED
  BY <1>5 DEF ArgFields

\* The order is sent first, then its arguments.
LEMMA SentStarts ==
    ASSUME NEW r \in Request
    PROVE  Starts(Sent(r), OrderField(r), ArgFields(r), AField) /\ OrderField(r) \in AField
<1>1. OrderField(r) \in AField
  <2>1. r.order \in Int
    BY DEF Request, TORDER_LIST, TORDER_CLOSE_ALL_CLIENT
  <2>. QED
    BY <2>1 DEF OrderField, Field, AField, Kind
<1>2. Sent(r) = <<OrderField(r)>> \o ArgFields(r)
  BY DEF Sent, OrderField, ArgFields
<1>. QED
  BY <1>1, <1>2, ArgFieldsType, StartsWith

\* An argument is read by the recv() that is meant for it.
LEMMA ArgumentWidth ==
    ASSUME NEW r \in Request, NEW i \in 1..Len(r.args)
    PROVE  LET it == Arguments(r.order)[i]
               f == ArgFields(r)[i]
           IN  /\ it.kind # "order" /\ it.size \in Nat
               /\ f.v = r.args[i]
               /\ Width(f) = it.size \/ (Width(f) <= it.size /\ i = Len(r.args))
<1>1. PICK ks \in Seq(Kind) : ks = ArgKinds(r.order) /\ Arguments(r.order) = Items(ks) /\ ArgKindsOK(ks, r.order)
  BY ArgumentsKinds DEF ArgKindsOK
<1>2. Len(ks) = Len(r.args) /\ r.args \in Seq(Nat) /\ Len(r.args) \in Nat
  BY <1>1, ItemsType DEF Request
<1>3. Arguments(r.order)[i] = Item(ks[i]) /\ ks[i] # "order"
  BY <1>1, <1>2, ItemsType DEF ArgKindsOK
<1>4. Arguments(r.order)[i].kind = ks[i] /\ Arguments(r.order)[i].size = SizeOf(ks[i]) /\ SizeOf(ks[i]) \in Nat
  BY <1>3, SizeType DEF Item
<1>5. ArgFields(r)[i].kind = ks[i] /\ ArgFields(r)[i].v = r.args[i]
  <2>1. ArgFields(r)[i] = Field(Arguments(r.order)[i].kind, r.args[i])
    BY ArgFieldsType
  <2>2. Field(ks[i], r.args[i]).kind = ks[i] /\ Field(ks[i], r.args[i]).v = r.args[i]
    BY DEF Field
  <2>. QED
    BY <1>4, <2>1, <2>2
<1>6. CASE ks[i] = "name"
  <2>1. i = 3 /\ r.order = TORDER_SETNAME /\ i = Len(r.args)
    BY <1>1, <1>2, <1>6 DEF ArgKindsOK
  <2>2. r.args[i] <= MAX_SIZE_NAME /\ r.args[i] \in Nat
    BY <2>1, <1>2 DEF Request
  <2>3. SizeOf(ks[i]) = MAX_SIZE_NAME + 1
    BY <1>6 DEF SizeOf
  <2>4. Width(ArgFields(r)[i]) = r.args[i] + 1
    BY <1>5, <1>6 DEF Width
  <2>5. Width(ArgFields(r)[i]) <= SizeOf(ks[i])
    BY <2>2, <2>3, <2>4, CtrlAssumption
  <2>. QED
    BY <2>1, <2>5, <1>3, <1>4, <1>5
<1>7. CASE ks[i] # "name"
  <2>1. Width(ArgFields(r)[i]) = SizeOf(ks[i])
    BY <1>5, <1>7 DEF Width
  <2>. QED
    BY <2>1, <1>3, <1>4, <1>5
<1>. QED
  BY <1>6, <1>7

-----------------------------------------------------------------------------
(***************************************************************************)
(* The order: what the server has read of the last request                 *)
(***************************************************************************)

\* The request that was asked for last.
cur == asked[Len(asked)]

\* The last request has not been carried out, all others have.
Unserved == asked # <<>> /\ asked = Append(executed, cur)

\* The types of what the session remembers.
SessionTypeOK ==
    /\ request \in Request /\ asked \in Seq(Request) /\ executed \in Seq(Request)
    /\ lists \in Lists /\ snapshot \in Lists
    /\ short \in 0..MaxShort

\* The order has not been read.
ReadsOrder ==
    /\ reading = Items(<<"order">>) /\ args = <<>>
    /\ Carries(toServer, sending, Sent(cur))

\* The order and k of the arguments have been read.
HasRead(k) ==
    /\ order = cur.order
    /\ args = SubSeq(cur.args, 1, k)
    /\ reading = From(Arguments(cur.order), k)
    /\ Carries(toServer, sending, From(ArgFields(cur), k))

\* The server is reading the arguments.
ReadsArgs == \E k \in 0..Len(cur.args) : HasRead(k)

\* How far the server is with the last request.
OrderInv ==
    /\ SessionTypeOK
    /\ executed = asked \/ Unserved
    /\ cpc = "connect" => executed = asked
    /\ cpc = "run" => asked # <<>> /\ request = cur
    /\ cpc = "run" /\ executed # asked => expect = Expected(request.order)
    /\ spc = "reply" => executed = asked
    /\ toCtrl # <<>> => executed = asked
    /\ serverEnd = "backlog" => spc = "idle" /\ Unserved /\ Carries(toServer, sending, Sent(cur))
    /\ spc = "read" => serverEnd = "open" /\ Unserved /\ (ReadsOrder \/ ReadsArgs)

\* The kinds of the fields of an answer (Expected).
ExpKinds(o) ==
    CASE o = TORDER_LIST -> <<"spies", "clients">>
      [] o = TORDER_SHOW -> <<"loss", "scale", "spy">>
      [] o = TORDER_STATUS -> <<"loss", "scale", "vhost", "inet", "limit", "spy">>
      [] o = TORDER_DISTANCE_BETWEEN_CID -> <<"error", "distance">>
      [] OTHER -> <<>>

\* Expected says so; every answer starts with one of three kinds of field.
LEMMA ExpectedKinds ==
    ASSUME NEW o
    PROVE  /\ Expected(o) = Items(ExpKinds(o)) /\ ExpKinds(o) \in Seq(Kind)
           /\ ExpKinds(o) # <<>> => ExpKinds(o)[1] \in {"spies", "loss", "error"}
<1>. USE DEF TORDER_LIST, TORDER_SHOW, TORDER_STATUS, TORDER_DISTANCE_BETWEEN_CID
<1>1. Expected(o) = Items(ExpKinds(o))
  BY DEF Expected, ExpKinds
<1>2. CASE o = TORDER_LIST
  <2>1. ExpKinds(o) = <<"spies", "clients">>
    BY <1>2 DEF ExpKinds
  <2>2. <<"spies", "clients">> \in Seq(Kind) /\ <<"spies", "clients">>[1] = "spies"
    BY DEF Kind
  <2>. QED
    BY <1>1, <2>1, <2>2, Zenon
<1>3. CASE o = TORDER_SHOW
  <2>1. ExpKinds(o) = <<"loss", "scale", "spy">>
    BY <1>3 DEF ExpKinds
  <2>2. <<"loss", "scale", "spy">> \in Seq(Kind) /\ <<"loss", "scale", "spy">>[1] = "loss"
    BY DEF Kind
  <2>. QED
    BY <1>1, <2>1, <2>2, Zenon
<1>4. CASE o = TORDER_STATUS
  <2>1. ExpKinds(o) = <<"loss", "scale", "vhost", "inet", "limit", "spy">>
    BY <1>4 DEF ExpKinds
  <2>2. /\ <<"loss", "scale", "vhost", "inet", "limit", "spy">> \in Seq(Kind)
        /\ <<"loss", "scale", "vhost", "inet", "limit", "spy">>[1] = "loss"
    BY DEF Kind
  <2>. QED
    BY <1>1, <2>1, <2>2, Zenon
<1>5. CASE o = TORDER_DISTANCE_BETWEEN_CID
  <2>1. ExpKinds(o) = <<"error", "distance">>
    BY <1>5 DEF ExpKinds
  <2>2. <<"error", "distance">> \in Seq(Kind) /\ <<"error", "distance">>[1] = "error"
    BY DEF Kind
  <2>. QED
    BY <1>1, <2>1, <2>2, Zenon
<1>6. CASE o \notin {TORDER_LIST, TORDER_SHOW, TORDER_STATUS, TORDER_DISTANCE_BETWEEN_CID}
  <2>1. ExpKinds(o) = <<>>
    BY <1>6 DEF ExpKinds
  <2>. QED
    BY <1>1, <2>1, EmptySeq
<1>. QED
  BY <1>2, <1>3, <1>4, <1>5, <1>6

\* The first item of an answer.
LEMMA ExpectedHead ==
    ASSUME NEW o, Expected(o) # <<>>
    PROVE  Head(Expected(o)).kind \in {"spies", "loss", "error"}
<1>1. PICK ks \in Seq(Kind) : Expected(o) = Items(ks) /\ (ks # <<>> => ks[1] \in {"spies", "loss", "error"})
  BY ExpectedKinds
<1>2. Items(ks) \in Seq(AnItem) /\ Len(Items(ks)) = Len(ks) /\ \A i \in 1..Len(ks) : Items(ks)[i] = Item(ks[i])
  BY ItemsType
<1>3. Len(ks) \in Nat /\ Len(ks) # 0 /\ ks # <<>>
  BY <1>1, <1>2, EmptySeq
<1>4. Head(Items(ks)) = Item(ks[1])
  BY <1>2, <1>3
<1>. QED
  BY <1>1, <1>3, <1>4 DEF Item

\* show has an answer.
LEMMA ExpectedShow == Expected(TORDER_SHOW) # <<>>
<1>1. ExpKinds(TORDER_SHOW) = <<"loss", "scale", "spy">>
  BY DEF ExpKinds, TORDER_LIST, TORDER_SHOW, TORDER_STATUS, TORDER_DISTANCE_BETWEEN_CID
<1>2. Len(ExpKinds(TORDER_SHOW)) = 3 /\ ExpKinds(TORDER_SHOW) \in Seq(Kind)
  BY <1>1, ExpectedKinds
<1>3. Len(Expected(TORDER_SHOW)) = 3 /\ Expected(TORDER_SHOW) \in Seq(AnItem)
  BY <1>2, ExpectedKinds, ItemsType
<1>. QED
  BY <1>3, EmptySeq

\* The second order of show is a request.
LEMMA ListRequest == [order |-> TORDER_LIST, args |-> <<>>] \in Request
<1>1. ArgKinds(TORDER_LIST) = <<>>
  BY DEF ArgKinds, TORDER_LIST, TORDER_CHANGE_COORDINATE, TORDER_SETNAME, TORDER_PACKET_LOSS,
         TORDER_DISTANCE_BETWEEN_CID, TORDER_SET_SCALE
<1>2. <<>> \in Seq(Kind) /\ Len(<<>>) = 0
  OBVIOUS
<1>3. Len(Arguments(TORDER_LIST)) = 0
  BY <1>1, <1>2, ArgumentsKinds, ItemsType
<1>. QED
  BY <1>3 DEF Request, TORDER_LIST, TORDER_SETNAME, TORDER_CLOSE_ALL_CLIENT

\* What the user may ask for are requests.
LEMMA RequestsOK == Requests \subseteq Request
  BY CtrlAssumption, RequestAssumption DEF Request

\* The last request is a request.
LEMMA CurType ==
    ASSUME SessionTypeOK, asked # <<>>
    PROVE  cur \in Request
  BY DEF SessionTypeOK, cur

\* OrderInv holds at the start.
LEMMA InitOrder == Init => OrderInv
<1>. SUFFICES ASSUME Init PROVE OrderInv
  OBVIOUS
<1>1. SessionTypeOK
  <2>1. request \in Request
    BY RequestsOK DEF Init
  <2>2. <<>> \in Seq(Request)
    OBVIOUS
  <2>. QED
    BY <2>1, <2>2, CtrlAssumption DEF Init, SessionTypeOK
<1>. QED
  BY <1>1 DEF Init, OrderInv

\* Connect keeps it: the new request is not served, and nothing has been
\* sent.
LEMMA ConnectOrder ==
    ASSUME OrderInv, Connect
    PROVE  OrderInv'
<1>1. executed = asked /\ SessionTypeOK
  BY DEF OrderInv, Connect
<1>2. asked' = Append(asked, request) /\ executed' = executed /\ request' = request /\ spc' = "idle" /\ cpc' = "run"
      /\ lists' = lists /\ snapshot' = snapshot /\ short' = short
  BY DEF Connect, server
<1>3. asked' \in Seq(Request) /\ asked' # <<>> /\ asked'[Len(asked')] = request
  BY <1>1, <1>2, AppendProperties DEF SessionTypeOK
<1>4. cur' = request /\ Unserved'
  BY <1>1, <1>2, <1>3 DEF cur, Unserved
<1>5. SessionTypeOK'
  BY <1>1, <1>2, <1>3 DEF SessionTypeOK
<1>6. Sent(request) \in Seq(AField)
  BY <1>1, SentStarts DEF SessionTypeOK, Starts
<1>7. Carries(<<>>, Sent(request), Sent(request))
  BY <1>6, CarriesAll
<1>8. toServer' = <<>> /\ sending' = Sent(request) /\ expect' = Expected(request.order) /\ toCtrl' = <<>>
  BY DEF Connect
<1>. QED
  BY <1>2, <1>3, <1>4, <1>5, <1>7, <1>8 DEF OrderInv

\* CtrlSends keeps it: a field moves to the connection.
LEMMA SendsOrder ==
    ASSUME OrderInv, CtrlSends
    PROVE  OrderInv'
<1>1. UNCHANGED <<cpc, request, expect, server, serverEnd, toCtrl, short, history>> /\ cur' = cur /\ sending # <<>>
      /\ toServer' = toServer \o Bytes(Head(sending)) /\ sending' = Tail(sending)
  BY DEF CtrlSends, history, cur
<1>2. ASSUME NEW rest, Carries(toServer, sending, rest) PROVE Carries(toServer', sending', rest)
  BY <1>1, <1>2, CarriesSend
<1>3. ReadsOrder => ReadsOrder'
  BY <1>1, <1>2 DEF ReadsOrder, server
<1>4. ReadsArgs => ReadsArgs'
  <2>1. ASSUME NEW k \in 0..Len(cur.args), HasRead(k) PROVE HasRead(k)'
    BY <1>1, <1>2, <2>1 DEF HasRead, server
  <2>. QED
    BY <1>1, <2>1 DEF ReadsArgs
<1>5. Unserved' = Unserved /\ SessionTypeOK' = SessionTypeOK
  BY <1>1 DEF Unserved, history, SessionTypeOK, server
<1>. QED
  BY <1>1, <1>2, <1>3, <1>4, <1>5 DEF OrderInv, server, history

\* A step of vwifi-ctrl that sends nothing.
LEMMA CtrlKept ==
    ASSUME OrderInv, UNCHANGED <<sending, server, serverEnd, toServer, history>>,
           request' \in Request, short' \in 0..MaxShort,
           toCtrl' # <<>> => executed = asked,
           cpc' = "connect" => executed = asked,
           cpc' = "run" => cpc = "run" /\ request' = request /\ (executed # asked => expect' = expect)
    PROVE  OrderInv'
<1>1. cur' = cur /\ Unserved' = Unserved /\ ReadsOrder' = ReadsOrder
  BY DEF cur, Unserved, ReadsOrder, history, server
<1>2. ReadsArgs' = ReadsArgs
  BY <1>1 DEF ReadsArgs, HasRead, server
<1>3. SessionTypeOK'
  BY DEF SessionTypeOK, OrderInv, history, server
<1>. QED
  BY <1>1, <1>2, <1>3 DEF OrderInv, server, history

\* The end of vwifi-ctrl keeps it.
LEMMA CtrlExitsOrder ==
    ASSUME OrderInv, NEW how \in Ended, CtrlExits(how)
    PROVE  OrderInv'
<1>1. /\ UNCHANGED <<sending, server, serverEnd, toServer, history>>
      /\ request' \in Request /\ short' \in 0..MaxShort
  BY DEF CtrlExits, OrderInv, SessionTypeOK
<1>2. /\ toCtrl' # <<>> => executed = asked
      /\ cpc' # "connect" /\ cpc' # "run"
  BY DEF CtrlExits, OrderInv, Ended
<1>. QED
  BY <1>1, <1>2, CtrlKept

\* As long as the order has not been carried out, nothing but the first field of the answer is read.
LEMMA NotServedHead ==
    ASSUME OrderInv, cpc = "run", executed # asked, expect # <<>>
    PROVE  Head(expect).kind \in {"spies", "loss", "error"}
  BY ExpectedHead DEF OrderInv

\* A failed send() or recv() of vwifi-ctrl keeps it.
LEMMA ReadsFailOrder ==
    ASSUME OrderInv, CtrlSendFails \/ CtrlReadFails
    PROVE  OrderInv'
  BY CtrlExitsOrder DEF CtrlSendFails, CtrlReadFails, Ended

\* A recv() of vwifi-ctrl keeps it: there are only bytes when the order has
\* been carried out.
LEMMA ReadsInOrder ==
    ASSUME OrderInv, CtrlReads
    PROVE  OrderInv'
<1>1. executed = asked /\ cpc = "run"
  BY DEF CtrlReads, Reads, OrderInv
<1>2. UNCHANGED <<sending, server, serverEnd, toServer, history>> /\ request' \in Request
  BY DEF CtrlReads, OrderInv, SessionTypeOK
<1>3. request' = request /\ cpc' \in {"run", "Exit1"}
  BY <1>1 DEF CtrlReads
<1>4. short' \in 0..MaxShort
  <2>1. short \in 0..MaxShort /\ MaxShort \in Nat
    BY CtrlAssumption DEF OrderInv, SessionTypeOK
  <2>. DEFINE most == Most(toCtrl, Head(expect).size)
  <2>2. PICK n \in IF short > 0 THEN 1..most ELSE {most} : short' = IF n < most THEN short - 1 ELSE short
    BY DEF CtrlReads, Most
  <2>. HIDE DEF most
  <2>3. CASE short > 0
    BY <2>1, <2>2, <2>3
  <2>4. CASE ~(short > 0)
    <3>1. short = 0 /\ n = most
      BY <2>1, <2>2, <2>4
    <3>. QED
      BY <2>1, <2>2, <3>1
  <2>. QED
    BY <2>3, <2>4
<1>. QED
  BY <1>1, <1>2, <1>3, <1>4, CtrlKept

\* The steps inside an entry of a list keep it.
LEMMA EntryOrder ==
    ASSUME OrderInv, CtrlReadFailsInEntry \/ CtrlStores \/ CtrlPrints
    PROVE  OrderInv'
<1>1. cpc = "run" /\ expect # <<>> /\ Head(expect).kind \notin {"spies", "loss", "error"}
  BY DEF CtrlReadFailsInEntry, CtrlStores, CtrlPrints, Reads, InEntry
<1>2. executed = asked
  BY <1>1, NotServedHead
<1>3. /\ UNCHANGED <<cpc, request, short, sending, server, serverEnd, toServer, history>>
  BY DEF CtrlReadFailsInEntry, CtrlStores, CtrlPrints, net
<1>4. request' \in Request /\ short' \in 0..MaxShort
  BY <1>3 DEF OrderInv, SessionTypeOK
<1>. QED
  BY <1>1, <1>2, <1>3, <1>4, CtrlKept

\* CtrlDone keeps it: an order without an answer may be done before it is
\* served.
LEMMA DoneOrder ==
    ASSUME OrderInv, CtrlDone
    PROVE  OrderInv'
<1>1. /\ UNCHANGED <<sending, server, serverEnd, toServer, toCtrl, short, history>>
      /\ cpc' # "run" /\ (cpc' = "connect" => request.order = TORDER_SHOW /\ expect = <<>> /\ cpc = "run")
  BY DEF CtrlDone
<1>2. request' \in Request
  BY ListRequest DEF CtrlDone, OrderInv, SessionTypeOK
<1>3. cpc' = "connect" => executed = asked
  BY <1>1, ExpectedShow DEF OrderInv
<1>4. short' \in 0..MaxShort /\ (toCtrl' # <<>> => executed = asked)
  BY <1>1 DEF OrderInv, SessionTypeOK
<1>. QED
  BY <1>1, <1>2, <1>3, <1>4, CtrlKept

\* CtrlStops keeps it.
LEMMA StopsOrder ==
    ASSUME OrderInv, CtrlStops
    PROVE  OrderInv'
<1>1. CASE CtrlExits("Killed")
  BY <1>1, CtrlExitsOrder DEF Ended
<1>2. CASE cpc' = "Gone" /\ UNCHANGED <<request, sending, expect, cid, info, shown, server, net, history>>
  <2>1. /\ UNCHANGED <<sending, server, serverEnd, toServer, history>>
        /\ request' \in Request /\ short' \in 0..MaxShort
    BY <1>2 DEF net, OrderInv, SessionTypeOK
  <2>2. /\ toCtrl' # <<>> => executed = asked
        /\ cpc' # "connect" /\ cpc' # "run"
    BY <1>2 DEF net, OrderInv
  <2>. QED
    BY <2>1, <2>2, CtrlKept
<1>. QED
  BY <1>1, <1>2 DEF CtrlStops

\* Accept keeps it: the order is to be read first.
LEMMA AcceptOrder ==
    ASSUME OrderInv, Accept
    PROVE  OrderInv'
<1>1. /\ UNCHANGED <<cpc, request, expect, sending, toServer, toCtrl, short, lists, asked, executed, snapshot>>
      /\ spc' = "read" /\ serverEnd' = "open" /\ reading' = Items(<<"order">>) /\ args' = <<>>
  BY DEF Accept, ctrl, history
<1>2. cur' = cur /\ Unserved' = Unserved /\ SessionTypeOK'
  BY <1>1 DEF cur, Unserved, SessionTypeOK, OrderInv
<1>3. Unserved /\ Carries(toServer, sending, Sent(cur))
  BY DEF Accept, OrderInv
<1>4. ReadsOrder'
  BY <1>1, <1>2, <1>3 DEF ReadsOrder
<1>. QED
  BY <1>1, <1>2, <1>3, <1>4 DEF OrderInv

\* The field that is read: v is its value.
ServerTakes(v, kind, rest) ==
    /\ v = Head(rest).v
    /\ Carries(toServer', sending, Tail(rest))
    /\ IF kind = "order"
       THEN order' = v /\ reading' = Arguments(v) /\ UNCHANGED args
       ELSE args' = Append(args, v) /\ reading' = Tail(reading) /\ UNCHANGED order

\* What CCTRLServer::Read returns when it asks for the width of the next
\* field.
LEMMA ServerTakesField ==
    ASSUME ServerReads, NEW rest, Carries(toServer, sending, rest),
           Head(reading).size \in Nat,
           \/ Width(Head(rest)) = Head(reading).size
           \/ Width(Head(rest)) <= Head(reading).size /\ Tail(rest) = <<>>
    PROVE  ServerTakes(Head(rest).v, Head(reading).kind, rest)
<1>. DEFINE n == Most(toServer, Head(reading).size)
<1>1. ReadsField(toServer, sending, rest, n)
  BY RecvField DEF ServerReads
<1>2. /\ toServer' = SubSeq(toServer, n + 1, Len(toServer))
      /\ \E v \in Values(SubSeq(toServer, 1, n)) :
                 IF Head(reading).kind = "order"
                 THEN order' = v /\ reading' = Arguments(v) /\ UNCHANGED args
                 ELSE args' = Append(args, v) /\ reading' = Tail(reading) /\ UNCHANGED order
  BY DEF ServerReads, Most
<1>. HIDE DEF n
<1>. QED
  BY <1>1, <1>2 DEF ReadsField, ServerTakes

\* The order that is read is the one of the request.
LEMMA ReadsOrderStep ==
    ASSUME OrderInv, ServerReads, ReadsOrder, cur \in Request
    PROVE  order' = cur.order /\ args' = <<>> /\ reading' = Arguments(cur.order)
           /\ Carries(toServer', sending, ArgFields(cur))
<1>1. Starts(Sent(cur), OrderField(cur), ArgFields(cur), AField)
  BY SentStarts
<1>2. Head(Sent(cur)) = OrderField(cur) /\ Tail(Sent(cur)) = ArgFields(cur)
  BY <1>1 DEF Starts
<1>3. Head(reading) = Item("order")
  <2>1. <<"order">> \in Seq(Kind) /\ Len(<<"order">>) = 1 /\ <<"order">>[1] = "order"
    BY DEF Kind
  <2>2. PICK ks \in Seq(Kind) : ks = <<"order">> /\ Len(ks) = 1 /\ ks[1] = "order"
    BY <2>1
  <2>3. Items(ks) \in Seq(AnItem) /\ Len(Items(ks)) = 1 /\ Items(ks)[1] = Item("order")
    <3>1. /\ Items(ks) \in Seq(AnItem) /\ Len(Items(ks)) = Len(ks)
          /\ \A i \in 1..Len(ks) : Items(ks)[i] = Item(ks[i])
      BY ItemsType
    <3>2. 1 \in 1..Len(ks)
      BY <2>2
    <3>. QED
      BY <2>2, <3>1, <3>2
  <2>. QED
    BY <2>2, <2>3 DEF ReadsOrder
<1>4. Head(reading).kind = "order" /\ Head(reading).size = SizeOf("order")
  BY <1>3 DEF Item
<1>5. OrderField(cur).kind = "order" /\ OrderField(cur).v = cur.order
  BY DEF OrderField, Field
<1>6. Width(OrderField(cur)) = SizeOf("order") /\ SizeOf("order") \in Nat
  BY <1>5, SizeType DEF Width
<1>7. ServerTakes(cur.order, "order", Sent(cur))
  BY <1>2, <1>4, <1>5, <1>6, ServerTakesField DEF ReadsOrder
<1>. QED
  BY <1>2, <1>7 DEF ServerTakes, ReadsOrder

\* One element more.
LEMMA SubSeqNext ==
    ASSUME NEW T, NEW s \in Seq(T), NEW k \in 0..(Len(s) - 1)
    PROVE  Append(SubSeq(s, 1, k), s[k + 1]) = SubSeq(s, 1, k + 1)
<1>0. Len(s) \in Nat /\ k + 1 \in 1..Len(s) /\ 1 \in 1..Len(s) /\ k + 1 - 1 = k
  OBVIOUS
<1>1. SubSeq(s, 1, k) \in Seq(T) /\ s[k + 1] \in T
  BY <1>0
<1>2. SubSeq(s, 1, k + 1) = SubSeq(s, 1, k) \o <<s[k + 1]>>
  BY <1>0, SubSeqRecursiveSecond
<1>. QED
  BY <1>1, <1>2, AppendIsConcat

\* The argument that is read is the next one of the request.
LEMMA ReadsArgsStep ==
    ASSUME OrderInv, ServerReads, cur \in Request, NEW k \in 0..Len(cur.args), HasRead(k)
    PROVE  /\ k < Len(cur.args)
           /\ order' = cur.order /\ args' = SubSeq(cur.args, 1, k + 1)
           /\ reading' = From(Arguments(cur.order), k + 1)
           /\ Carries(toServer', sending, From(ArgFields(cur), k + 1))
<1>1. PICK ks \in Seq(Kind) : Arguments(cur.order) = Items(ks)
  BY ArgumentsKinds DEF ArgKindsOK
<1>2. PICK it \in Seq(AnItem) : it = Arguments(cur.order)
  BY <1>1, ItemsType
<1>3. Len(it) = Len(cur.args) /\ cur.args \in Seq(Nat) /\ Len(it) \in Nat
  BY <1>2 DEF Request
<1>4. PICK fs \in Seq(AField) : fs = ArgFields(cur) /\ Len(fs) = Len(cur.args)
  BY ArgFieldsType
<1>5. k < Len(cur.args) /\ k \in 0..(Len(cur.args) - 1) /\ k + 1 \in 1..Len(cur.args)
  <2>1. reading # <<>> /\ reading = From(it, k)
    BY <1>2 DEF ServerReads, HasRead
  <2>2. k # Len(it)
    BY <2>1, <1>3, FromEnd
  <2>. QED
    BY <2>2, <1>3
<1>6. Starts(From(it, k), it[k + 1], From(it, k + 1), AnItem)
  BY <1>3, <1>5, FromStarts
<1>7. Starts(From(fs, k), fs[k + 1], From(fs, k + 1), AField)
  BY <1>4, <1>5, FromStarts
<1>8. Head(reading) = it[k + 1] /\ Tail(reading) = From(it, k + 1)
  BY <1>2, <1>6 DEF HasRead, Starts
<1>9. Head(From(fs, k)) = fs[k + 1] /\ Tail(From(fs, k)) = From(fs, k + 1)
  BY <1>7 DEF Starts
<1>10. /\ it[k + 1].kind # "order" /\ it[k + 1].size \in Nat
       /\ fs[k + 1].v = cur.args[k + 1]
       /\ Width(fs[k + 1]) = it[k + 1].size \/ (Width(fs[k + 1]) <= it[k + 1].size /\ k + 1 = Len(cur.args))
  BY <1>2, <1>4, <1>5, ArgumentWidth
<1>11. k + 1 = Len(cur.args) => From(fs, k + 1) = <<>>
  BY <1>4, <1>5, FromEnd
<1>12. ServerTakes(fs[k + 1].v, it[k + 1].kind, From(fs, k))
  <2>1. Carries(toServer, sending, From(fs, k))
    BY <1>4 DEF HasRead
  <2>. QED
    BY <2>1, <1>8, <1>9, <1>10, <1>11, ServerTakesField
<1>13. args' = Append(args, cur.args[k + 1]) /\ reading' = From(it, k + 1) /\ order' = order
       /\ Carries(toServer', sending, From(fs, k + 1))
  BY <1>8, <1>9, <1>10, <1>12 DEF ServerTakes
<1>14. Append(args, cur.args[k + 1]) = SubSeq(cur.args, 1, k + 1)
  BY <1>3, <1>5, SubSeqNext DEF HasRead
<1>. QED
  BY <1>2, <1>4, <1>5, <1>13, <1>14 DEF HasRead

\* ServerReads keeps OrderInv.
LEMMA ServerReadsOrder ==
    ASSUME OrderInv, ServerReads
    PROVE  OrderInv'
<1>1. /\ UNCHANGED <<cpc, request, expect, sending, spc, serverEnd, toCtrl, short, lists, asked, executed, snapshot>>
      /\ spc = "read"
  BY DEF ServerReads, ctrl, history
<1>2. cur' = cur /\ Unserved' = Unserved /\ SessionTypeOK'
  BY <1>1 DEF cur, Unserved, SessionTypeOK, OrderInv
<1>3. Unserved /\ (ReadsOrder \/ ReadsArgs) /\ serverEnd = "open"
  BY <1>1 DEF OrderInv
<1>4. cur \in Request
  BY <1>3, CurType DEF OrderInv, Unserved
<1>5. ReadsArgs'
  <2>1. CASE ReadsOrder
    <3>1. order' = cur.order /\ args' = <<>> /\ reading' = Arguments(cur.order)
           /\ Carries(toServer', sending, ArgFields(cur))
      BY <2>1, <1>4, ReadsOrderStep
    <3>2. From(Arguments(cur.order), 0) = Arguments(cur.order)
      BY ArgumentsKinds, ItemsType, FromAll DEF ArgKindsOK
    <3>3. From(ArgFields(cur), 0) = ArgFields(cur)
      BY <1>4, ArgFieldsType, FromAll
    <3>4. SubSeq(cur.args, 1, 0) = <<>>
      BY SubSeqEmpty
    <3>5. HasRead(0)'
      BY <3>1, <3>2, <3>3, <3>4, <1>1, <1>2 DEF HasRead
    <3>6. 0 \in 0..Len(cur.args)
      BY <1>4 DEF Request
    <3>. QED
      BY <3>5, <3>6, <1>2 DEF ReadsArgs
  <2>2. CASE ReadsArgs
    <3>1. PICK k \in 0..Len(cur.args) : HasRead(k)
      BY <2>2 DEF ReadsArgs
    <3>2. /\ k < Len(cur.args)
          /\ order' = cur.order /\ args' = SubSeq(cur.args, 1, k + 1)
          /\ reading' = From(Arguments(cur.order), k + 1)
          /\ Carries(toServer', sending, From(ArgFields(cur), k + 1))
      BY <3>1, <1>4, ReadsArgsStep
    <3>3. HasRead(k + 1)'
      BY <3>2, <1>1, <1>2 DEF HasRead
    <3>4. k + 1 \in 0..Len(cur.args)
      BY <3>2, <1>4 DEF Request
    <3>. QED
      BY <3>3, <3>4, <1>2 DEF ReadsArgs
  <2>. QED
    BY <2>1, <2>2, <1>3
<1>. QED
  BY <1>1, <1>2, <1>3, <1>5 DEF OrderInv

\* The end of the connection keeps it.
LEMMA CloseOrder ==
    ASSUME OrderInv, spc' \in {"idle", "Killed"}, serverEnd' = "closed",
           UNCHANGED <<ctrl, lists, toServer, toCtrl, short, history>>
    PROVE  OrderInv'
<1>1. cur' = cur /\ Unserved' = Unserved /\ SessionTypeOK'
  BY DEF cur, Unserved, SessionTypeOK, OrderInv, ctrl, history
<1>. QED
  BY <1>1 DEF OrderInv, ctrl, history

\* So do the three steps that end it.
LEMMA ServerEndsOrder ==
    ASSUME OrderInv, ServerReadFails \/ ServerSendFails \/ OrderDone
    PROVE  OrderInv'
<1>1. /\ spc' \in {"idle", "Killed"} /\ serverEnd' = "closed"
      /\ UNCHANGED <<ctrl, lists, toServer, toCtrl, short, history>>
  BY DEF ServerReadFails, ServerSendFails, OrderDone, CloseClient
<1>. QED
  BY <1>1, CloseOrder

\* What is carried out is the request.
LEMMA ExecuteRequest ==
    ASSUME OrderInv, Execute
    PROVE  executed' = asked /\ cur \in Request /\ order = cur.order /\ args = cur.args /\ executed # asked
<1>1. Unserved /\ (ReadsOrder \/ ReadsArgs)
  BY DEF Execute, OrderInv
<1>2. cur \in Request
  BY <1>1, CurType DEF OrderInv, Unserved
<1>3. ~ReadsOrder
  <2>1. <<"order">> \in Seq(Kind) /\ Len(<<"order">>) = 1
    BY DEF Kind
  <2>2. Len(Items(<<"order">>)) = 1
    BY <2>1, ItemsType
  <2>. QED
    BY <2>2 DEF ReadsOrder, Execute
<1>4. PICK k \in 0..Len(cur.args) : HasRead(k)
  BY <1>1, <1>3 DEF ReadsArgs
<1>5. PICK it \in Seq(AnItem) : it = Arguments(cur.order)
  BY ArgumentsKinds, ItemsType DEF ArgKindsOK
<1>6. Len(it) = Len(cur.args) /\ cur.args \in Seq(Nat)
  BY <1>2, <1>5 DEF Request
<1>7. From(it, k) = <<>>
  BY <1>4, <1>5 DEF HasRead, Execute
<1>8. k = Len(cur.args)
  BY <1>6, <1>7, FromEnd
<1>9. args = cur.args /\ order = cur.order
  BY <1>4, <1>6, <1>8, SubSeqFull DEF HasRead
<1>10. [order |-> order, args |-> args] = cur
  BY <1>2, <1>9 DEF Request
<1>11. executed' = asked
  BY <1>1, <1>10 DEF Execute, Unserved
<1>12. executed # asked
  <2>1. executed \in Seq(Request) /\ Len(Append(executed, cur)) = Len(executed) + 1 /\ Len(executed) \in Nat
    BY <1>2, AppendProperties, LenProperties DEF OrderInv, SessionTypeOK
  <2>. QED
    BY <2>1, <1>1 DEF Unserved
<1>. QED
  BY <1>2, <1>9, <1>11, <1>12

\* Execute keeps it.
LEMMA ExecuteOrder ==
    ASSUME OrderInv, Execute
    PROVE  OrderInv'
<1>1. executed' = asked
  BY ExecuteRequest
<1>2. /\ UNCHANGED <<cpc, request, expect, sending, serverEnd, toServer, toCtrl, short, lists, asked>>
      /\ spc = "read" /\ spc' = "reply" /\ snapshot' = lists
  BY DEF Execute, ctrl, net
<1>3. SessionTypeOK'
  BY <1>1, <1>2 DEF SessionTypeOK, OrderInv
<1>4. cur' = cur
  BY <1>2 DEF cur
<1>5. serverEnd = "open"
  BY <1>2 DEF OrderInv
<1>. QED
  BY <1>1, <1>2, <1>3, <1>4, <1>5 DEF OrderInv

\* ServerSends keeps it.
LEMMA ServerSendsOrder ==
    ASSUME OrderInv, ServerSends
    PROVE  OrderInv'
<1>1. /\ UNCHANGED <<cpc, request, expect, sending, spc, serverEnd, toServer, short, lists, asked, executed, snapshot>>
      /\ spc = "reply"
  BY DEF ServerSends, ctrl, history
<1>2. cur' = cur /\ Unserved' = Unserved /\ SessionTypeOK'
  BY <1>1 DEF cur, Unserved, SessionTypeOK, OrderInv
<1>. QED
  BY <1>1, <1>2 DEF OrderInv

\* A change of the lists keeps it, and so does a step that changes nothing.
LEMMA OtherOrder ==
    ASSUME OrderInv, ListsChange \/ UNCHANGED vars
    PROVE  OrderInv'
<1>1. UNCHANGED <<ctrl, spc, order, args, reading, net, history>> /\ lists' \in Lists
  BY DEF ListsChange, vars, server, OrderInv, SessionTypeOK
<1>2. cur' = cur /\ Unserved' = Unserved /\ SessionTypeOK' /\ ReadsOrder' = ReadsOrder
  BY <1>1 DEF cur, Unserved, SessionTypeOK, OrderInv, ctrl, net, history, ReadsOrder
<1>3. ReadsArgs' = ReadsArgs
  BY <1>1, <1>2 DEF ReadsArgs, HasRead, ctrl, net
<1>. QED
  BY <1>1, <1>2, <1>3 DEF OrderInv, ctrl, net, history

\* Every step keeps OrderInv.
LEMMA NextOrder ==
    ASSUME OrderInv, [Next]_vars
    PROVE  OrderInv'
<1>1. CASE CtrlStep
  BY <1>1, ConnectOrder, SendsOrder, ReadsFailOrder, ReadsInOrder, EntryOrder, DoneOrder DEF CtrlStep
<1>2. CASE CtrlStops
  BY <1>2, StopsOrder
<1>3. CASE ServerStep
  BY <1>3, AcceptOrder, ServerReadsOrder, ServerEndsOrder, ExecuteOrder, ServerSendsOrder DEF ServerStep
<1>4. CASE ServerWaits \/ ListsChange \/ ConnectRefused \/ Over \/ UNCHANGED vars
  BY <1>4, OtherOrder DEF ServerWaits, ConnectRefused, Over
<1>. QED
  BY <1>1, <1>2, <1>3, <1>4 DEF Next

\* The server is never ahead of, or beside, what vwifi-ctrl asked for: of the
\* last request it has read a part, in order, and the rest is on its way or
\* still to be sent (OrderInv), wherever vwifi-ctrl stops.
THEOREM SessionInvariant == Spec => []OrderInv
<1>1. Init => OrderInv
  BY InitOrder
<1>2. OrderInv /\ [Next]_vars => OrderInv'
  BY NextOrder
<1>. QED
  BY <1>1, <1>2, PTL DEF Spec

\* CCTRLServer::ReceiveOrder carries out what the user asked for, whole and in
\* order, and nothing else (OrderIsWhole): an order is executed only when all
\* of its arguments have been read, and they are the ones vwifi-ctrl sent.
THEOREM OrdersAreWhole == Spec => []OrderIsWhole
<1>1. OrderInv => OrderIsWhole
  <2>. SUFFICES ASSUME OrderInv PROVE IsPrefix(executed, asked)
    BY DEF OrderIsWhole
  <2>1. executed \in Seq(Request) /\ asked \in Seq(Request)
    BY DEF OrderInv, SessionTypeOK
  <2>2. CASE executed = asked
    <3>1. Len(executed) <= Len(asked)
      BY <2>1, <2>2, LenProperties
    <3>. QED
      BY <2>2, <3>1 DEF IsPrefix
  <2>3. CASE Unserved
    <3>1. cur \in Request
      BY <2>3, CurType DEF OrderInv, Unserved
    <3>2. PICK c \in Request : asked = Append(executed, c)
      BY <2>3, <3>1 DEF Unserved
    <3>3. Len(asked) = Len(executed) + 1 /\ Len(executed) \in Nat /\ \A i \in 1..Len(executed) : asked[i] = executed[i]
      BY <2>1, <3>2, AppendProperties, LenProperties
    <3>4. SubSeq(executed, 1, Len(executed)) = SubSeq(asked, 1, Len(executed))
      <4>1. SubSeq(executed, 1, Len(executed)) = executed
        BY <2>1, SubSeqFull
      <4>2. PICK p \in Seq(Request) : /\ p = SubSeq(asked, 1, Len(executed)) /\ Len(p) = Len(executed)
                                      /\ \A i \in 1..Len(executed) : p[i] = asked[i]
        <5>1. /\ SubSeq(asked, 1, Len(executed)) \in Seq(Request) /\ Len(SubSeq(asked, 1, Len(executed))) = Len(executed)
              /\ \A i \in 1..Len(executed) : SubSeq(asked, 1, Len(executed))[i] = asked[i]
          BY <2>1, <3>3
        <5>. QED
          BY <5>1
      <4>3. p = executed
        BY <2>1, <3>3, <4>2, SeqEqual
      <4>. QED
        BY <4>1, <4>2, <4>3
    <3>. QED
      BY <3>3, <3>4 DEF IsPrefix
  <2>. QED
    BY <2>2, <2>3 DEF OrderInv
<1>. QED
  BY <1>1, SessionInvariant, PTL

-----------------------------------------------------------------------------
(***************************************************************************)
(* The entries of a list: how they are read and how they are sent          *)
(***************************************************************************)

\* How an entry of a list is read: from each of its items on, items being
\* what is to be read behind it.
FromLine(line, items) == <<Item(line)>> \o items

\* From the moment all of it has been read on: it is stored.
FromStore(line, items) == <<Item("store")>> \o FromLine(line, items)

\* From its name on, which has w characters.
FromName(w, line, items) == <<[kind |-> "name", size |-> w + 1]>> \o FromStore(line, items)

\* From the size of its name on.
FromSize(line, items) == <<Item("size")>> \o FromStore(line, items)

\* From its place on.
FromCoo(line, items) == <<Item("coo")>> \o FromSize(line, items)

\* From its cid on: all of it.
FromCid(line, items) == <<Item("cid")>> \o FromCoo(line, items)

\* And how it is sent.
NameOf(x, fields) == IF x.name > 0 THEN <<Field("name", x.name)>> \o fields ELSE fields

\* From the size of the name on.
SizeFrom(x, fields) == <<Field("size", x.name)>> \o NameOf(x, fields)

\* From the place on.
CooFrom(x, fields) == <<Field("coo", 0)>> \o SizeFrom(x, fields)

\* From the cid on: all of it.
CidFrom(x, fields) == <<Field("cid", x.cid)>> \o CooFrom(x, fields)

\* The item of a kind.
LEMMA KindItem ==
    ASSUME NEW kind \in Kind
    PROVE  Item(kind) \in AnItem /\ Item(kind).kind = kind /\ Item(kind).size = SizeOf(kind)
  BY SizeType DEF Item, AnItem

\* A field of a kind, with a number as its value.
LEMMA KindField ==
    ASSUME NEW kind \in Kind, NEW v \in Nat
    PROVE  Field(kind, v) \in AField /\ Field(kind, v).kind = kind /\ Field(kind, v).v = v
  BY DEF Field, AField

\* Each of the items of an entry is followed by the next one.
LEMMA EntryItems ==
    ASSUME NEW line \in {"S", "C"}, NEW items \in Seq(AnItem)
    PROVE  /\ Starts(FromLine(line, items), Item(line), items, AnItem)
           /\ Starts(FromStore(line, items), Item("store"), FromLine(line, items), AnItem)
           /\ Starts(FromSize(line, items), Item("size"), FromStore(line, items), AnItem)
           /\ Starts(FromCoo(line, items), Item("coo"), FromSize(line, items), AnItem)
           /\ Starts(FromCid(line, items), Item("cid"), FromCoo(line, items), AnItem)
<1>0. line \in Kind /\ "store" \in Kind /\ "size" \in Kind /\ "coo" \in Kind /\ "cid" \in Kind
  BY DEF Kind
<1>1. Starts(FromLine(line, items), Item(line), items, AnItem)
  BY <1>0, KindItem, StartsWith DEF FromLine
<1>2. Starts(FromStore(line, items), Item("store"), FromLine(line, items), AnItem)
  <2>1. FromLine(line, items) \in Seq(AnItem) /\ Item("store") \in AnItem
    BY <1>0, <1>1, KindItem DEF Starts
  <2>. QED
    BY <2>1, StartsWith DEF FromStore
<1>3. Starts(FromSize(line, items), Item("size"), FromStore(line, items), AnItem)
  <2>1. FromStore(line, items) \in Seq(AnItem) /\ Item("size") \in AnItem
    BY <1>0, <1>2, KindItem DEF Starts
  <2>. QED
    BY <2>1, StartsWith DEF FromSize
<1>4. Starts(FromCoo(line, items), Item("coo"), FromSize(line, items), AnItem)
  <2>1. FromSize(line, items) \in Seq(AnItem) /\ Item("coo") \in AnItem
    BY <1>0, <1>3, KindItem DEF Starts
  <2>. QED
    BY <2>1, StartsWith DEF FromCoo
<1>5. Starts(FromCid(line, items), Item("cid"), FromCoo(line, items), AnItem)
  <2>1. FromCoo(line, items) \in Seq(AnItem) /\ Item("cid") \in AnItem
    BY <1>0, <1>4, KindItem DEF Starts
  <2>. QED
    BY <2>1, StartsWith DEF FromCid
<1>. QED
  BY <1>1, <1>2, <1>3, <1>4, <1>5

\* The name is followed by the moment of storing.
LEMMA NameItems ==
    ASSUME NEW line \in {"S", "C"}, NEW items \in Seq(AnItem), NEW w \in Nat
    PROVE  Starts(FromName(w, line, items), [kind |-> "name", size |-> w + 1], FromStore(line, items), AnItem)
<1>1. FromStore(line, items) \in Seq(AnItem)
  BY EntryItems DEF Starts
<1>2. [kind |-> "name", size |-> w + 1] \in AnItem
  BY DEF AnItem, Kind
<1>. QED
  BY <1>1, <1>2, StartsWith DEF FromName

\* The cid and the length of the name of an entry.
LEMMA EntryType ==
    ASSUME NEW x \in Entry
    PROVE  x.cid \in Nat /\ x.name \in Nat /\ x.name <= MAX_SIZE_NAME
  BY CtrlAssumption DEF Entry

\* Each of the fields of an entry is followed by the next one; the name only
\* if there is one.
LEMMA EntryFields ==
    ASSUME NEW x \in Entry, NEW fields \in Seq(AField)
    PROVE  /\ NameOf(x, fields) \in Seq(AField)
           /\ x.name > 0 => Starts(NameOf(x, fields), Field("name", x.name), fields, AField)
           /\ Starts(SizeFrom(x, fields), Field("size", x.name), NameOf(x, fields), AField)
           /\ Starts(CooFrom(x, fields), Field("coo", 0), SizeFrom(x, fields), AField)
           /\ Starts(CidFrom(x, fields), Field("cid", x.cid), CooFrom(x, fields), AField)
<1>0. "name" \in Kind /\ "size" \in Kind /\ "coo" \in Kind /\ "cid" \in Kind
  BY DEF Kind
<1>1. /\ Field("name", x.name) \in AField /\ Field("size", x.name) \in AField
      /\ Field("coo", 0) \in AField /\ Field("cid", x.cid) \in AField
  BY <1>0, EntryType, KindField
<1>2. x.name > 0 => Starts(NameOf(x, fields), Field("name", x.name), fields, AField)
  BY <1>1, StartsWith DEF NameOf
<1>3. NameOf(x, fields) \in Seq(AField)
  BY <1>2 DEF Starts, NameOf
<1>4. Starts(SizeFrom(x, fields), Field("size", x.name), NameOf(x, fields), AField)
  BY <1>1, <1>3, StartsWith DEF SizeFrom
<1>5. Starts(CooFrom(x, fields), Field("coo", 0), SizeFrom(x, fields), AField)
  <2>1. SizeFrom(x, fields) \in Seq(AField)
    BY <1>4 DEF Starts
  <2>. QED
    BY <1>1, <2>1, StartsWith DEF CooFrom
<1>6. Starts(CidFrom(x, fields), Field("cid", x.cid), CooFrom(x, fields), AField)
  <2>1. CooFrom(x, fields) \in Seq(AField)
    BY <1>5 DEF Starts
  <2>. QED
    BY <1>1, <2>1, StartsWith DEF CidFrom
<1>. QED
  BY <1>2, <1>3, <1>4, <1>5, <1>6

\* A sequence of one in front of a sum.
LEMMA OneAssociates ==
    ASSUME NEW T, NEW x \in T, NEW s \in Seq(T), NEW t \in Seq(T)
    PROVE  (<<x>> \o s) \o t = <<x>> \o (s \o t)
<1>1. PICK o \in Seq(T) : o = <<x>>
  BY OneType
<1>2. Associative(T)
  BY Associates
<1>3. (o \o s) \o t = o \o (s \o t)
  BY <1>2, Zenon DEF Associative
<1>. QED
  BY <1>1, <1>3, Zenon

\* An element in front of a sum stands in front of its first part.
OneFirst(T) == \A x \in T : \A s, t \in Seq(T) : (<<x>> \o s) \o t = <<x>> \o (s \o t)

\* It does, for the sequences over any set.
LEMMA OnesFirst ==
    ASSUME NEW T
    PROVE  OneFirst(T)
  BY OneAssociates DEF OneFirst

\* The kinds of the items GetCInfoWifis adds for one entry.
EntryKinds(line) == <<"cid", "coo", "size", "store", line>>

\* The items of an entry.
LEMMA EntryItemsAre ==
    ASSUME NEW line \in {"S", "C"}
    PROVE  Items(EntryKinds(line)) = FromCid(line, <<>>)
<1>1. PICK ks \in Seq(Kind) : /\ ks = EntryKinds(line) /\ Len(ks) = 5 /\ ks[1] = "cid" /\ ks[2] = "coo"
                              /\ ks[3] = "size" /\ ks[4] = "store" /\ ks[5] = line
  <2>1. EntryKinds(line) \in Seq(Kind) /\ Len(EntryKinds(line)) = 5
    BY DEF EntryKinds, Kind
  <2>. QED
    BY <2>1 DEF EntryKinds
<1>2. PICK s \in Seq(AnItem) : /\ s = Items(ks) /\ Len(s) = 5 /\ s[1] = Item("cid") /\ s[2] = Item("coo")
                               /\ s[3] = Item("size") /\ s[4] = Item("store") /\ s[5] = Item(line)
  <2>1. /\ Items(ks) \in Seq(AnItem) /\ Len(Items(ks)) = Len(ks)
        /\ \A i \in 1..Len(ks) : Items(ks)[i] = Item(ks[i])
    BY ItemsType
  <2>2. 1 \in 1..Len(ks) /\ 2 \in 1..Len(ks) /\ 3 \in 1..Len(ks) /\ 4 \in 1..Len(ks) /\ 5 \in 1..Len(ks)
    BY <1>1
  <2>. QED
    BY <1>1, <2>1, <2>2
<1>3. From(s, 5) = <<>> /\ From(s, 0) = s
  <2>1. 5 \in 0..Len(s) /\ 5 = Len(s)
    BY <1>2
  <2>2. From(s, 5) = <<>>
    BY <2>1, FromEnd
  <2>3. From(s, 0) = s
    BY FromAll
  <2>. QED
    BY <2>2, <2>3
<1>4. From(s, 4) = <<Item(line)>> \o From(s, 5)
  <2>0. 4 \in 0..(Len(s) - 1)
    BY <1>2
  <2>1. Starts(From(s, 4), s[4 + 1], From(s, 4 + 1), AnItem)
    BY <2>0, FromStarts
  <2>. QED
    BY <1>2, <2>1 DEF Starts
<1>5. From(s, 3) = <<Item("store")>> \o From(s, 4)
  <2>0. 3 \in 0..(Len(s) - 1)
    BY <1>2
  <2>1. Starts(From(s, 3), s[3 + 1], From(s, 3 + 1), AnItem)
    BY <2>0, FromStarts
  <2>. QED
    BY <1>2, <2>1 DEF Starts
<1>6. From(s, 2) = <<Item("size")>> \o From(s, 3)
  <2>0. 2 \in 0..(Len(s) - 1)
    BY <1>2
  <2>1. Starts(From(s, 2), s[2 + 1], From(s, 2 + 1), AnItem)
    BY <2>0, FromStarts
  <2>. QED
    BY <1>2, <2>1 DEF Starts
<1>7. From(s, 1) = <<Item("coo")>> \o From(s, 2)
  <2>0. 1 \in 0..(Len(s) - 1)
    BY <1>2
  <2>1. Starts(From(s, 1), s[1 + 1], From(s, 1 + 1), AnItem)
    BY <2>0, FromStarts
  <2>. QED
    BY <1>2, <2>1 DEF Starts
<1>8. From(s, 0) = <<Item("cid")>> \o From(s, 1)
  <2>0. 0 \in 0..(Len(s) - 1)
    BY <1>2
  <2>1. Starts(From(s, 0), s[0 + 1], From(s, 0 + 1), AnItem)
    BY <2>0, FromStarts
  <2>. QED
    BY <1>2, <2>1 DEF Starts
<1>9. s = FromCid(line, <<>>)
  BY <1>3, <1>4, <1>5, <1>6, <1>7, <1>8, Zenon DEF FromCid, FromCoo, FromSize, FromStore, FromLine
<1>. QED
  BY <1>1, <1>2, <1>9

\* The items behind an entry may be joined to it.
LEMMA FromCidJoin ==
    ASSUME NEW line \in {"S", "C"}, NEW a \in Seq(AnItem), NEW b \in Seq(AnItem)
    PROVE  FromCid(line, a) \o b = FromCid(line, a \o b) /\ FromCid(line, a) \in Seq(AnItem)
<1>0. /\ Item(line) \in AnItem /\ Item("store") \in AnItem /\ Item("size") \in AnItem
      /\ Item("coo") \in AnItem /\ Item("cid") \in AnItem
  BY KindItem DEF Kind
<1>1. /\ FromLine(line, a) \in Seq(AnItem) /\ FromStore(line, a) \in Seq(AnItem) /\ FromSize(line, a) \in Seq(AnItem)
      /\ FromCoo(line, a) \in Seq(AnItem) /\ FromCid(line, a) \in Seq(AnItem)
  BY EntryItems DEF Starts
<1>2. FromLine(line, a) \o b = FromLine(line, a \o b)
  BY <1>0, OneAssociates DEF FromLine
<1>3. FromStore(line, a) \o b = FromStore(line, a \o b)
  <2>1. (<<Item("store")>> \o FromLine(line, a)) \o b = <<Item("store")>> \o (FromLine(line, a) \o b)
    <3>1. OneFirst(AnItem)
      BY OnesFirst
    <3>. QED
      BY <1>0, <1>1, <3>1, ZenonT(40) DEF OneFirst
  <2>. QED
    BY <1>2, <2>1, Zenon DEF FromStore
<1>4. FromSize(line, a) \o b = FromSize(line, a \o b)
  <2>1. (<<Item("size")>> \o FromStore(line, a)) \o b = <<Item("size")>> \o (FromStore(line, a) \o b)
    <3>1. OneFirst(AnItem)
      BY OnesFirst
    <3>. QED
      BY <1>0, <1>1, <3>1, ZenonT(40) DEF OneFirst
  <2>. QED
    BY <1>3, <2>1, Zenon DEF FromSize
<1>5. FromCoo(line, a) \o b = FromCoo(line, a \o b)
  <2>1. (<<Item("coo")>> \o FromSize(line, a)) \o b = <<Item("coo")>> \o (FromSize(line, a) \o b)
    <3>1. OneFirst(AnItem)
      BY OnesFirst
    <3>. QED
      BY <1>0, <1>1, <3>1, ZenonT(40) DEF OneFirst
  <2>. QED
    BY <1>4, <2>1, Zenon DEF FromCoo
<1>6. FromCid(line, a) \o b = FromCid(line, a \o b)
  <2>1. (<<Item("cid")>> \o FromCoo(line, a)) \o b = <<Item("cid")>> \o (FromCoo(line, a) \o b)
    <3>1. OneFirst(AnItem)
      BY OnesFirst
    <3>. QED
      BY <1>0, <1>1, <3>1, Zenon DEF OneFirst
  <2>. QED
    BY <1>5, <2>1, Zenon DEF FromCid
<1>. QED
  BY <1>1, <1>6

\* So may the fields.
LEMMA CidFromJoin ==
    ASSUME NEW x \in Entry, NEW a \in Seq(AField), NEW b \in Seq(AField)
    PROVE  CidFrom(x, a) \o b = CidFrom(x, a \o b) /\ CidFrom(x, a) \in Seq(AField)
<1>0. /\ Field("name", x.name) \in AField /\ Field("size", x.name) \in AField
      /\ Field("coo", 0) \in AField /\ Field("cid", x.cid) \in AField
  BY EntryType, KindField DEF Kind
<1>1. /\ NameOf(x, a) \in Seq(AField) /\ SizeFrom(x, a) \in Seq(AField)
      /\ CooFrom(x, a) \in Seq(AField) /\ CidFrom(x, a) \in Seq(AField)
  BY EntryFields DEF Starts
<1>2. NameOf(x, a) \o b = NameOf(x, a \o b)
  <2>1. (<<Field("name", x.name)>> \o a) \o b = <<Field("name", x.name)>> \o (a \o b)
    BY <1>0, OneAssociates
  <2>. QED
    BY <2>1, Zenon DEF NameOf
<1>3. SizeFrom(x, a) \o b = SizeFrom(x, a \o b)
  <2>1. (<<Field("size", x.name)>> \o NameOf(x, a)) \o b = <<Field("size", x.name)>> \o (NameOf(x, a) \o b)
    <3>1. OneFirst(AField)
      BY OnesFirst
    <3>. QED
      BY <1>0, <1>1, <3>1, ZenonT(40) DEF OneFirst
  <2>. QED
    BY <1>2, <2>1, Zenon DEF SizeFrom
<1>4. CooFrom(x, a) \o b = CooFrom(x, a \o b)
  <2>1. (<<Field("coo", 0)>> \o SizeFrom(x, a)) \o b = <<Field("coo", 0)>> \o (SizeFrom(x, a) \o b)
    <3>1. OneFirst(AField)
      BY OnesFirst
    <3>. QED
      BY <1>0, <1>1, <3>1, ZenonT(40) DEF OneFirst
  <2>. QED
    BY <1>3, <2>1, Zenon DEF CooFrom
<1>5. CidFrom(x, a) \o b = CidFrom(x, a \o b)
  <2>1. (<<Field("cid", x.cid)>> \o CooFrom(x, a)) \o b = <<Field("cid", x.cid)>> \o (CooFrom(x, a) \o b)
    <3>1. OneFirst(AField)
      BY OnesFirst
    <3>. QED
      BY <1>0, <1>1, <3>1, Zenon DEF OneFirst
  <2>. QED
    BY <1>4, <2>1, Zenon DEF CidFrom
<1>. QED
  BY <1>1, <1>5

\* A pair, element by element.
LEMMA TupleOfTwo ==
    ASSUME NEW T, NEW b \in T, NEW c \in T
    PROVE  <<b, c>> = <<b>> \o <<c>>
<1>1. PICK s \in Seq(T) : s = <<b, c>> /\ Len(s) = 2 /\ s[1] = b /\ s[2] = c
  <2>1. <<b, c>> \in Seq(T) /\ Len(<<b, c>>) = 2
    OBVIOUS
  <2>. QED
    BY <2>1
<1>2. Starts(From(s, 0), s[0 + 1], From(s, 0 + 1), T) /\ Starts(From(s, 1), s[1 + 1], From(s, 1 + 1), T)
  <2>1. 0 \in 0..(Len(s) - 1) /\ 1 \in 0..(Len(s) - 1)
    BY <1>1
  <2>. QED
    BY <2>1, FromStarts
<1>3. From(s, 0) = s /\ From(s, 2) = <<>>
  <2>1. 2 \in 0..Len(s) /\ 2 = Len(s)
    BY <1>1
  <2>2. From(s, 2) = <<>>
    BY <2>1, FromEnd
  <2>. QED
    BY <2>2, FromAll
<1>4. s = <<b>> \o From(s, 1) /\ From(s, 1) = <<c>> \o From(s, 2)
  <2>1. From(s, 0) = <<s[0 + 1]>> \o From(s, 0 + 1) /\ From(s, 1) = <<s[1 + 1]>> \o From(s, 1 + 1)
    BY <1>2, Zenon DEF Starts
  <2>2. 0 + 1 = 1 /\ 1 + 1 = 2
    OBVIOUS
  <2>. QED
    BY <1>1, <1>3, <2>1, <2>2, Zenon
<1>5. <<c>> \o <<>> = <<c>>
  <2>1. PICK o \in Seq(T) : o = <<c>>
    BY OneType
  <2>2. o \o <<>> = o
    BY ConcatEmptySeq
  <2>. QED
    BY <2>1, <2>2, Zenon
<1>. QED
  BY <1>1, <1>3, <1>4, <1>5, Zenon

\* A triple, element by element.
LEMMA TupleOfThree ==
    ASSUME NEW T, NEW a \in T, NEW b \in T, NEW c \in T
    PROVE  <<a, b, c>> = <<a>> \o <<b, c>>
<1>1. PICK s \in Seq(T) : s = <<a, b, c>> /\ Len(s) = 3 /\ s[1] = a /\ s[2] = b /\ s[3] = c
  <2>1. <<a, b, c>> \in Seq(T) /\ Len(<<a, b, c>>) = 3
    OBVIOUS
  <2>. QED
    BY <2>1
<1>2. Starts(From(s, 0), s[0 + 1], From(s, 0 + 1), T)
  <2>1. 0 \in 0..(Len(s) - 1)
    BY <1>1
  <2>. QED
    BY <2>1, FromStarts
<1>3. From(s, 0) = s
  BY FromAll
<1>4. s = <<a>> \o From(s, 1)
  <2>1. From(s, 0) = <<s[0 + 1]>> \o From(s, 0 + 1)
    BY <1>2, Zenon DEF Starts
  <2>2. 0 + 1 = 1
    OBVIOUS
  <2>. QED
    BY <1>1, <1>3, <2>1, <2>2, Zenon
<1>5. PICK r \in Seq(T) : r = From(s, 1) /\ Len(r) = 2 /\ r[1] = b /\ r[2] = c
  <2>1. 1 \in 0..Len(s)
    BY <1>1
  <2>2. From(s, 1) \in Seq(T) /\ Len(From(s, 1)) = Len(s) - 1 /\ \A i \in 1..(Len(s) - 1) : From(s, 1)[i] = s[1 + i]
    BY <2>1, FromType
  <2>3. 1 \in 1..(Len(s) - 1) /\ 2 \in 1..(Len(s) - 1) /\ Len(s) - 1 = 2
    BY <1>1
  <2>4. From(s, 1)[1] = s[1 + 1] /\ From(s, 1)[2] = s[1 + 2]
    BY <2>2, <2>3
  <2>5. From(s, 1)[1] = b /\ From(s, 1)[2] = c
    BY <2>4, <1>1
  <2>. QED
    BY <2>2, <2>3, <2>5
<1>6. r = <<b, c>>
  <2>1. PICK q \in Seq(T) : q = <<b, c>> /\ Len(q) = 2 /\ q[1] = b /\ q[2] = c
    <3>1. <<b, c>> \in Seq(T) /\ Len(<<b, c>>) = 2
      OBVIOUS
    <3>. QED
      BY <3>1
  <2>2. \A i \in 1..2 : r[i] = q[i]
    BY <1>5, <2>1
  <2>. QED
    BY <1>5, <2>1, <2>2, SeqEqual
<1>. QED
  BY <1>1, <1>4, <1>5, <1>6, Zenon

\* What SendCInfoWifi sends.
LEMMA SendsEntry ==
    ASSUME NEW x \in Entry
    PROVE  SendCInfoWifi(x) = CidFrom(x, <<>>) /\ SendCInfoWifi(x) \in Seq(AField)
<1>0. /\ Field("name", x.name) \in AField /\ Field("size", x.name) \in AField
      /\ Field("coo", 0) \in AField /\ Field("cid", x.cid) \in AField
  BY EntryType, KindField DEF Kind
<1>1. PICK a \in AField, b \in AField, c \in AField :
            a = Field("cid", x.cid) /\ b = Field("coo", 0) /\ c = Field("size", x.name)
  BY <1>0
<1>2. PICK n \in Seq(AField) : n = (IF x.name > 0 THEN <<Field("name", x.name)>> ELSE <<>>)
  <2>1. <<Field("name", x.name)>> \in Seq(AField) /\ <<>> \in Seq(AField)
    BY <1>0, OneType, EmptySeq
  <2>. QED
    BY <2>1
<1>3. n = NameOf(x, <<>>)
  <2>1. <<Field("name", x.name)>> \o <<>> = <<Field("name", x.name)>>
    <3>1. PICK o \in Seq(AField) : o = <<Field("name", x.name)>>
      BY <1>0, OneType
    <3>2. o \o <<>> = o
      BY ConcatEmptySeq
    <3>. QED
      BY <3>1, <3>2, Zenon
  <2>. QED
    BY <1>2, <2>1, Zenon DEF NameOf
<1>4. <<a, b, c>> = <<a>> \o <<b, c>> /\ <<b, c>> = <<b>> \o <<c>>
  BY TupleOfTwo, TupleOfThree
<1>5. <<b, c>> \in Seq(AField) /\ <<c>> \in Seq(AField)
  OBVIOUS
<1>6. <<b, c>> \o n = <<b>> \o (<<c>> \o n)
  BY <1>4, <1>5, OneAssociates
<1>7. <<a, b, c>> \o n = <<a>> \o (<<b>> \o (<<c>> \o n))
  <2>1. (<<a>> \o <<b, c>>) \o n = <<a>> \o (<<b, c>> \o n)
    BY <1>5, OneAssociates
  <2>. QED
    BY <2>1, <1>4, <1>6, Zenon
<1>8. SendCInfoWifi(x) = <<a, b, c>> \o n
  BY <1>1, <1>2, Zenon DEF SendCInfoWifi
<1>9. CidFrom(x, <<>>) = <<a>> \o (<<b>> \o (<<c>> \o n))
  BY <1>1, <1>3, Zenon DEF CidFrom, CooFrom, SizeFrom
<1>10. CidFrom(x, <<>>) \in Seq(AField)
  BY EmptySeq, CidFromJoin
<1>. QED
  BY <1>7, <1>8, <1>9, <1>10, Zenon

\* k times s.
Repeated(k, s) == [i \in 1..k |-> s]

\* Once more.
LEMMA RepeatedNext ==
    ASSUME NEW T, NEW k \in Nat, NEW s \in T
    PROVE  /\ Repeated(k, s) \in Seq(T) /\ Repeated(0, s) = <<>>
           /\ Repeated(k + 1, s) = <<s>> \o Repeated(k, s)
<1>1. ASSUME NEW n \in Nat PROVE Repeated(n, s) \in Seq(T) /\ Len(Repeated(n, s)) = n
  <2>1. Repeated(n, s) \in [1..n -> T]
    BY DEF Repeated
  <2>. QED
    BY <2>1, FunctionIsSeq
<1>2. PICK a \in Seq(T) : a = Repeated(k, s) /\ Len(a) = k /\ \A i \in 1..k : a[i] = s
  BY <1>1 DEF Repeated
<1>3. PICK b \in Seq(T) : b = Repeated(k + 1, s) /\ Len(b) = k + 1 /\ \A i \in 1..(k + 1) : b[i] = s
  <2>1. k + 1 \in Nat
    OBVIOUS
  <2>2. Repeated(k + 1, s) \in Seq(T) /\ Len(Repeated(k + 1, s)) = k + 1
    BY <1>1, <2>1
  <2>. QED
    BY <2>2 DEF Repeated
<1>4. PICK c \in Seq(T) : c = <<s>> \o a
  BY ConsType
<1>5. Len(c) = k + 1 /\ \A i \in 1..(k + 1) : c[i] = s
  BY <1>2, <1>4
<1>6. b = c
  BY <1>3, <1>5, SeqEqual
<1>7. Repeated(0, s) = <<>>
  <2>1. Repeated(0, s) \in Seq(T) /\ Len(Repeated(0, s)) = 0
    BY <1>1
  <2>. QED
    BY <2>1, EmptySeq
<1>. QED
  BY <1>2, <1>3, <1>4, <1>6, <1>7

\* The loops of AskList: reading k + 1 entries is reading one and then k.
LEMMA GetsNext ==
    ASSUME NEW line \in {"S", "C"}, NEW k \in Nat
    PROVE  /\ GetCInfoWifis(k, line) \in Seq(AnItem) /\ GetCInfoWifis(0, line) = <<>>
           /\ GetCInfoWifis(k + 1, line) = FromCid(line, GetCInfoWifis(k, line))
<1>0. <<>> \in Seq(AnItem)
  BY EmptySeq
<1>1. PICK s \in Seq(AnItem) : s = Items(EntryKinds(line)) /\ s = FromCid(line, <<>>)
  BY <1>0, EntryItemsAre, FromCidJoin
<1>2. \A n : GetCInfoWifis(n, line) = FlattenSeq(Repeated(n, s))
  BY <1>1 DEF GetCInfoWifis, Repeated, EntryKinds
<1>3. PICK g \in Seq(Seq(AnItem)) : g = Repeated(k, s) /\ Repeated(k + 1, s) = <<s>> \o g
  BY RepeatedNext
<1>4. FlattenSeq(<<s>> \o g) = s \o FlattenSeq(g)
  BY FlattenCons
<1>5. PICK r \in Seq(AnItem) : r = FlattenSeq(g)
  BY FlattenType
<1>6. s \o r = FromCid(line, r)
  <2>1. FromCid(line, <<>>) \o r = FromCid(line, <<>> \o r)
    BY <1>0, FromCidJoin, ZenonT(40)
  <2>2. <<>> \o r = r
    BY ConcatEmptySeq
  <2>. QED
    BY <1>1, <2>1, <2>2, Zenon
<1>7. GetCInfoWifis(0, line) = <<>>
  <2>1. Repeated(0, s) = <<>>
    BY RepeatedNext
  <2>. QED
    BY <1>2, <2>1, FlattenEmpty
<1>. QED
  BY <1>2, <1>3, <1>4, <1>5, <1>6, <1>7

\* The fields of each entry.
Parts(list) == [i \in 1..Len(list) |-> SendCInfoWifi(list[i])]

\* What Parts is: the fields of one entry for every entry.
LEMMA PartsAre ==
    ASSUME NEW list \in Seq(Entry)
    PROVE  /\ Parts(list) \in Seq(Seq(AField)) /\ Len(Parts(list)) = Len(list)
           /\ \A i \in 1..Len(list) : Parts(list)[i] = SendCInfoWifi(list[i])
           /\ SendCInfoWifis(list) = FlattenSeq(Parts(list))
<1>1. \A i \in 1..Len(list) : SendCInfoWifi(list[i]) \in Seq(AField)
  BY SendsEntry
<1>2. Parts(list) \in [1..Len(list) -> Seq(AField)] /\ Len(list) \in Nat
  BY <1>1 DEF Parts
<1>3. Parts(list) \in Seq(Seq(AField)) /\ Len(Parts(list)) = Len(list)
  BY <1>2, FunctionIsSeq
<1>. QED
  BY <1>3 DEF Parts, SendCInfoWifis

\* What SendCInfoWifi sends for a list are fields.
LEMMA SendsType ==
    ASSUME NEW list \in Seq(Entry)
    PROVE  SendCInfoWifis(list) \in Seq(AField) /\ (Len(list) = 0 => SendCInfoWifis(list) = <<>>)
<1>1. SendCInfoWifis(list) \in Seq(AField)
  BY PartsAre, FlattenType
<1>2. ASSUME Len(list) = 0 PROVE SendCInfoWifis(list) = <<>>
  <2>1. Parts(list) = <<>>
    BY <1>2, PartsAre, EmptySeq
  <2>. QED
    BY <2>1, PartsAre, FlattenEmpty
<1>. QED
  BY <1>1, <1>2

\* The entries of a list from the k-th on, and those behind it.
LEMMA SendsNext ==
    ASSUME NEW list \in Seq(Entry), NEW k \in 0..(Len(list) - 1)
    PROVE  SendCInfoWifis(From(list, k)) = CidFrom(list[k + 1], SendCInfoWifis(From(list, k + 1)))
<1>0. k \in 0..Len(list) /\ k + 1 \in 0..Len(list) /\ k + 1 \in 1..Len(list) /\ Len(list) \in Nat /\ list[k + 1] \in Entry
  BY ElementOfSeq
<1>1. PICK l0 \in Seq(Entry) : l0 = From(list, k) /\ Len(l0) = Len(list) - k
                               /\ \A i \in 1..(Len(list) - k) : l0[i] = list[k + i]
  BY <1>0, FromType
<1>2. PICK l1 \in Seq(Entry) : l1 = From(list, k + 1) /\ Len(l1) = Len(list) - (k + 1)
                               /\ \A i \in 1..(Len(list) - (k + 1)) : l1[i] = list[(k + 1) + i]
  BY <1>0, FromType
<1>3. PICK p0 \in Seq(Seq(AField)) : p0 = Parts(l0) /\ Len(p0) = Len(l0)
                               /\ (\A i \in 1..Len(l0) : p0[i] = SendCInfoWifi(l0[i])) /\ SendCInfoWifis(l0) = FlattenSeq(p0)
  BY PartsAre
<1>4. PICK p1 \in Seq(Seq(AField)) : p1 = Parts(l1) /\ Len(p1) = Len(l1)
                               /\ (\A i \in 1..Len(l1) : p1[i] = SendCInfoWifi(l1[i])) /\ SendCInfoWifis(l1) = FlattenSeq(p1)
  BY PartsAre
<1>5. PICK x \in Entry : x = list[k + 1]
  BY <1>0
<1>6. PICK s \in Seq(AField) : s = SendCInfoWifi(x)
  BY SendsEntry
<1>7. PICK c \in Seq(Seq(AField)) : c = <<s>> \o p1
  BY ConsType
<1>8. Len(c) = Len(p1) + 1 /\ c[1] = s /\ \A i \in 1..Len(p1) : c[i + 1] = p1[i]
  BY <1>7
<1>9. ASSUME NEW i \in 1..Len(p0) PROVE p0[i] = c[i]
  <2>1. CASE i = 1
    <3>1. p0[1] = SendCInfoWifi(l0[1]) /\ l0[1] = list[k + 1]
      BY <1>0, <1>1, <1>3
    <3>. QED
      BY <2>1, <3>1, <1>5, <1>6, <1>8
  <2>2. CASE i # 1
    <3>1. PICK j : j = i - 1
      OBVIOUS
    <3>2. j \in 1..Len(l1) /\ j + 1 = i /\ i \in 1..Len(l0) /\ (k + 1) + j = k + i /\ j \in 1..(Len(list) - (k + 1))
          /\ i \in 1..(Len(list) - k)
      BY <3>1, <2>2, <1>0, <1>1, <1>2, <1>3
    <3>3. l0[i] = list[k + i] /\ l1[j] = list[k + i]
      BY <3>2, <1>1, <1>2
    <3>4. p0[i] = SendCInfoWifi(l0[i]) /\ p1[j] = SendCInfoWifi(l1[j]) /\ c[i] = p1[j]
      BY <3>2, <1>3, <1>4, <1>8
    <3>. QED
      BY <3>3, <3>4
  <2>. QED
    BY <2>1, <2>2
<1>10. Len(p0) = Len(c)
  BY <1>0, <1>1, <1>2, <1>3, <1>4, <1>8
<1>11. p0 = c
  BY <1>9, <1>10, SeqEqual
<1>12. FlattenSeq(<<s>> \o p1) = s \o FlattenSeq(p1)
  BY FlattenCons
<1>13. PICK r \in Seq(AField) : r = FlattenSeq(p1)
  BY FlattenType
<1>14. s \o r = CidFrom(x, r)
  <2>0. <<>> \in Seq(AField)
    BY EmptySeq
  <2>1. CidFrom(x, <<>>) \o r = CidFrom(x, <<>> \o r) /\ s = CidFrom(x, <<>>)
    BY <2>0, <1>6, CidFromJoin, SendsEntry
  <2>2. <<>> \o r = r
    BY ConcatEmptySeq
  <2>. QED
    BY <2>1, <2>2, Zenon
<1>. QED
  BY <1>1, <1>2, <1>3, <1>4, <1>5, <1>7, <1>11, <1>12, <1>13, <1>14, Zenon

-----------------------------------------------------------------------------
(***************************************************************************)
(* Reading an entry                                                        *)
(***************************************************************************)

\* What is left to be read when v was read for the first item of e.
AfterOf(e, v) ==
    CASE Head(e).kind = "spies" -> GetCInfoWifis(v, "S") \o Tail(e)
      [] Head(e).kind = "clients" -> GetCInfoWifis(v, "C") \o Tail(e)
      [] Head(e).kind = "size" /\ v \in 1..MAX_SIZE_NAME -> <<[kind |-> "name", size |-> v + 1]>> \o Tail(e)
      [] OTHER -> Tail(e)

\* The next field is the one that is to be read.
Fits(e, rest) ==
    /\ rest # <<>>
    /\ Width(Head(rest)) = Head(e).size
    /\ Head(e).kind = "size" => Head(rest).v \in 0..MAX_SIZE_NAME

\* The local cid of GetCInfoWifi when v has been read.
CidOf(e, v, c) == IF Head(e).kind = "cid" THEN v ELSE c

\* Inside an entry, its cid having been read.
AtEntry(e, rest, c, n, x, line, items, fields) ==
    \/ e = FromCoo(line, items) /\ rest = CooFrom(x, fields) /\ c = x.cid
    \/ e = FromSize(line, items) /\ rest = SizeFrom(x, fields) /\ c = x.cid
    \/ x.name > 0 /\ e = FromName(x.name, line, items) /\ rest = NameOf(x, fields) /\ c = x.cid
    \/ e = FromStore(line, items) /\ rest = fields /\ c = x.cid
    \/ e = FromLine(line, items) /\ rest = fields /\ n = x.cid

\* The items that are not read.
Silent == {"store", "S", "C"}

\* Every field but a name is as wide as the recv() for it asks.
LEMMA PlainWidth ==
    ASSUME NEW kind \in Kind \ {"name"}, NEW v \in Nat
    PROVE  Width(Field(kind, v)) = Item(kind).size
  BY DEF Width, Field, Item

\* Most items leave what stands behind them.
LEMMA PlainAfter ==
    ASSUME NEW e, NEW v, Head(e).kind \notin {"spies", "clients", "size"}
    PROVE  AfterOf(e, v) = Tail(e)
  BY DEF AfterOf

\* Inside an entry: the next field of it is the one that GetCInfoWifi asks
\* for, and it stays inside.
LEMMA EntryRead ==
    ASSUME NEW x \in Entry, NEW line \in {"S", "C"}, NEW items \in Seq(AnItem), NEW fields \in Seq(AField),
           NEW e, NEW rest, NEW c, NEW n, AtEntry(e, rest, c, n, x, line, items, fields),
           Head(e).kind \notin Silent
    PROVE  /\ Fits(e, rest) /\ Head(e).kind \in {"coo", "size", "name"}
           /\ AtEntry(AfterOf(e, Head(rest).v), Tail(rest), c, n, x, line, items, fields)
<1>0. x.cid \in Nat /\ x.name \in Nat /\ x.name <= MAX_SIZE_NAME /\ MAX_SIZE_NAME \in Nat
  BY EntryType, CtrlAssumption
<1>1. CASE e = FromCoo(line, items) /\ rest = CooFrom(x, fields) /\ c = x.cid
  <2>1. Head(e) = Item("coo") /\ Tail(e) = FromSize(line, items)
    BY <1>1, EntryItems DEF Starts
  <2>2. rest # <<>> /\ Head(rest) = Field("coo", 0) /\ Tail(rest) = SizeFrom(x, fields)
    BY <1>1, EntryFields DEF Starts
  <2>3. Head(e).kind = "coo"
    BY <2>1 DEF Item
  <2>4. Width(Head(rest)) = Head(e).size
    BY <2>1, <2>2, PlainWidth DEF Kind
  <2>5. AfterOf(e, Head(rest).v) = Tail(e)
    BY <2>3, PlainAfter
  <2>6. Fits(e, rest)
    BY <2>2, <2>3, <2>4 DEF Fits
  <2>. QED
    BY <1>1, <2>1, <2>2, <2>3, <2>5, <2>6 DEF AtEntry
<1>2. CASE e = FromSize(line, items) /\ rest = SizeFrom(x, fields) /\ c = x.cid
  <2>1. Head(e) = Item("size") /\ Tail(e) = FromStore(line, items)
    BY <1>2, EntryItems DEF Starts
  <2>2. rest # <<>> /\ Head(rest) = Field("size", x.name) /\ Tail(rest) = NameOf(x, fields)
    BY <1>2, EntryFields DEF Starts
  <2>3. Head(e).kind = "size" /\ Head(rest).v = x.name
    BY <2>1, <2>2 DEF Item, Field
  <2>4. Width(Head(rest)) = Head(e).size
    BY <2>1, <2>2, <1>0, PlainWidth DEF Kind
  <2>5. Fits(e, rest)
    BY <2>2, <2>3, <2>4, <1>0 DEF Fits
  <2>6. CASE x.name = 0
    <3>1. AfterOf(e, Head(rest).v) = FromStore(line, items)
      <4>1. Head(rest).v \notin 1..MAX_SIZE_NAME
        BY <2>3, <2>6
      <4>2. AfterOf(e, Head(rest).v) = Tail(e)
        BY <2>3, <4>1 DEF AfterOf
      <4>. QED
        BY <2>1, <4>2
    <3>2. NameOf(x, fields) = fields
      BY <2>6 DEF NameOf
    <3>. QED
      BY <1>2, <2>2, <2>3, <2>5, <3>1, <3>2 DEF AtEntry
  <2>7. CASE x.name > 0
    <3>1. AfterOf(e, Head(rest).v) = FromName(x.name, line, items)
      <4>1. x.name \in 1..MAX_SIZE_NAME
        BY <1>0, <2>7
      <4>2. AfterOf(e, x.name) = <<[kind |-> "name", size |-> x.name + 1]>> \o Tail(e)
        BY <2>3, <4>1 DEF AfterOf
      <4>. QED
        BY <2>1, <2>3, <4>2, Zenon DEF FromName
    <3>. QED
      BY <1>2, <2>2, <2>3, <2>5, <2>7, <3>1 DEF AtEntry
  <2>. QED
    BY <1>0, <2>6, <2>7
<1>3. CASE x.name > 0 /\ e = FromName(x.name, line, items) /\ rest = NameOf(x, fields) /\ c = x.cid
  <2>1. Head(e) = [kind |-> "name", size |-> x.name + 1] /\ Tail(e) = FromStore(line, items)
    BY <1>0, <1>3, NameItems, ZenonT(40) DEF Starts
  <2>2. rest # <<>> /\ Head(rest) = Field("name", x.name) /\ Tail(rest) = fields
    BY <1>3, EntryFields DEF Starts
  <2>3. Head(e).kind = "name" /\ Head(e).size = x.name + 1
    BY <2>1
  <2>4. Width(Head(rest)) = x.name + 1
    BY <2>2 DEF Width, Field
  <2>5. AfterOf(e, Head(rest).v) = Tail(e)
    BY <2>3, PlainAfter
  <2>6. Fits(e, rest)
    BY <2>2, <2>3, <2>4 DEF Fits
  <2>. QED
    BY <1>3, <2>1, <2>2, <2>3, <2>5, <2>6 DEF AtEntry
<1>4. CASE e = FromStore(line, items)
  <2>1. Head(e) = Item("store")
    BY <1>4, EntryItems DEF Starts
  <2>. QED
    BY <2>1 DEF Item, Silent
<1>5. CASE e = FromLine(line, items)
  <2>1. Head(e) = Item(line)
    BY <1>5, EntryItems DEF Starts
  <2>. QED
    BY <2>1 DEF Item, Silent
<1>. QED
  BY <1>1, <1>2, <1>3, <1>4, <1>5 DEF AtEntry

\* The kinds of the items inside an entry.
LEMMA EntryKind ==
    ASSUME NEW x \in Entry, NEW line \in {"S", "C"}, NEW items \in Seq(AnItem), NEW fields \in Seq(AField),
           NEW e, NEW rest, NEW c, NEW n, AtEntry(e, rest, c, n, x, line, items, fields)
    PROVE  /\ e # <<>>
           /\ Head(e).kind = "store" => Tail(e) = FromLine(line, items) /\ rest = fields /\ c = x.cid
           /\ Head(e).kind \in {"S", "C"} => Head(e).kind = line /\ Tail(e) = items /\ rest = fields /\ n = x.cid
<1>0. x.name \in Nat
  BY EntryType
<1>1. CASE e = FromCoo(line, items)
  <2>1. e # <<>> /\ Head(e) = Item("coo")
    BY <1>1, EntryItems DEF Starts
  <2>. QED
    BY <2>1 DEF Item
<1>2. CASE e = FromSize(line, items)
  <2>1. e # <<>> /\ Head(e) = Item("size")
    BY <1>2, EntryItems DEF Starts
  <2>. QED
    BY <2>1 DEF Item
<1>3. CASE e = FromName(x.name, line, items)
  <2>1. e # <<>> /\ Head(e) = [kind |-> "name", size |-> x.name + 1]
    BY <1>0, <1>3, NameItems DEF Starts
  <2>2. Head(e).kind = "name"
    BY <2>1
  <2>. QED
    BY <2>1, <2>2
<1>4. CASE e = FromStore(line, items) /\ rest = fields /\ c = x.cid
  <2>1. e # <<>> /\ Head(e) = Item("store") /\ Tail(e) = FromLine(line, items)
    BY <1>4, EntryItems DEF Starts
  <2>2. Head(e).kind = "store"
    BY <2>1 DEF Item
  <2>. QED
    BY <1>4, <2>1, <2>2
<1>5. CASE e = FromLine(line, items) /\ rest = fields /\ n = x.cid
  <2>1. e # <<>> /\ Head(e) = Item(line) /\ Tail(e) = items
    BY <1>5, EntryItems DEF Starts
  <2>2. Head(e).kind = line
    BY <2>1 DEF Item
  <2>. QED
    BY <1>5, <2>1, <2>2
<1>. QED
  BY <1>1, <1>2, <1>3, <1>4, <1>5 DEF AtEntry

\* The items of a list but for those of its first i entries, and its behind
\* them.
ItemsLeft(list, line, its, i) == GetCInfoWifis(Len(list) - i, line) \o its

\* The fields of a list but for those of its first i entries, and more behind
\* them.
FieldsLeft(list, more, i) == SendCInfoWifis(From(list, i)) \o more

\* They are items and fields.
LEMMA LeftType ==
    ASSUME NEW list \in Seq(Entry), NEW line \in {"S", "C"}, NEW its \in Seq(AnItem), NEW more \in Seq(AField),
           NEW i \in 0..Len(list)
    PROVE  ItemsLeft(list, line, its, i) \in Seq(AnItem) /\ FieldsLeft(list, more, i) \in Seq(AField)
<1>1. Len(list) - i \in Nat
  OBVIOUS
<1>2. GetCInfoWifis(Len(list) - i, line) \in Seq(AnItem)
  BY <1>1, GetsNext
<1>3. From(list, i) \in Seq(Entry)
  BY FromType
<1>4. SendCInfoWifis(From(list, i)) \in Seq(AField)
  BY <1>3, SendsType
<1>. QED
  BY <1>2, <1>4, ConcatProperties DEF ItemsLeft, FieldsLeft

\* The next entry is read as it is sent.
LEMMA LeftNext ==
    ASSUME NEW list \in Seq(Entry), NEW line \in {"S", "C"}, NEW its \in Seq(AnItem), NEW more \in Seq(AField),
           NEW i \in 0..(Len(list) - 1)
    PROVE  /\ ItemsLeft(list, line, its, i) = FromCid(line, ItemsLeft(list, line, its, i + 1))
           /\ FieldsLeft(list, more, i) = CidFrom(list[i + 1], FieldsLeft(list, more, i + 1))
<1>0. Len(list) \in Nat /\ i + 1 \in 1..Len(list) /\ i + 1 \in 0..Len(list)
  OBVIOUS
<1>1. PICK k \in Nat : k = Len(list) - (i + 1) /\ k + 1 = Len(list) - i
  <2>1. Len(list) - (i + 1) \in Nat /\ (Len(list) - (i + 1)) + 1 = Len(list) - i
    BY <1>0
  <2>. QED
    BY <2>1
<1>2. PICK g \in Seq(AnItem) : g = GetCInfoWifis(k, line) /\ GetCInfoWifis(k + 1, line) = FromCid(line, g)
  BY GetsNext
<1>3. FromCid(line, g) \o its = FromCid(line, g \o its)
  BY FromCidJoin, ZenonT(40)
<1>4. PICK x \in Entry : x = list[i + 1]
  BY <1>0, ElementOfSeq
<1>5. PICK t \in Seq(AField) : t = SendCInfoWifis(From(list, i + 1))
  <2>1. From(list, i + 1) \in Seq(Entry)
    BY <1>0, FromType
  <2>. QED
    BY <2>1, SendsType
<1>6. SendCInfoWifis(From(list, i)) = CidFrom(x, t)
  BY <1>4, <1>5, SendsNext
<1>7. CidFrom(x, t) \o more = CidFrom(x, t \o more)
  BY CidFromJoin
<1>8. ItemsLeft(list, line, its, i) = FromCid(line, ItemsLeft(list, line, its, i + 1))
  BY <1>1, <1>2, <1>3 DEF ItemsLeft
<1>9. FieldsLeft(list, more, i) = CidFrom(list[i + 1], FieldsLeft(list, more, i + 1))
  BY <1>4, <1>5, <1>6, <1>7, Zenon DEF FieldsLeft
<1>. QED
  BY <1>8, <1>9

\* Behind the last entry stand its and more.
LEMMA LeftEnd ==
    ASSUME NEW list \in Seq(Entry), NEW line \in {"S", "C"}, NEW its \in Seq(AnItem), NEW more \in Seq(AField)
    PROVE  ItemsLeft(list, line, its, Len(list)) = its /\ FieldsLeft(list, more, Len(list)) = more
<1>0. Len(list) \in Nat /\ Len(list) - Len(list) = 0 /\ Len(list) \in 0..Len(list)
  OBVIOUS
<1>1. GetCInfoWifis(0, line) = <<>>
  BY GetsNext
<1>2. From(list, Len(list)) = <<>>
  BY <1>0, FromEnd
<1>3. SendCInfoWifis(<<>>) = <<>>
  <2>1. <<>> \in Seq(Entry) /\ Len(<<>>) = 0
    BY EmptySeq
  <2>. QED
    BY <2>1, SendsType
<1>4. <<>> \o its = its /\ <<>> \o more = more
  BY ConcatEmptySeq
<1>. QED
  BY <1>0, <1>1, <1>2, <1>3, <1>4 DEF ItemsLeft, FieldsLeft

-----------------------------------------------------------------------------
(***************************************************************************)
(* Reading a list                                                          *)
(***************************************************************************)

\* The lines that are to be printed for a list.
Lines(list, line) == [i \in 1..Len(list) |-> Field(line, list[i].cid)]

\* The lines are fields, one for every entry.
LEMMA LinesType ==
    ASSUME NEW list \in Seq(Entry), NEW line \in {"S", "C"}
    PROVE  /\ Lines(list, line) \in Seq(AField) /\ Len(Lines(list, line)) = Len(list)
           /\ \A i \in 1..Len(list) : Lines(list, line)[i] = Field(line, list[i].cid)
<1>1. \A i \in 1..Len(list) : Field(line, list[i].cid) \in AField
  <2>1. ASSUME NEW i \in 1..Len(list) PROVE Field(line, list[i].cid) \in AField
    <3>1. list[i] \in Entry /\ line \in Kind
      BY ElementOfSeq DEF Kind
    <3>2. list[i].cid \in Nat
      BY <3>1, EntryType
    <3>. QED
      BY <3>1, <3>2, KindField
  <2>. QED
    BY <2>1
<1>2. Lines(list, line) \in [1..Len(list) -> AField] /\ Len(list) \in Nat
  BY <1>1 DEF Lines
<1>3. Lines(list, line) \in Seq(AField) /\ Len(Lines(list, line)) = Len(list)
  BY <1>2, FunctionIsSeq
<1>. QED
  BY <1>3 DEF Lines

\* The first i lines of a list have been printed, behind what was printed before.
PrintedSoFar(sh, list, line, before, i) == sh = before \o SubSeq(Lines(list, line), 1, i)

\* One line more.
LEMMA PrintedNext ==
    ASSUME NEW list \in Seq(Entry), NEW line \in {"S", "C"}, NEW before \in Seq(AField),
           NEW i \in 0..(Len(list) - 1), NEW sh, PrintedSoFar(sh, list, line, before, i)
    PROVE  PrintedSoFar(Append(sh, Field(line, list[i + 1].cid)), list, line, before, i + 1)
<1>0. i + 1 \in 1..Len(list) /\ Len(list) \in Nat
  OBVIOUS
<1>1. PICK l \in Seq(AField) : l = Lines(list, line) /\ Len(l) = Len(list) /\ l[i + 1] = Field(line, list[i + 1].cid)
  BY <1>0, LinesType
<1>2. l[i + 1] \in AField /\ SubSeq(l, 1, i) \in Seq(AField)
  BY <1>0, <1>1
<1>3. PICK p \in Seq(AField) : p = SubSeq(l, 1, i)
  BY <1>2
<1>4. Append(p, l[i + 1]) = SubSeq(l, 1, i + 1)
  BY <1>1, <1>3, SubSeqNext
<1>5. PICK f \in AField : f = l[i + 1]
  BY <1>2
<1>6. Append(before \o p, f) = before \o Append(p, f)
  <2>1. PICK o \in Seq(AField) : o = <<f>>
    BY OneType
  <2>2. Associative(AField)
    BY Associates
  <2>3. (before \o p) \o o = before \o (p \o o)
    BY <2>2, Zenon DEF Associative
  <2>4. PICK q \in Seq(AField) : q = before \o p
    BY ConcatProperties
  <2>5. Append(q, f) = q \o <<f>> /\ Append(p, f) = p \o <<f>>
    BY AppendIsConcat
  <2>. QED
    BY <2>1, <2>3, <2>4, <2>5, Zenon
<1>. QED
  BY <1>1, <1>3, <1>4, <1>5, <1>6 DEF PrintedSoFar

\* The parameters of a list that is read: what stands behind it is the number
\* of clients, or nothing.
ListOK(list, line, its, more, before) ==
    /\ list \in Seq(Entry) /\ line \in {"S", "C"} /\ its \in Seq(AnItem) /\ more \in Seq(AField)
    /\ before \in Seq(AField)
    /\ its # <<>> => Head(its).kind = "clients"

\* i entries have been read, and nothing of the next one.
Between(e, rest, list, line, its, more, i) ==
    e = ItemsLeft(list, line, its, i) /\ rest = FieldsLeft(list, more, i)

\* i entries have been read, and the cid of the next one.
Inside(e, rest, c, n, list, line, its, more, i) ==
    /\ i < Len(list)
    /\ AtEntry(e, rest, c, n, list[i + 1], line, ItemsLeft(list, line, its, i + 1), FieldsLeft(list, more, i + 1))

\* Inside a list: some of its lines have been printed.
InList(e, rest, sh, c, n, list, line, its, more, before) ==
    \E i \in 0..Len(list) :
        /\ PrintedSoFar(sh, list, line, before, i)
        /\ Between(e, rest, list, line, its, more, i) \/ Inside(e, rest, c, n, list, line, its, more, i)

\* The types of an entry of the list and of what stands behind it.
LEMMA InsideTypes ==
    ASSUME NEW list, NEW line, NEW its, NEW more, NEW before, ListOK(list, line, its, more, before),
           NEW i \in 0..Len(list), i < Len(list)
    PROVE  /\ list[i + 1] \in Entry /\ i + 1 \in 0..Len(list) /\ i \in 0..(Len(list) - 1)
           /\ ItemsLeft(list, line, its, i + 1) \in Seq(AnItem) /\ FieldsLeft(list, more, i + 1) \in Seq(AField)
<1>1. list \in Seq(Entry) /\ line \in {"S", "C"} /\ its \in Seq(AnItem) /\ more \in Seq(AField)
  BY DEF ListOK
<1>2. i + 1 \in 1..Len(list) /\ i + 1 \in 0..Len(list) /\ i \in 0..(Len(list) - 1)
  BY <1>1
<1>. QED
  BY <1>1, <1>2, LeftType, ElementOfSeq

\* Between two entries, or in front of the first one.
LEMMA BetweenNext ==
    ASSUME NEW list, NEW line, NEW its, NEW more, NEW before, ListOK(list, line, its, more, before),
           NEW i \in 0..Len(list), i < Len(list), NEW e, NEW rest, NEW n,
           Between(e, rest, list, line, its, more, i)
    PROVE  /\ e # <<>> /\ Head(e).kind = "cid" /\ Fits(e, rest)
           /\ Inside(AfterOf(e, Head(rest).v), Tail(rest), Head(rest).v, n, list, line, its, more, i)
<1>0. list \in Seq(Entry) /\ line \in {"S", "C"} /\ its \in Seq(AnItem) /\ more \in Seq(AField)
  BY DEF ListOK
<1>1. /\ list[i + 1] \in Entry /\ i + 1 \in 0..Len(list) /\ i \in 0..(Len(list) - 1)
      /\ ItemsLeft(list, line, its, i + 1) \in Seq(AnItem) /\ FieldsLeft(list, more, i + 1) \in Seq(AField)
  BY InsideTypes
<1>2. PICK x \in Entry, items \in Seq(AnItem), fields \in Seq(AField) :
          x = list[i + 1] /\ items = ItemsLeft(list, line, its, i + 1) /\ fields = FieldsLeft(list, more, i + 1)
  BY <1>1
<1>3. e = FromCid(line, items) /\ rest = CidFrom(x, fields)
  BY <1>0, <1>1, <1>2, LeftNext DEF Between
<1>4. e # <<>> /\ Head(e) = Item("cid") /\ Tail(e) = FromCoo(line, items)
  BY <1>0, <1>3, EntryItems DEF Starts
<1>5. rest # <<>> /\ Head(rest) = Field("cid", x.cid) /\ Tail(rest) = CooFrom(x, fields)
  BY <1>3, EntryFields DEF Starts
<1>6. Head(e).kind = "cid" /\ Head(rest).v = x.cid /\ x.cid \in Nat
  BY <1>4, <1>5, EntryType DEF Item, Field
<1>7. Width(Head(rest)) = Head(e).size
  BY <1>4, <1>5, <1>6, PlainWidth DEF Kind
<1>8. AfterOf(e, Head(rest).v) = Tail(e)
  BY <1>6, PlainAfter
<1>9. Fits(e, rest)
  BY <1>5, <1>6, <1>7 DEF Fits
<1>10. AtEntry(Tail(e), Tail(rest), x.cid, n, x, line, items, fields)
  BY <1>4, <1>5 DEF AtEntry
<1>. QED
  BY <1>2, <1>4, <1>6, <1>8, <1>9, <1>10 DEF Inside

\* Behind the last entry.
LEMMA BetweenEnd ==
    ASSUME NEW list, NEW line, NEW its, NEW more, NEW before, ListOK(list, line, its, more, before),
           NEW i \in 0..Len(list), ~(i < Len(list)), NEW e, NEW rest, NEW sh,
           Between(e, rest, list, line, its, more, i), PrintedSoFar(sh, list, line, before, i)
    PROVE  e = its /\ rest = more /\ sh = before \o Lines(list, line)
<1>0. list \in Seq(Entry) /\ line \in {"S", "C"} /\ its \in Seq(AnItem) /\ more \in Seq(AField)
  BY DEF ListOK
<1>1. i = Len(list)
  BY <1>0
<1>2. Lines(list, line) \in Seq(AField) /\ Len(Lines(list, line)) = Len(list)
  BY <1>0, LinesType
<1>3. SubSeq(Lines(list, line), 1, Len(list)) = Lines(list, line)
  BY <1>2, SubSeqFull
<1>. QED
  BY <1>0, <1>1, <1>3, LeftEnd DEF Between, PrintedSoFar

\* The list has been read and printed.
ListDone(e, rest, sh, list, line, its, more, before) ==
    e = its /\ rest = more /\ sh = before \o Lines(list, line)

\* A field of the list is read: GetCInfoWifi asks for it as it was sent.
LEMMA InListRead ==
    ASSUME NEW list, NEW line, NEW its, NEW more, NEW before, ListOK(list, line, its, more, before),
           NEW e, NEW rest, NEW sh, NEW c, NEW n, InList(e, rest, sh, c, n, list, line, its, more, before),
           Head(e).kind \notin Silent
    PROVE  \/ ListDone(e, rest, sh, list, line, its, more, before)
           \/ /\ Head(e).kind \in InEntry /\ Fits(e, rest)
              /\ InList(AfterOf(e, Head(rest).v), Tail(rest), sh, CidOf(e, Head(rest).v, c), n,
                        list, line, its, more, before)
<1>0. line \in {"S", "C"}
  BY DEF ListOK
<1>1. PICK i \in 0..Len(list) :
        /\ PrintedSoFar(sh, list, line, before, i)
        /\ Between(e, rest, list, line, its, more, i) \/ Inside(e, rest, c, n, list, line, its, more, i)
  BY DEF InList
<1>2. CASE Between(e, rest, list, line, its, more, i) /\ i < Len(list)
  <2>1. /\ Head(e).kind = "cid" /\ Fits(e, rest)
        /\ Inside(AfterOf(e, Head(rest).v), Tail(rest), Head(rest).v, n, list, line, its, more, i)
    BY <1>2, BetweenNext
  <2>2. CidOf(e, Head(rest).v, c) = Head(rest).v
    BY <2>1 DEF CidOf
  <2>. QED
    BY <1>1, <2>1, <2>2 DEF InList, InEntry
<1>3. CASE Between(e, rest, list, line, its, more, i) /\ ~(i < Len(list))
  BY <1>1, <1>3, BetweenEnd DEF ListDone
<1>4. CASE Inside(e, rest, c, n, list, line, its, more, i)
  <2>0. i < Len(list)
    BY <1>4 DEF Inside
  <2>1. PICK x \in Entry, items \in Seq(AnItem), fields \in Seq(AField) :
          x = list[i + 1] /\ items = ItemsLeft(list, line, its, i + 1) /\ fields = FieldsLeft(list, more, i + 1)
    BY <2>0, InsideTypes
  <2>2. AtEntry(e, rest, c, n, x, line, items, fields)
    BY <1>4, <2>1 DEF Inside
  <2>3. /\ Fits(e, rest) /\ Head(e).kind \in {"coo", "size", "name"}
        /\ AtEntry(AfterOf(e, Head(rest).v), Tail(rest), c, n, x, line, items, fields)
    BY <1>0, <2>2, EntryRead
  <2>4. CidOf(e, Head(rest).v, c) = c
    BY <2>3 DEF CidOf
  <2>5. Inside(AfterOf(e, Head(rest).v), Tail(rest), c, n, list, line, its, more, i)
    BY <2>0, <2>1, <2>3 DEF Inside
  <2>. QED
    BY <1>1, <2>3, <2>4, <2>5 DEF InList, InEntry
<1>. QED
  BY <1>1, <1>2, <1>3, <1>4

\* An entry is stored, or its line is printed: it is the line of this entry.
LEMMA InListSilent ==
    ASSUME NEW list, NEW line, NEW its, NEW more, NEW before, ListOK(list, line, its, more, before),
           NEW e, NEW rest, NEW sh, NEW c, NEW n, InList(e, rest, sh, c, n, list, line, its, more, before),
           e # <<>>
    PROVE  /\ Head(e).kind = "store" => InList(Tail(e), rest, sh, c, c, list, line, its, more, before)
           /\ Head(e).kind \in {"S", "C"} =>
                InList(Tail(e), rest, Append(sh, Field(Head(e).kind, n)), c, n, list, line, its, more, before)
<1>0. line \in {"S", "C"} /\ list \in Seq(Entry) /\ before \in Seq(AField)
  BY DEF ListOK
<1>1. PICK i \in 0..Len(list) :
        /\ PrintedSoFar(sh, list, line, before, i)
        /\ Between(e, rest, list, line, its, more, i) \/ Inside(e, rest, c, n, list, line, its, more, i)
  BY DEF InList
<1>2. CASE Between(e, rest, list, line, its, more, i) /\ i < Len(list)
  <2>1. Head(e).kind = "cid"
    BY <1>2, BetweenNext
  <2>. QED
    BY <2>1
<1>3. CASE Between(e, rest, list, line, its, more, i) /\ ~(i < Len(list))
  <2>1. e = its
    BY <1>1, <1>3, BetweenEnd
  <2>2. Head(e).kind = "clients"
    BY <2>1 DEF ListOK
  <2>. QED
    BY <2>2
<1>4. CASE Inside(e, rest, c, n, list, line, its, more, i)
  <2>0. i < Len(list)
    BY <1>4 DEF Inside
  <2>1. PICK x \in Entry, items \in Seq(AnItem), fields \in Seq(AField) :
          x = list[i + 1] /\ items = ItemsLeft(list, line, its, i + 1) /\ fields = FieldsLeft(list, more, i + 1)
    BY <2>0, InsideTypes
  <2>2. AtEntry(e, rest, c, n, x, line, items, fields)
    BY <1>4, <2>1 DEF Inside
  <2>3. /\ Head(e).kind = "store" => Tail(e) = FromLine(line, items) /\ rest = fields /\ c = x.cid
        /\ Head(e).kind \in {"S", "C"} => Head(e).kind = line /\ Tail(e) = items /\ rest = fields /\ n = x.cid
    BY <1>0, <2>2, EntryKind
  <2>4. ASSUME Head(e).kind = "store" PROVE InList(Tail(e), rest, sh, c, c, list, line, its, more, before)
    <3>1. AtEntry(Tail(e), rest, c, c, x, line, items, fields)
      BY <2>3, <2>4 DEF AtEntry
    <3>2. Inside(Tail(e), rest, c, c, list, line, its, more, i)
      BY <2>0, <2>1, <3>1 DEF Inside
    <3>. QED
      BY <1>1, <3>2 DEF InList
  <2>5. ASSUME Head(e).kind \in {"S", "C"}
        PROVE  InList(Tail(e), rest, Append(sh, Field(Head(e).kind, n)), c, n, list, line, its, more, before)
    <3>1. i + 1 \in 0..Len(list) /\ i \in 0..(Len(list) - 1)
      BY <2>0, InsideTypes
    <3>2. Between(Tail(e), rest, list, line, its, more, i + 1)
      BY <2>1, <2>3, <2>5 DEF Between
    <3>3. PrintedSoFar(Append(sh, Field(line, list[i + 1].cid)), list, line, before, i + 1)
      BY <1>0, <1>1, <3>1, PrintedNext
    <3>4. Field(Head(e).kind, n) = Field(line, list[i + 1].cid)
      BY <2>1, <2>3, <2>5
    <3>. QED
      BY <3>1, <3>2, <3>3, <3>4 DEF InList
  <2>. QED
    BY <2>4, <2>5
<1>. QED
  BY <1>1, <1>2, <1>3, <1>4

\* At the first entry.
LEMMA InListFirst ==
    ASSUME NEW list, NEW line, NEW its, NEW more, NEW before, ListOK(list, line, its, more, before),
           NEW c, NEW n
    PROVE  InList(ItemsLeft(list, line, its, 0), FieldsLeft(list, more, 0), before, c, n, list, line, its, more, before)
<1>0. line \in {"S", "C"} /\ list \in Seq(Entry) /\ before \in Seq(AField)
  BY DEF ListOK
<1>1. 0 \in 0..Len(list)
  BY <1>0
<1>2. SubSeq(Lines(list, line), 1, 0) = <<>>
  BY SubSeqEmpty
<1>3. before \o <<>> = before
  BY <1>0, ConcatEmptySeq
<1>. QED
  BY <1>1, <1>2, <1>3 DEF InList, Between, PrintedSoFar

\* sh begins t.
Begins(sh, t) == sh \in Seq(AField) /\ \E w \in Seq(AField) : t = sh \o w

\* What has been printed begins what is to be printed.
LEMMA InListShown ==
    ASSUME NEW list, NEW line, NEW its, NEW more, NEW before, ListOK(list, line, its, more, before),
           NEW e, NEW rest, NEW sh, NEW c, NEW n, InList(e, rest, sh, c, n, list, line, its, more, before)
    PROVE  /\ Begins(sh, before \o Lines(list, line))
           /\ e = <<>> => its = <<>> /\ sh = before \o Lines(list, line)
<1>0. line \in {"S", "C"} /\ list \in Seq(Entry) /\ before \in Seq(AField)
  BY DEF ListOK
<1>1. PICK i \in 0..Len(list) :
        /\ PrintedSoFar(sh, list, line, before, i)
        /\ Between(e, rest, list, line, its, more, i) \/ Inside(e, rest, c, n, list, line, its, more, i)
  BY DEF InList
<1>7. ASSUME Between(e, rest, list, line, its, more, i), ~(i < Len(list))
      PROVE  e = its /\ rest = more /\ sh = before \o Lines(list, line)
  BY <1>1, <1>7, BetweenEnd
<1>2. PICK l \in Seq(AField) : l = Lines(list, line) /\ Len(l) = Len(list)
  BY <1>0, LinesType
<1>3. PICK p \in Seq(AField), w \in Seq(AField) : p = SubSeq(l, 1, i) /\ w = SubSeq(l, i + 1, Len(l)) /\ p \o w = l
  <2>1. 1 \in 1..(Len(l) + 1) /\ i \in (1 - 1)..Len(l) /\ Len(l) \in i..Len(l)
    BY <1>0, <1>2
  <2>2. SubSeq(l, 1, i) \o SubSeq(l, i + 1, Len(l)) = SubSeq(l, 1, Len(l))
    BY <2>1, ConcatAdjacentSubSeq
  <2>3. SubSeq(l, 1, Len(l)) = l
    BY SubSeqFull
  <2>4. SubSeq(l, 1, i) \in Seq(AField) /\ SubSeq(l, i + 1, Len(l)) \in Seq(AField)
    BY <1>2, <1>0
  <2>. QED
    BY <2>2, <2>3, <2>4
<1>4. sh = before \o p /\ sh \in Seq(AField)
  BY <1>0, <1>1, <1>2, <1>3, ConcatProperties DEF PrintedSoFar
<1>5. before \o l = sh \o w
  <2>1. Associative(AField)
    BY Associates
  <2>2. (before \o p) \o w = before \o (p \o w)
    BY <1>0, <2>1, ZenonT(40) DEF Associative
  <2>. QED
    BY <1>3, <1>4, <2>2, Zenon
<1>6. ASSUME e = <<>> PROVE its = <<>> /\ sh = before \o Lines(list, line)
  <2>1. CASE Between(e, rest, list, line, its, more, i) /\ i < Len(list)
    <3>1. e # <<>>
      BY <2>1, BetweenNext
    <3>. QED
      BY <1>6, <3>1
  <2>2. CASE Between(e, rest, list, line, its, more, i) /\ ~(i < Len(list))
    BY <1>6, <1>7, <2>2
  <2>3. CASE Inside(e, rest, c, n, list, line, its, more, i)
    <3>0. i < Len(list)
      BY <2>3 DEF Inside
    <3>1. PICK x \in Entry, items \in Seq(AnItem), fields \in Seq(AField) :
          x = list[i + 1] /\ items = ItemsLeft(list, line, its, i + 1) /\ fields = FieldsLeft(list, more, i + 1)
      BY <3>0, InsideTypes
    <3>2. AtEntry(e, rest, c, n, x, line, items, fields)
      BY <2>3, <3>1 DEF Inside
    <3>3. e # <<>>
      BY <1>0, <3>2, EntryKind
    <3>. QED
      BY <1>6, <3>3
  <2>. QED
    BY <1>1, <2>1, <2>2, <2>3
<1>8. Begins(sh, before \o Lines(list, line))
  BY <1>2, <1>4, <1>5 DEF Begins
<1>. QED
  BY <1>6, <1>8

\* A sequence and what follows it.
LEMMA PrefixOf ==
    ASSUME NEW T, NEW a \in Seq(T), NEW w \in Seq(T), NEW t, t = a \o w
    PROVE  IsPrefix(a, t)
<1>1. /\ t \in Seq(T) /\ Len(t) = Len(a) + Len(w) /\ Len(a) \in Nat /\ Len(w) \in Nat
      /\ \A i \in 1..Len(a) : t[i] = a[i]
  <2>1. Len(a) \in Nat /\ Len(w) \in Nat
    BY LenProperties
  <2>2. /\ t \in Seq(T) /\ Len(t) = Len(a) + Len(w)
        /\ \A i \in 1..(Len(a) + Len(w)) : t[i] = IF i <= Len(a) THEN a[i] ELSE w[i - Len(a)]
    BY ConcatProperties
  <2>. QED
    BY <2>1, <2>2
<1>2. SubSeq(a, 1, Len(a)) = a
  BY SubSeqFull
<1>3. \A i \in 1..Len(a) : t[i] \in T
  BY <1>1
<1>4. PICK p \in Seq(T) : /\ p = SubSeq(t, 1, Len(a)) /\ Len(p) = Len(a)
                          /\ \A i \in 1..Len(a) : p[i] = t[i]
  <2>1. PICK m \in Int : m = Len(a)
    BY <1>1
  <2>2. /\ SubSeq(t, 1, m) \in Seq(T) /\ Len(SubSeq(t, 1, m)) = IF 1 <= m THEN m - 1 + 1 ELSE 0
        /\ \A i \in 1..(m - 1 + 1) : SubSeq(t, 1, m)[i] = t[1 + i - 1]
    BY <1>3, <2>1, SubSeqProperties
  <2>. QED
    BY <1>1, <2>1, <2>2
<1>5. p = a
  BY <1>1, <1>4, SeqEqual
<1>. QED
  BY <1>1, <1>2, <1>4, <1>5 DEF IsPrefix

-----------------------------------------------------------------------------
(***************************************************************************)
(* The answer to ls                                                        *)
(***************************************************************************)

\* The answer to ls: what is read and what is sent.
ListItems == <<Item("spies")>> \o <<Item("clients")>>

\* The number of clients and their entries.
ClientsPart(l) == <<Field("clients", Len(l.clients))>> \o FieldsLeft(l.clients, <<>>, 0)

\* The number of spies and their entries, then the clients.
ListFields(l) == <<Field("spies", Len(l.spies))>> \o FieldsLeft(l.spies, ClientsPart(l), 0)

\* Both lists are made of entries.
EntryLists(l) == l.spies \in Seq(Entry) /\ l.clients \in Seq(Entry)

\* The parts of the answer to ls follow each other.
LEMMA ListParts ==
    ASSUME NEW l, EntryLists(l)
    PROVE  /\ Starts(ListItems, Item("spies"), <<Item("clients")>>, AnItem)
           /\ Starts(<<Item("clients")>>, Item("clients"), <<>>, AnItem)
           /\ Starts(ClientsPart(l), Field("clients", Len(l.clients)), FieldsLeft(l.clients, <<>>, 0), AField)
           /\ Starts(ListFields(l), Field("spies", Len(l.spies)), FieldsLeft(l.spies, ClientsPart(l), 0), AField)
<1>0. /\ l.spies \in Seq(Entry) /\ l.clients \in Seq(Entry) /\ Len(l.spies) \in Nat /\ Len(l.clients) \in Nat
      /\ 0 \in 0..Len(l.spies) /\ 0 \in 0..Len(l.clients)
  BY DEF EntryLists
<1>1. /\ Item("spies") \in AnItem /\ Item("clients") \in AnItem
      /\ Field("spies", Len(l.spies)) \in AField /\ Field("clients", Len(l.clients)) \in AField
  BY <1>0, KindItem, KindField DEF Kind
<1>2. <<>> \in Seq(AField) /\ <<>> \in Seq(AnItem)
  BY EmptySeq
<1>3. PICK a \in Seq(AnItem) : a = <<Item("clients")>>
  BY <1>1, OneType
<1>4. a \o <<>> = a /\ <<>> \o a = a
  BY ConcatEmptySeq
<1>5. a = <<Item("clients")>> \o <<>>
  BY <1>3, <1>4, Zenon
<1>6. Starts(a, Item("clients"), <<>>, AnItem)
  BY <1>1, <1>2, <1>5, StartsWith
<1>7. Starts(ListItems, Item("spies"), a, AnItem)
  BY <1>1, <1>3, StartsWith DEF ListItems
<1>8. FieldsLeft(l.clients, <<>>, 0) \in Seq(AField)
  BY <1>0, <1>2, LeftType
<1>9. Starts(ClientsPart(l), Field("clients", Len(l.clients)), FieldsLeft(l.clients, <<>>, 0), AField)
  BY <1>1, <1>8, StartsWith DEF ClientsPart
<1>10. ClientsPart(l) \in Seq(AField)
  BY <1>9 DEF Starts
<1>11. FieldsLeft(l.spies, ClientsPart(l), 0) \in Seq(AField)
  BY <1>0, <1>10, LeftType
<1>12. Starts(ListFields(l), Field("spies", Len(l.spies)), FieldsLeft(l.spies, ClientsPart(l), 0), AField)
  BY <1>1, <1>11, StartsWith DEF ListFields
<1>. QED
  BY <1>3, <1>6, <1>7, <1>9, <1>12

\* All of the fields of a list.
LEMMA FieldsLeftAll ==
    ASSUME NEW list \in Seq(Entry), NEW more \in Seq(AField)
    PROVE  FieldsLeft(list, more, 0) = SendCInfoWifis(list) \o more
  BY FromAll DEF FieldsLeft

\* All of the items of a list.
LEMMA ItemsLeftAll ==
    ASSUME NEW list \in Seq(Entry), NEW line, NEW its
    PROVE  ItemsLeft(list, line, its, 0) = GetCInfoWifis(Len(list), line) \o its
<1>1. Len(list) - 0 = Len(list)
  OBVIOUS
<1>. QED
  BY <1>1 DEF ItemsLeft

\* SendList sends this, if every entry is enabled.
LEMMA SendListIs ==
    ASSUME NEW l, EntryLists(l), Enabled(l.spies) = l.spies, Enabled(l.clients) = l.clients
    PROVE  SendList(l) = ListFields(l)
<1>0. l.spies \in Seq(Entry) /\ l.clients \in Seq(Entry) /\ Len(l.spies) \in Nat /\ Len(l.clients) \in Nat
  BY DEF EntryLists
<1>1. PICK f \in AField, g \in AField : f = Field("spies", Len(l.spies)) /\ g = Field("clients", Len(l.clients))
  BY <1>0, KindField DEF Kind
<1>2. PICK a \in Seq(AField), b \in Seq(AField) : a = SendCInfoWifis(l.spies) /\ b = SendCInfoWifis(l.clients)
  BY <1>0, SendsType
<1>3. SendList(l) = ((<<f>> \o a) \o <<g>>) \o b
  BY <1>1, <1>2, Zenon DEF SendList
<1>4. FieldsLeft(l.clients, <<>>, 0) = b
  <2>1. b \o <<>> = b /\ <<>> \in Seq(AField)
    BY ConcatEmptySeq, EmptySeq
  <2>2. FieldsLeft(l.clients, <<>>, 0) = SendCInfoWifis(l.clients) \o <<>>
    BY <1>0, <2>1, FieldsLeftAll
  <2>. QED
    BY <1>2, <2>1, <2>2, Zenon
<1>5. PICK h \in Seq(AField) : h = <<g>>
  BY OneType
<1>6. PICK k \in Seq(AField) : k = <<f>>
  BY OneType
<1>7. h \o b \in Seq(AField)
  BY ConcatProperties
<1>8. ClientsPart(l) = h \o b
  BY <1>1, <1>4, <1>5, Zenon DEF ClientsPart
<1>9. FieldsLeft(l.spies, ClientsPart(l), 0) = a \o (h \o b)
  <2>1. PICK m \in Seq(AField) : m = ClientsPart(l)
    BY <1>7, <1>8
  <2>2. FieldsLeft(l.spies, m, 0) = SendCInfoWifis(l.spies) \o m
    BY <1>0, FieldsLeftAll
  <2>. QED
    BY <1>2, <1>8, <2>1, <2>2, Zenon
<1>10. ListFields(l) = k \o (a \o (h \o b))
  BY <1>1, <1>6, <1>9, Zenon DEF ListFields
<1>11. Associative(AField)
  BY Associates
<1>12. ((k \o a) \o h) \o b = k \o (a \o (h \o b))
  <2>1. PICK q \in Seq(AField) : q = k \o a
    BY ConcatProperties
  <2>2. PICK r \in Seq(AField) : r = h \o b
    BY <1>7
  <2>3. (q \o h) \o b = q \o (h \o b)
    BY <1>11, ZenonT(40) DEF Associative
  <2>4. (k \o a) \o r = k \o (a \o r)
    BY <1>11, ZenonT(40) DEF Associative
  <2>. QED
    BY <2>1, <2>2, <2>3, <2>4, Zenon
<1>. QED
  BY <1>3, <1>5, <1>6, <1>10, <1>12, Zenon

\* vwifi-ctrl is reading the spies.
SpiesAt(e, rest, sh, c, n, l) ==
    InList(e, rest, sh, c, n, l.spies, "S", <<Item("clients")>>, ClientsPart(l), <<>>)

\* vwifi-ctrl is reading the clients.
ClientsAt(e, rest, sh, c, n, l) ==
    InList(e, rest, sh, c, n, l.clients, "C", <<>>, <<>>, Lines(l.spies, "S"))

\* How far vwifi-ctrl is with the answer to ls.
ListStage(e, rest, sh, c, n, l) ==
    \/ e = ListItems /\ rest = ListFields(l) /\ sh = <<>>
    \/ SpiesAt(e, rest, sh, c, n, l)
    \/ ClientsAt(e, rest, sh, c, n, l)

\* The parameters of both lists are as ListOK says.
LEMMA ListsOK ==
    ASSUME NEW l, EntryLists(l)
    PROVE  /\ ListOK(l.spies, "S", <<Item("clients")>>, ClientsPart(l), <<>>)
           /\ ListOK(l.clients, "C", <<>>, <<>>, Lines(l.spies, "S"))
<1>0. l.spies \in Seq(Entry) /\ l.clients \in Seq(Entry)
  BY DEF EntryLists
<1>1. <<>> \in Seq(AField) /\ <<>> \in Seq(AnItem)
  BY EmptySeq
<1>2. Starts(<<Item("clients")>>, Item("clients"), <<>>, AnItem) /\ ClientsPart(l) \in Seq(AField)
  BY ListParts DEF Starts
<1>3. PICK a \in Seq(AnItem) : a = <<Item("clients")>> /\ Head(a) = Item("clients")
  BY <1>2 DEF Starts
<1>4. Head(a).kind = "clients"
  BY <1>3 DEF Item
<1>5. ListOK(l.spies, "S", a, ClientsPart(l), <<>>)
  BY <1>0, <1>1, <1>2, <1>4 DEF ListOK
<1>6. Lines(l.spies, "S") \in Seq(AField)
  BY <1>0, LinesType
<1>7. ListOK(l.clients, "C", <<>>, <<>>, Lines(l.spies, "S"))
  BY <1>0, <1>1, <1>6 DEF ListOK
<1>. QED
  BY <1>3, <1>5, <1>7

\* What has been printed when v has been read.
ShownOf(e, v, sh) ==
    IF Head(e).kind \in Printed THEN Append(sh, Field(Head(e).kind, v)) ELSE sh

\* What is not printed when it is read.
LEMMA NotPrinted ==
    ASSUME NEW e, NEW v, NEW sh, Head(e).kind \in InEntry \cup {"spies", "clients", "error"}
    PROVE  ShownOf(e, v, sh) = sh
  BY DEF ShownOf, Printed, OfAnswer, InEntry

\* Only the read of a cid changes the local cid.
LEMMA NotCid ==
    ASSUME NEW e, NEW v, NEW c, Head(e).kind # "cid"
    PROVE  CidOf(e, v, c) = c
  BY DEF CidOf

\* The number of spies or of clients is read.
LEMMA ListHead ==
    ASSUME NEW kind \in {"spies", "clients"}, NEW line \in {"S", "C"}, NEW list \in Seq(Entry),
           kind = "spies" => line = "S", kind = "clients" => line = "C",
           NEW e, NEW its, Starts(e, Item(kind), its, AnItem),
           NEW rest, NEW fields, Starts(rest, Field(kind, Len(list)), fields, AField)
    PROVE  /\ Head(e).kind = kind /\ Fits(e, rest) /\ Tail(rest) = fields
           /\ AfterOf(e, Head(rest).v) = ItemsLeft(list, line, its, 0)
<1>0. kind \in Kind /\ kind \in Kind \ {"name"} /\ Len(list) \in Nat
  BY DEF Kind
<1>1. /\ Head(e) = Item(kind) /\ Tail(e) = its
      /\ rest # <<>> /\ Head(rest) = Field(kind, Len(list)) /\ Tail(rest) = fields
  BY DEF Starts
<1>2. Head(e).kind = kind /\ Head(rest).v = Len(list)
  BY <1>1 DEF Item, Field
<1>3. Width(Head(rest)) = Head(e).size
  BY <1>0, <1>1, PlainWidth
<1>4. Fits(e, rest)
  BY <1>1, <1>2, <1>3 DEF Fits
<1>5. AfterOf(e, Len(list)) = GetCInfoWifis(Len(list), line) \o Tail(e)
  BY <1>2 DEF AfterOf
<1>6. ItemsLeft(list, line, its, 0) = GetCInfoWifis(Len(list), line) \o its
  BY ItemsLeftAll
<1>. QED
  BY <1>1, <1>2, <1>4, <1>5, <1>6

\* Reading the next field of the answer to ls.
LEMMA ListRead ==
    ASSUME NEW l, EntryLists(l), NEW e, NEW rest, NEW sh, NEW c, NEW n,
           ListStage(e, rest, sh, c, n, l), e # <<>>, Head(e).kind \notin Silent
    PROVE  /\ Fits(e, rest) /\ Head(e).kind # "error"
           /\ ListStage(AfterOf(e, Head(rest).v), Tail(rest), ShownOf(e, Head(rest).v, sh),
                        CidOf(e, Head(rest).v, c), n, l)
<1>0. l.spies \in Seq(Entry) /\ l.clients \in Seq(Entry)
  BY DEF EntryLists
<1>ok. /\ ListOK(l.spies, "S", <<Item("clients")>>, ClientsPart(l), <<>>)
       /\ ListOK(l.clients, "C", <<>>, <<>>, Lines(l.spies, "S"))
  BY ListsOK
<1>1. CASE e = ListItems /\ rest = ListFields(l) /\ sh = <<>>
  <2>1. PICK its \in Seq(AnItem) : its = <<Item("clients")>>
    BY ListParts DEF Starts
  <2>2. Starts(e, Item("spies"), its, AnItem)
    BY <1>1, <2>1, ListParts
  <2>3. PICK fields : fields = FieldsLeft(l.spies, ClientsPart(l), 0)
    OBVIOUS
  <2>4. Starts(rest, Field("spies", Len(l.spies)), fields, AField)
    BY <1>1, <2>3, ListParts
  <2>5. /\ Head(e).kind = "spies" /\ Fits(e, rest) /\ Tail(rest) = fields
        /\ AfterOf(e, Head(rest).v) = ItemsLeft(l.spies, "S", its, 0)
    BY <1>0, <2>2, <2>4, ListHead
  <2>6. ShownOf(e, Head(rest).v, sh) = <<>> /\ CidOf(e, Head(rest).v, c) = c
    BY <1>1, <2>5, NotPrinted, NotCid
  <2>7. InList(ItemsLeft(l.spies, "S", its, 0), fields, <<>>, c, n, l.spies, "S", its, ClientsPart(l), <<>>)
    BY <1>ok, <2>1, <2>3, InListFirst
  <2>. QED
    BY <2>1, <2>5, <2>6, <2>7 DEF ListStage, SpiesAt
<1>2. CASE SpiesAt(e, rest, sh, c, n, l)
  <2>0. PICK its : its = <<Item("clients")>>
    OBVIOUS
  <2>1. InList(e, rest, sh, c, n, l.spies, "S", its, ClientsPart(l), <<>>)
        /\ ListOK(l.spies, "S", its, ClientsPart(l), <<>>)
    BY <1>2, <1>ok, <2>0 DEF SpiesAt
  <2>2. \/ ListDone(e, rest, sh, l.spies, "S", its, ClientsPart(l), <<>>)
        \/ /\ Head(e).kind \in InEntry /\ Fits(e, rest)
           /\ InList(AfterOf(e, Head(rest).v), Tail(rest), sh, CidOf(e, Head(rest).v, c), n,
                     l.spies, "S", its, ClientsPart(l), <<>>)
    BY <2>1, InListRead
  <2>3. CASE ListDone(e, rest, sh, l.spies, "S", its, ClientsPart(l), <<>>)
    <3>0. e = its /\ rest = ClientsPart(l) /\ sh = <<>> \o Lines(l.spies, "S")
      BY <2>3 DEF ListDone
    <3>1. Starts(e, Item("clients"), <<>>, AnItem)
      BY <2>0, <3>0, ListParts
    <3>2. PICK fields : fields = FieldsLeft(l.clients, <<>>, 0)
      OBVIOUS
    <3>3. Starts(rest, Field("clients", Len(l.clients)), fields, AField)
      BY <3>0, <3>2, ListParts
    <3>4. /\ Head(e).kind = "clients" /\ Fits(e, rest) /\ Tail(rest) = fields
          /\ AfterOf(e, Head(rest).v) = ItemsLeft(l.clients, "C", <<>>, 0)
      BY <1>0, <3>1, <3>3, ListHead
    <3>5. sh = Lines(l.spies, "S")
      <4>1. Lines(l.spies, "S") \in Seq(AField)
        BY <1>0, LinesType
      <4>2. <<>> \o Lines(l.spies, "S") = Lines(l.spies, "S")
        BY <4>1, ConcatEmptySeq
      <4>. QED
        BY <3>0, <4>2
    <3>6. ShownOf(e, Head(rest).v, sh) = Lines(l.spies, "S") /\ CidOf(e, Head(rest).v, c) = c
      BY <3>4, <3>5, NotPrinted, NotCid
    <3>7. InList(ItemsLeft(l.clients, "C", <<>>, 0), fields, Lines(l.spies, "S"), c, n, l.clients, "C", <<>>, <<>>,
                 Lines(l.spies, "S"))
      BY <1>ok, <3>2, InListFirst
    <3>. QED
      BY <3>4, <3>6, <3>7 DEF ListStage, ClientsAt
  <2>4. CASE /\ Head(e).kind \in InEntry /\ Fits(e, rest)
             /\ InList(AfterOf(e, Head(rest).v), Tail(rest), sh, CidOf(e, Head(rest).v, c), n,
                       l.spies, "S", its, ClientsPart(l), <<>>)
    <3>1. ShownOf(e, Head(rest).v, sh) = sh /\ Head(e).kind # "error"
      BY <2>4, NotPrinted DEF InEntry
    <3>. QED
      BY <2>0, <2>4, <3>1 DEF ListStage, SpiesAt
  <2>. QED
    BY <2>2, <2>3, <2>4
<1>3. CASE ClientsAt(e, rest, sh, c, n, l)
  <2>0. PICK before : before = Lines(l.spies, "S")
    OBVIOUS
  <2>1. InList(e, rest, sh, c, n, l.clients, "C", <<>>, <<>>, before) /\ ListOK(l.clients, "C", <<>>, <<>>, before)
    BY <1>3, <1>ok, <2>0 DEF ClientsAt
  <2>2. \/ ListDone(e, rest, sh, l.clients, "C", <<>>, <<>>, before)
        \/ /\ Head(e).kind \in InEntry /\ Fits(e, rest)
           /\ InList(AfterOf(e, Head(rest).v), Tail(rest), sh, CidOf(e, Head(rest).v, c), n,
                     l.clients, "C", <<>>, <<>>, before)
    BY <2>1, InListRead
  <2>3. ~ListDone(e, rest, sh, l.clients, "C", <<>>, <<>>, before)
    BY DEF ListDone
  <2>4. ShownOf(e, Head(rest).v, sh) = sh /\ Head(e).kind # "error"
    BY <2>2, <2>3, NotPrinted DEF InEntry
  <2>. QED
    BY <2>0, <2>2, <2>3, <2>4 DEF ListStage, ClientsAt
<1>. QED
  BY <1>1, <1>2, <1>3 DEF ListStage

\* Storing and printing an entry of the answer to ls.
LEMMA ListSilent ==
    ASSUME NEW l, EntryLists(l), NEW e, NEW rest, NEW sh, NEW c, NEW n,
           ListStage(e, rest, sh, c, n, l), e # <<>>
    PROVE  /\ Head(e).kind = "store" => ListStage(Tail(e), rest, sh, c, c, l)
           /\ Head(e).kind \in {"S", "C"} =>
                ListStage(Tail(e), rest, Append(sh, Field(Head(e).kind, n)), c, n, l)
<1>ok. /\ ListOK(l.spies, "S", <<Item("clients")>>, ClientsPart(l), <<>>)
       /\ ListOK(l.clients, "C", <<>>, <<>>, Lines(l.spies, "S"))
  BY ListsOK
<1>1. CASE e = ListItems
  <2>1. Head(e) = Item("spies")
    BY <1>1, ListParts DEF Starts
  <2>2. Head(e).kind = "spies"
    BY <2>1 DEF Item
  <2>. QED
    BY <2>2
<1>2. CASE SpiesAt(e, rest, sh, c, n, l)
  <2>0. PICK its : its = <<Item("clients")>>
    OBVIOUS
  <2>1. InList(e, rest, sh, c, n, l.spies, "S", its, ClientsPart(l), <<>>)
        /\ ListOK(l.spies, "S", its, ClientsPart(l), <<>>)
    BY <1>2, <1>ok, <2>0 DEF SpiesAt
  <2>2. /\ Head(e).kind = "store" => InList(Tail(e), rest, sh, c, c, l.spies, "S", its, ClientsPart(l), <<>>)
        /\ Head(e).kind \in {"S", "C"} =>
            InList(Tail(e), rest, Append(sh, Field(Head(e).kind, n)), c, n, l.spies, "S", its, ClientsPart(l), <<>>)
    BY <2>1, InListSilent
  <2>. QED
    BY <2>0, <2>2 DEF ListStage, SpiesAt
<1>3. CASE ClientsAt(e, rest, sh, c, n, l)
  <2>0. PICK before : before = Lines(l.spies, "S")
    OBVIOUS
  <2>1. InList(e, rest, sh, c, n, l.clients, "C", <<>>, <<>>, before) /\ ListOK(l.clients, "C", <<>>, <<>>, before)
    BY <1>3, <1>ok, <2>0 DEF ClientsAt
  <2>2. /\ Head(e).kind = "store" => InList(Tail(e), rest, sh, c, c, l.clients, "C", <<>>, <<>>, before)
        /\ Head(e).kind \in {"S", "C"} =>
            InList(Tail(e), rest, Append(sh, Field(Head(e).kind, n)), c, n, l.clients, "C", <<>>, <<>>, before)
    BY <2>1, InListSilent
  <2>. QED
    BY <2>0, <2>2 DEF ListStage, ClientsAt
<1>. QED
  BY <1>1, <1>2, <1>3 DEF ListStage

\* What has been printed for ls.
LEMMA ListShown ==
    ASSUME NEW l, EntryLists(l), NEW e, NEW rest, NEW sh, NEW c, NEW n,
           ListStage(e, rest, sh, c, n, l)
    PROVE  /\ Begins(sh, Lines(l.spies, "S") \o Lines(l.clients, "C"))
           /\ e = <<>> => sh = Lines(l.spies, "S") \o Lines(l.clients, "C")
<1>0. l.spies \in Seq(Entry) /\ l.clients \in Seq(Entry)
  BY DEF EntryLists
<1>ok. /\ ListOK(l.spies, "S", <<Item("clients")>>, ClientsPart(l), <<>>)
       /\ ListOK(l.clients, "C", <<>>, <<>>, Lines(l.spies, "S"))
  BY ListsOK
<1>a. PICK a \in Seq(AField), b \in Seq(AField) : a = Lines(l.spies, "S") /\ b = Lines(l.clients, "C")
  BY <1>0, LinesType
<1>b. a \o b \in Seq(AField) /\ <<>> \o (a \o b) = a \o b /\ <<>> \o a = a
  <2>1. PICK t \in Seq(AField) : t = a \o b
    BY ConcatProperties
  <2>. QED
    BY <2>1, ConcatEmptySeq
<1>1. CASE e = ListItems /\ sh = <<>>
  <2>1. e # <<>>
    BY <1>1, ListParts DEF Starts
  <2>2. sh \in Seq(AField) /\ a \o b = sh \o (a \o b)
    BY <1>1, <1>b, EmptySeq
  <2>. QED
    BY <1>a, <1>b, <2>1, <2>2 DEF Begins
<1>2. CASE SpiesAt(e, rest, sh, c, n, l)
  <2>0. PICK its, none : its = <<Item("clients")>> /\ its # <<>> /\ none = <<>>
    BY ListParts DEF Starts
  <2>1. InList(e, rest, sh, c, n, l.spies, "S", its, ClientsPart(l), none)
        /\ ListOK(l.spies, "S", its, ClientsPart(l), none)
    BY <1>2, <1>ok, <2>0 DEF SpiesAt
  <2>2. /\ Begins(sh, none \o Lines(l.spies, "S"))
        /\ e = <<>> => its = <<>> /\ sh = none \o Lines(l.spies, "S")
    BY <2>1, InListShown
  <2>3. PICK w \in Seq(AField) : a = sh \o w /\ sh \in Seq(AField)
    BY <1>a, <1>b, <2>0, <2>2 DEF Begins
  <2>4. w \o b \in Seq(AField) /\ a \o b = sh \o (w \o b)
    <3>1. Associative(AField)
      BY Associates
    <3>2. (sh \o w) \o b = sh \o (w \o b)
      BY <2>3, <3>1, Zenon DEF Associative
    <3>3. w \o b \in Seq(AField)
      BY ConcatProperties
    <3>. QED
      BY <2>3, <3>2, <3>3, Zenon
  <2>. QED
    BY <1>a, <2>0, <2>2, <2>3, <2>4 DEF Begins
<1>3. CASE ClientsAt(e, rest, sh, c, n, l)
  <2>1. InList(e, rest, sh, c, n, l.clients, "C", <<>>, <<>>, a) /\ ListOK(l.clients, "C", <<>>, <<>>, a)
    BY <1>3, <1>ok, <1>a DEF ClientsAt
  <2>2. /\ Begins(sh, a \o Lines(l.clients, "C"))
        /\ e = <<>> => sh = a \o Lines(l.clients, "C")
    BY <2>1, InListShown
  <2>. QED
    BY <1>a, <2>2
<1>. QED
  BY <1>1, <1>2, <1>3 DEF ListStage

-----------------------------------------------------------------------------
(***************************************************************************)
(* The answers to show and status                                          *)
(***************************************************************************)

\* The settings: the fields of the answer are read and printed one by one.
SettingsOK(o, fs) ==
    /\ fs \in Seq(AField) /\ Len(fs) = Len(ExpKinds(o))
    /\ \A i \in 1..Len(fs) : fs[i].kind = ExpKinds(o)[i] /\ fs[i].kind \in Printed

\* k of the settings have been read.
SettingsAt(e, rest, sh, o, fs, k) ==
    e = From(Expected(o), k) /\ rest = From(fs, k) /\ sh = SubSeq(fs, 1, k)

\* How far vwifi-ctrl is with the settings.
SettingsStage(e, rest, sh, o, fs) == \E k \in 0..Len(fs) : SettingsAt(e, rest, sh, o, fs, k)

\* A field is made of its kind and its value.
LEMMA FieldIs ==
    ASSUME NEW f \in AField
    PROVE  Field(f.kind, f.v) = f
  BY DEF AField, Field

\* The items of an answer.
LEMMA ExpectedType ==
    ASSUME NEW o
    PROVE  /\ Expected(o) \in Seq(AnItem) /\ Len(Expected(o)) = Len(ExpKinds(o))
           /\ \A i \in 1..Len(ExpKinds(o)) : Expected(o)[i] = Item(ExpKinds(o)[i])
  BY ExpectedKinds, ItemsType

\* The next setting is read as it was sent, and printed.
LEMMA SettingsRead ==
    ASSUME NEW o, NEW fs, SettingsOK(o, fs), NEW e, NEW rest, NEW sh, SettingsStage(e, rest, sh, o, fs),
           e # <<>>
    PROVE  /\ Fits(e, rest) /\ Head(e).kind \in Printed
           /\ SettingsStage(AfterOf(e, Head(rest).v), Tail(rest), ShownOf(e, Head(rest).v, sh), o, fs)
<1>0. /\ fs \in Seq(AField) /\ Len(fs) = Len(ExpKinds(o)) /\ Len(fs) \in Nat
      /\ \A i \in 1..Len(fs) : fs[i].kind = ExpKinds(o)[i] /\ fs[i].kind \in Printed
  BY DEF SettingsOK
<1>1. PICK k \in 0..Len(fs) : SettingsAt(e, rest, sh, o, fs, k)
  BY DEF SettingsStage
<1>2. e = From(Expected(o), k) /\ rest = From(fs, k) /\ sh = SubSeq(fs, 1, k)
  BY <1>1 DEF SettingsAt
<1>3. PICK s \in Seq(AnItem) : s = Expected(o) /\ Len(s) = Len(fs)
  BY <1>0, ExpectedType
<1>4. k # Len(fs)
  BY <1>2, <1>3, FromEnd
<1>5. k \in 0..(Len(fs) - 1) /\ k + 1 \in 1..Len(fs) /\ k + 1 \in 0..Len(fs)
  BY <1>0, <1>4
<1>6. Starts(e, s[k + 1], From(s, k + 1), AnItem)
  BY <1>2, <1>3, <1>5, FromStarts
<1>7. Starts(rest, fs[k + 1], From(fs, k + 1), AField)
  BY <1>0, <1>2, <1>5, FromStarts
<1>8. PICK f \in AField : f = fs[k + 1]
  BY <1>0, <1>5, ElementOfSeq
<1>9. s[k + 1] = Item(f.kind) /\ f.kind \in Printed
  BY <1>0, <1>3, <1>5, <1>8, ExpectedType
<1>10. Head(e) = Item(f.kind) /\ Tail(e) = From(s, k + 1)
  BY <1>6, <1>9 DEF Starts
<1>11. rest # <<>> /\ Head(rest) = f /\ Tail(rest) = From(fs, k + 1)
  BY <1>7, <1>8 DEF Starts
<1>12. Head(e).kind = f.kind /\ Head(e).size = SizeOf(f.kind)
  BY <1>10 DEF Item
<1>13. f.kind \notin {"spies", "clients", "size", "name", "error", "cid"}
  BY <1>9 DEF Printed, OfAnswer
<1>14. Width(f) = SizeOf(f.kind)
  BY <1>13 DEF Width
<1>15. Fits(e, rest)
  BY <1>11, <1>12, <1>13, <1>14 DEF Fits
<1>16. AfterOf(e, f.v) = Tail(e)
  BY <1>12, <1>13, PlainAfter
<1>17. ShownOf(e, f.v, sh) = Append(sh, f)
  <2>1. ShownOf(e, f.v, sh) = Append(sh, Field(f.kind, f.v))
    BY <1>9, <1>12 DEF ShownOf
  <2>. QED
    BY <2>1, FieldIs
<1>18. Append(sh, f) = SubSeq(fs, 1, k + 1)
  BY <1>0, <1>2, <1>5, <1>8, SubSeqNext
<1>19. SettingsAt(AfterOf(e, Head(rest).v), Tail(rest), ShownOf(e, Head(rest).v, sh), o, fs, k + 1)
  BY <1>3, <1>10, <1>11, <1>16, <1>17, <1>18 DEF SettingsAt
<1>. QED
  BY <1>5, <1>9, <1>12, <1>15, <1>19 DEF SettingsStage

\* The settings that have been printed are the first ones; when nothing is
\* left to be read, all.
LEMMA SettingsShown ==
    ASSUME NEW o, NEW fs, SettingsOK(o, fs), NEW e, NEW rest, NEW sh, SettingsStage(e, rest, sh, o, fs)
    PROVE  Begins(sh, fs) /\ (e = <<>> => sh = fs)
<1>0. fs \in Seq(AField) /\ Len(fs) = Len(ExpKinds(o)) /\ Len(fs) \in Nat
  BY DEF SettingsOK
<1>1. PICK k \in 0..Len(fs) : SettingsAt(e, rest, sh, o, fs, k)
  BY DEF SettingsStage
<1>2. e = From(Expected(o), k) /\ rest = From(fs, k) /\ sh = SubSeq(fs, 1, k)
  BY <1>1 DEF SettingsAt
<1>3. PICK s \in Seq(AnItem) : s = Expected(o) /\ Len(s) = Len(fs)
  BY <1>0, ExpectedType
<1>4. SubSeq(fs, 1, Len(fs)) = fs
  BY <1>0, SubSeqFull
<1>5. e = <<>> => k = Len(fs)
  BY <1>2, <1>3, FromEnd
<1>6. From(fs, k) \in Seq(AField) /\ sh \o From(fs, k) = fs
  <2>1. From(fs, k) \in Seq(AField)
    BY <1>0, FromType
  <2>2. 1 \in 1..(Len(fs) + 1) /\ k \in (1 - 1)..Len(fs) /\ Len(fs) \in k..Len(fs)
    BY <1>0
  <2>3. SubSeq(fs, 1, k) \o SubSeq(fs, k + 1, Len(fs)) = SubSeq(fs, 1, Len(fs))
    BY <1>0, <2>2, ConcatAdjacentSubSeq
  <2>. QED
    BY <1>2, <1>4, <2>1, <2>3 DEF From
<1>7. sh \in Seq(AField)
  BY <1>0, <1>2
<1>8. Begins(sh, fs)
  BY <1>6, <1>7 DEF Begins
<1>. QED
  BY <1>2, <1>4, <1>5, <1>8

\* At the start none has been read.
LEMMA SettingsStart ==
    ASSUME NEW o, NEW fs, SettingsOK(o, fs)
    PROVE  SettingsStage(Expected(o), fs, <<>>, o, fs)
<1>0. fs \in Seq(AField) /\ 0 \in 0..Len(fs)
  BY DEF SettingsOK
<1>1. From(fs, 0) = fs
  BY <1>0, FromAll
<1>2. From(Expected(o), 0) = Expected(o)
  BY ExpectedType, FromAll
<1>3. SubSeq(fs, 1, 0) = <<>>
  BY SubSeqEmpty
<1>. QED
  BY <1>0, <1>1, <1>2, <1>3 DEF SettingsStage, SettingsAt

\* The field of the spy.
LEMMA SpyField ==
    ASSUME NEW l
    PROVE  Spy(l) \in AField /\ Spy(l).kind = "spy"
<1>1. PICK v \in Nat : v = IF l.spies = <<>> THEN 0 ELSE 1
  OBVIOUS
<1>2. Spy(l) = Field("spy", v)
  BY <1>1 DEF Spy
<1>. QED
  BY <1>2, KindField DEF Kind

\* SendShow sends what AskShow reads.
LEMMA ShowOK ==
    ASSUME NEW l
    PROVE  SettingsOK(TORDER_SHOW, SendShow(l))
<1>1. PICK a \in AField, b \in AField, c \in AField :
        /\ a = Field("loss", 0) /\ b = Field("scale", 1) /\ c = Spy(l)
        /\ a.kind = "loss" /\ b.kind = "scale" /\ c.kind = "spy"
  BY SpyField, KindField DEF Kind
<1>2. SendShow(l) = <<a, b, c>>
  BY <1>1 DEF SendShow
<1>3. PICK fs \in Seq(AField) : fs = <<a, b, c>> /\ Len(fs) = 3 /\ fs[1] = a /\ fs[2] = b /\ fs[3] = c
  <2>1. <<a, b, c>> \in Seq(AField)
    OBVIOUS
  <2>. QED
    BY <2>1
<1>4. ExpKinds(TORDER_SHOW) = <<"loss", "scale", "spy">>
  BY DEF ExpKinds, TORDER_LIST, TORDER_SHOW, TORDER_STATUS, TORDER_DISTANCE_BETWEEN_CID
<1>5. PICK ks : ks = ExpKinds(TORDER_SHOW) /\ Len(ks) = 3 /\ ks[1] = "loss" /\ ks[2] = "scale" /\ ks[3] = "spy"
  BY <1>4
<1>6. \A i \in 1..3 : fs[i].kind = ks[i] /\ fs[i].kind \in Printed
  <2>1. ASSUME NEW i \in 1..3 PROVE fs[i].kind = ks[i] /\ fs[i].kind \in Printed
    <3>1. i = 1 \/ i = 2 \/ i = 3
      OBVIOUS
    <3>. QED
      BY <1>1, <1>3, <1>5, <3>1 DEF Printed, OfAnswer
  <2>. QED
    BY <2>1
<1>. QED
  BY <1>2, <1>3, <1>5, <1>6 DEF SettingsOK

\* SendStatus sends what AskStatus reads, if the server was built with vsock.
LEMMA StatusOK ==
    ASSUME NEW l, ENABLE_VHOST
    PROVE  SettingsOK(TORDER_STATUS, SendStatus(l))
<1>1. PICK a \in AField, b \in AField, c \in AField, d \in AField, f \in AField, g \in AField :
        /\ a = Field("loss", 0) /\ b = Field("scale", 1) /\ c = Field("vhost", 8211)
        /\ d = Field("inet", 8212) /\ f = Field("limit", 15) /\ g = Spy(l)
        /\ a.kind = "loss" /\ b.kind = "scale" /\ c.kind = "vhost" /\ d.kind = "inet" /\ f.kind = "limit"
        /\ g.kind = "spy"
  BY SpyField, KindField DEF Kind
<1>2. SendStatus(l) = (<<a, b>> \o <<c>>) \o <<d, f, g>>
  BY <1>1 DEF SendStatus
<1>3. PICK fs \in Seq(AField) : /\ fs = (<<a, b>> \o <<c>>) \o <<d, f, g>> /\ Len(fs) = 6
                                /\ fs[1] = a /\ fs[2] = b /\ fs[3] = c /\ fs[4] = d /\ fs[5] = f /\ fs[6] = g
  <2>1. PICK p \in Seq(AField) : p = <<a, b>> /\ Len(p) = 2 /\ p[1] = a /\ p[2] = b
    <3>1. <<a, b>> \in Seq(AField)
      OBVIOUS
    <3>. QED
      BY <3>1
  <2>2. PICK q \in Seq(AField) : q = Append(p, c) /\ q = p \o <<c>>
    BY AppendIsConcat, AppendProperties
  <2>3. Len(q) = 3 /\ q[1] = a /\ q[2] = b /\ q[3] = c
    BY <2>1, <2>2
  <2>4. PICK r \in Seq(AField) : r = <<d, f, g>> /\ Len(r) = 3 /\ r[1] = d /\ r[2] = f /\ r[3] = g
    <3>1. <<d, f, g>> \in Seq(AField)
      OBVIOUS
    <3>. QED
      BY <3>1
  <2>5. PICK t \in Seq(AField) : t = q \o r /\ Len(t) = 6
    <3>1. q \o r \in Seq(AField) /\ Len(q \o r) = Len(q) + Len(r)
      BY ConcatProperties
    <3>2. Len(q \o r) = 6
      BY <2>3, <2>4, <3>1
    <3>. QED
      BY <3>1, <3>2, Zenon
  <2>6. \A i \in 1..6 : t[i] = IF i <= 3 THEN q[i] ELSE r[i - 3]
    BY <2>3, <2>4, <2>5, ConcatProperties
  <2>7. t[1] = a /\ t[2] = b /\ t[3] = c /\ t[4] = d /\ t[5] = f /\ t[6] = g
    BY <2>3, <2>4, <2>6
  <2>8. t = (<<a, b>> \o <<c>>) \o <<d, f, g>>
    BY <2>1, <2>2, <2>4, <2>5, Zenon
  <2>. QED
    BY <2>5, <2>7, <2>8
<1>4. ExpKinds(TORDER_STATUS) = <<"loss", "scale", "vhost", "inet", "limit", "spy">>
  BY DEF ExpKinds, TORDER_LIST, TORDER_SHOW, TORDER_STATUS, TORDER_DISTANCE_BETWEEN_CID
<1>5. PICK ks : /\ ks = ExpKinds(TORDER_STATUS) /\ Len(ks) = 6 /\ ks[1] = "loss" /\ ks[2] = "scale"
                /\ ks[3] = "vhost" /\ ks[4] = "inet" /\ ks[5] = "limit" /\ ks[6] = "spy"
  BY <1>4
<1>6. \A i \in 1..6 : fs[i].kind = ks[i] /\ fs[i].kind \in Printed
  <2>1. ASSUME NEW i \in 1..6 PROVE fs[i].kind = ks[i] /\ fs[i].kind \in Printed
    <3>1. i = 1 \/ i = 2 \/ i = 3 \/ i = 4 \/ i = 5 \/ i = 6
      OBVIOUS
    <3>. QED
      BY <1>1, <1>3, <1>5, <3>1 DEF Printed, OfAnswer
  <2>. QED
    BY <2>1
<1>. QED
  BY <1>2, <1>3, <1>5, <1>6 DEF SettingsOK

\* Nothing begins everything.
LEMMA BeginsNone ==
    ASSUME NEW t \in Seq(AField)
    PROVE  Begins(<<>>, t)
<1>1. <<>> \in Seq(AField) /\ t = <<>> \o t
  BY EmptySeq, ConcatEmptySeq
<1>. QED
  BY <1>1 DEF Begins

\* A sequence begins itself.
LEMMA BeginsAll ==
    ASSUME NEW t \in Seq(AField)
    PROVE  Begins(t, t)
<1>1. <<>> \in Seq(AField) /\ t = t \o <<>>
  BY EmptySeq, ConcatEmptySeq
<1>. QED
  BY <1>1 DEF Begins

\* Begins, in the words of IsPrefix.
LEMMA BeginsPrefix ==
    ASSUME NEW sh, NEW t, Begins(sh, t)
    PROVE  IsPrefix(sh, t)
<1>1. PICK w \in Seq(AField) : sh \in Seq(AField) /\ t = sh \o w
  BY DEF Begins
<1>. QED
  BY <1>1, PrefixOf

-----------------------------------------------------------------------------
(***************************************************************************)
(* The answer to distance                                                  *)
(***************************************************************************)

\* Both guests are known.
BothKnown(l, as) == \A i \in 1..2 : Known(l, as[i])

\* What AskDistance reads.
DistanceItems == <<Item("error")>> \o <<Item("distance")>>

\* The field of the distance.
Far == Field("distance", 0)

\* How far vwifi-ctrl is with the answer to distance.
DistanceStage(e, rest, sh, l, as) ==
    \/ e = DistanceItems /\ rest = SendDistance(l, as) /\ sh = <<>>
    \/ BothKnown(l, as) /\ e = <<Item("distance")>> /\ rest = <<Far>> /\ sh = <<>>
    \/ BothKnown(l, as) /\ e = <<>> /\ rest = <<>> /\ sh = <<Far>>

\* The field of the error code.
ErrorField(v) == Field("error", v)

\* It is a field, as wide as it is read.
LEMMA ErrorFieldIs ==
    ASSUME NEW v \in Int
    PROVE  ErrorField(v) \in AField /\ ErrorField(v).v = v /\ Width(ErrorField(v)) = SizeOf("error")
  BY DEF ErrorField, AField, Field, Width, Kind

\* The distance is a field.
LEMMA FarIs == Far \in AField /\ Far.kind = "distance" /\ Far.v = 0
  BY KindField DEF Far, Kind

\* A single element starts with itself and goes on with nothing.
LEMMA One ==
    ASSUME NEW T, NEW x \in T
    PROVE  Starts(<<x>>, x, <<>>, T)
<1>1. PICK s \in Seq(T) : s = <<x>>
  BY OneType
<1>2. s = s \o <<>> /\ <<>> \in Seq(T)
  BY ConcatEmptySeq, EmptySeq
<1>3. s = <<x>> \o <<>>
  BY <1>1, <1>2, Zenon
<1>4. Starts(s, x, <<>>, T)
  BY <1>2, <1>3, StartsWith
<1>. QED
  BY <1>1, <1>4

\* The answer begins with an error code; behind 0 stands the distance of two known guests.
LEMMA DistanceReply ==
    ASSUME NEW l, NEW as
    PROVE  \E v \in {-1, -2, 0}, t \in Seq(AField) :
              /\ Starts(SendDistance(l, as), ErrorField(v), t, AField)
              /\ v = 0 => BothKnown(l, as) /\ t = <<Far>>
<1>0. -1 \in Int /\ -2 \in Int /\ 0 \in Int /\ <<>> \in Seq(AField)
  BY EmptySeq
<1>1. CASE ~Known(l, as[1])
  <2>1. PICK v \in {-1, -2, 0} : v = -1
    OBVIOUS
  <2>2. SendDistance(l, as) = <<ErrorField(v)>>
    BY <1>1, <2>1 DEF SendDistance, ErrorField
  <2>3. ErrorField(v) \in AField
    BY <1>0, ErrorFieldIs
  <2>4. Starts(SendDistance(l, as), ErrorField(v), <<>>, AField)
    BY <2>2, <2>3, One
  <2>5. v # 0
    BY <2>1
  <2>. QED
    BY <1>0, <2>4, <2>5, Zenon
<1>2. CASE Known(l, as[1]) /\ ~Known(l, as[2])
  <2>1. PICK v \in {-1, -2, 0} : v = -2
    OBVIOUS
  <2>2. SendDistance(l, as) = <<ErrorField(v)>>
    BY <1>2, <2>1 DEF SendDistance, ErrorField
  <2>3. ErrorField(v) \in AField
    BY <1>0, ErrorFieldIs
  <2>4. Starts(SendDistance(l, as), ErrorField(v), <<>>, AField)
    BY <2>2, <2>3, One
  <2>5. v # 0
    BY <2>1
  <2>. QED
    BY <1>0, <2>4, <2>5, Zenon
<1>3. CASE Known(l, as[1]) /\ Known(l, as[2])
  <2>1. PICK v \in {-1, -2, 0} : v = 0
    OBVIOUS
  <2>2. SendDistance(l, as) = <<ErrorField(v), Far>>
    BY <1>3, <2>1 DEF SendDistance, ErrorField, Far
  <2>3. ErrorField(v) \in AField /\ Far \in AField
    BY <1>0, <2>1, ErrorFieldIs, FarIs
  <2>4. PICK t \in Seq(AField) : t = <<Far>>
    BY <2>3, OneType
  <2>5. SendDistance(l, as) = <<ErrorField(v)>> \o t
    <3>1. <<ErrorField(v), Far>> = <<ErrorField(v)>> \o <<Far>>
      BY <2>3, TupleOfTwo
    <3>. QED
      BY <2>2, <2>4, <3>1, Zenon
  <2>6. Starts(SendDistance(l, as), ErrorField(v), t, AField)
    BY <2>3, <2>5, StartsWith
  <2>7. BothKnown(l, as)
    <3>1. ASSUME NEW i \in 1..2 PROVE Known(l, as[i])
      <4>1. i = 1 \/ i = 2
        OBVIOUS
      <4>. QED
        BY <1>3, <4>1, Zenon
    <3>. QED
      BY <3>1 DEF BothKnown
  <2>. QED
    BY <2>4, <2>6, <2>7
<1>. QED
  BY <1>1, <1>2, <1>3

\* The distance is read behind the error code.
LEMMA DistanceItemsAre ==
    /\ Starts(DistanceItems, Item("error"), <<Item("distance")>>, AnItem)
    /\ Starts(<<Item("distance")>>, Item("distance"), <<>>, AnItem)
<1>1. Item("error") \in AnItem /\ Item("distance") \in AnItem
  BY KindItem DEF Kind
<1>2. PICK t \in Seq(AnItem) : t = <<Item("distance")>>
  BY <1>1, OneType
<1>3. Starts(DistanceItems, Item("error"), t, AnItem)
  BY <1>1, <1>2, StartsWith DEF DistanceItems
<1>. QED
  BY <1>1, <1>2, <1>3, One

\* The next field of the answer is read as it was sent; vwifi-ctrl ends at an
\* error.
LEMMA DistanceRead ==
    ASSUME NEW l, NEW as, NEW e, NEW rest, NEW sh, DistanceStage(e, rest, sh, l, as), e # <<>>
    PROVE  /\ Fits(e, rest) /\ Head(e).kind \in {"error", "distance"}
           /\ \/ Head(e).kind = "error" /\ Head(rest).v \in {-1, -2}
              \/ DistanceStage(AfterOf(e, Head(rest).v), Tail(rest), ShownOf(e, Head(rest).v, sh), l, as)
<1>1. CASE e = DistanceItems /\ rest = SendDistance(l, as) /\ sh = <<>>
  <2>1. PICK v \in {-1, -2, 0}, t \in Seq(AField) :
              /\ Starts(rest, ErrorField(v), t, AField)
              /\ v = 0 => BothKnown(l, as) /\ t = <<Far>>
    BY <1>1, DistanceReply
  <2>2. Head(e) = Item("error") /\ Tail(e) = <<Item("distance")>>
    BY <1>1, DistanceItemsAre DEF Starts
  <2>3. rest # <<>> /\ Head(rest) = ErrorField(v) /\ Tail(rest) = t
    BY <2>1 DEF Starts
  <2>4. Head(e).kind = "error" /\ Head(e).size = SizeOf("error")
    BY <2>2 DEF Item
  <2>5. Head(rest).v = v /\ Width(Head(rest)) = SizeOf("error")
    BY <2>3, ErrorFieldIs
  <2>6. Fits(e, rest)
    BY <2>3, <2>4, <2>5 DEF Fits
  <2>7. AfterOf(e, Head(rest).v) = Tail(e) /\ ShownOf(e, Head(rest).v, sh) = sh
    BY <2>4, PlainAfter, NotPrinted
  <2>8. CASE v = 0
    <3>1. DistanceStage(Tail(e), Tail(rest), sh, l, as)
      BY <1>1, <2>1, <2>2, <2>3, <2>8 DEF DistanceStage
    <3>. QED
      BY <2>4, <2>6, <2>7, <3>1
  <2>9. CASE v \in {-1, -2}
    BY <2>4, <2>5, <2>6, <2>9
  <2>. QED
    BY <2>8, <2>9
<1>2. CASE BothKnown(l, as) /\ e = <<Item("distance")>> /\ rest = <<Far>> /\ sh = <<>>
  <2>1. Head(e) = Item("distance") /\ Tail(e) = <<>>
    BY <1>2, DistanceItemsAre DEF Starts
  <2>2. rest # <<>> /\ Head(rest) = Far /\ Tail(rest) = <<>>
    BY <1>2, FarIs, One DEF Starts
  <2>3. Head(e).kind = "distance" /\ Head(e).size = SizeOf("distance") /\ Width(Far) = SizeOf("distance")
    BY <2>1, FarIs DEF Item, Width
  <2>4. Fits(e, rest)
    BY <2>2, <2>3 DEF Fits
  <2>5. AfterOf(e, Head(rest).v) = <<>>
    BY <2>1, <2>3, PlainAfter
  <2>6. ShownOf(e, Head(rest).v, sh) = <<Far>>
    <3>1. Head(e).kind \in Printed
      BY <2>3 DEF Printed, OfAnswer
    <3>2. ShownOf(e, Head(rest).v, sh) = Append(<<>>, Field("distance", 0))
      BY <1>2, <2>2, <2>3, <3>1, FarIs DEF ShownOf
    <3>. QED
      BY <3>2 DEF Far
  <2>. QED
    BY <1>2, <2>2, <2>3, <2>4, <2>5, <2>6 DEF DistanceStage
<1>. QED
  BY <1>1, <1>2 DEF DistanceStage

\* What is to be printed for distance.
DistanceTruth(l, as) == IF BothKnown(l, as) THEN <<Far>> ELSE <<>>

\* What has been printed begins it; when nothing is left to be read, it is
\* all.
LEMMA DistanceShown ==
    ASSUME NEW l, NEW as, NEW e, NEW rest, NEW sh, DistanceStage(e, rest, sh, l, as)
    PROVE  Begins(sh, DistanceTruth(l, as)) /\ (e = <<>> => sh = DistanceTruth(l, as))
<1>1. PICK t \in Seq(AField) : t = DistanceTruth(l, as)
  <2>1. <<Far>> \in Seq(AField) /\ <<>> \in Seq(AField)
    BY FarIs, OneType, EmptySeq
  <2>. QED
    BY <2>1 DEF DistanceTruth
<1>2. DistanceItems # <<>> /\ <<Item("distance")>> # <<>>
  BY DistanceItemsAre DEF Starts
<1>3. CASE sh = <<>> /\ e # <<>>
  BY <1>1, <1>3, BeginsNone
<1>4. CASE BothKnown(l, as) /\ e = <<>> /\ sh = <<Far>>
  BY <1>1, <1>4, BeginsAll DEF DistanceTruth
<1>. QED
  BY <1>2, <1>3, <1>4 DEF DistanceStage

\* The items of two kinds.
LEMMA ItemsOfTwo ==
    ASSUME NEW a \in Kind, NEW b \in Kind
    PROVE  Items(<<a, b>>) = <<Item(a)>> \o <<Item(b)>>
<1>1. PICK ks \in Seq(Kind) : ks = <<a, b>> /\ Len(ks) = 2 /\ ks[1] = a /\ ks[2] = b
  <2>1. <<a, b>> \in Seq(Kind)
    OBVIOUS
  <2>. QED
    BY <2>1
<1>2. PICK x \in AnItem, y \in AnItem : x = Item(a) /\ y = Item(b)
  BY KindItem
<1>3. PICK its \in Seq(AnItem) : its = Items(ks) /\ Len(its) = 2 /\ its[1] = x /\ its[2] = y
  <2>1. /\ Items(ks) \in Seq(AnItem) /\ Len(Items(ks)) = Len(ks)
        /\ \A i \in 1..Len(ks) : Items(ks)[i] = Item(ks[i])
    BY ItemsType
  <2>2. PICK its \in Seq(AnItem) : its = Items(ks)
    BY <2>1
  <2>3. 1 \in 1..Len(ks) /\ 2 \in 1..Len(ks)
    BY <1>1
  <2>4. its[1] = Item(ks[1]) /\ its[2] = Item(ks[2]) /\ Len(its) = 2
    BY <1>1, <2>1, <2>2, <2>3
  <2>. QED
    BY <1>1, <1>2, <2>2, <2>4
<1>4. PICK p \in Seq(AnItem) : p = <<x, y>> /\ Len(p) = 2 /\ p[1] = x /\ p[2] = y
  <2>1. <<x, y>> \in Seq(AnItem)
    OBVIOUS
  <2>. QED
    BY <2>1
<1>5. \A i \in 1..2 : its[i] = p[i]
  <2>1. ASSUME NEW i \in 1..2 PROVE its[i] = p[i]
    <3>1. i = 1 \/ i = 2
      OBVIOUS
    <3>. QED
      BY <1>3, <1>4, <3>1
  <2>. QED
    BY <2>1
<1>6. its = p
  BY <1>3, <1>4, <1>5, SeqEqual
<1>7. <<x, y>> = <<x>> \o <<y>>
  BY TupleOfTwo
<1>. QED
  BY <1>1, <1>2, <1>3, <1>4, <1>6, <1>7, Zenon

-----------------------------------------------------------------------------
(***************************************************************************)
(* The answer to any order                                                 *)
(***************************************************************************)

\* The orders that have an answer.
Answered == {TORDER_LIST, TORDER_SHOW, TORDER_STATUS, TORDER_DISTANCE_BETWEEN_CID}

\* How far vwifi-ctrl is with the answer to the request r, the lists having been l.
Stage(e, rest, sh, c, n, r, l) ==
    /\ r.order = TORDER_LIST => ListStage(e, rest, sh, c, n, l)
    /\ r.order = TORDER_SHOW => SettingsStage(e, rest, sh, TORDER_SHOW, SendShow(l))
    /\ r.order = TORDER_STATUS => SettingsStage(e, rest, sh, TORDER_STATUS, SendStatus(l))
    /\ r.order = TORDER_DISTANCE_BETWEEN_CID => DistanceStage(e, rest, sh, l, r.args)
    /\ r.order \notin Answered => e = <<>> /\ rest = <<>> /\ sh = <<>>

\* What is to be printed.
TruthOf(r, l) ==
    CASE r.order = TORDER_LIST -> Lines(l.spies, "S") \o Lines(l.clients, "C")
      [] r.order = TORDER_SHOW -> SendShow(l)
      [] r.order = TORDER_STATUS -> SendStatus(l)
      [] r.order = TORDER_DISTANCE_BETWEEN_CID -> DistanceTruth(l, r.args)
      [] OTHER -> <<>>

\* They differ.
LEMMA OrdersDiffer ==
    /\ TORDER_LIST = 1 /\ TORDER_SHOW = 2 /\ TORDER_STATUS = 6 /\ TORDER_DISTANCE_BETWEEN_CID = 7
    /\ Answered = {1, 2, 6, 7}
  BY DEF TORDER_LIST, TORDER_SHOW, TORDER_STATUS, TORDER_DISTANCE_BETWEEN_CID, Answered

\* Only one of the five cases of a stage applies.
LEMMA StageOf ==
    ASSUME NEW e, NEW rest, NEW sh, NEW c, NEW n, NEW r, NEW l
    PROVE  /\ r.order = TORDER_LIST =>
                 (Stage(e, rest, sh, c, n, r, l) <=> ListStage(e, rest, sh, c, n, l))
           /\ r.order = TORDER_SHOW =>
                 (Stage(e, rest, sh, c, n, r, l) <=> SettingsStage(e, rest, sh, TORDER_SHOW, SendShow(l)))
           /\ r.order = TORDER_STATUS =>
                 (Stage(e, rest, sh, c, n, r, l) <=> SettingsStage(e, rest, sh, TORDER_STATUS, SendStatus(l)))
           /\ r.order = TORDER_DISTANCE_BETWEEN_CID =>
                 (Stage(e, rest, sh, c, n, r, l) <=> DistanceStage(e, rest, sh, l, r.args))
           /\ r.order \notin Answered =>
                 (Stage(e, rest, sh, c, n, r, l) <=> e = <<>> /\ rest = <<>> /\ sh = <<>>)
  BY OrdersDiffer DEF Stage

\* The next field is read.
LEMMA StageRead ==
    ASSUME ENABLE_VHOST, NEW e, NEW rest, NEW sh, NEW c, NEW n, NEW r, NEW l, EntryLists(l),
           Stage(e, rest, sh, c, n, r, l), e # <<>>, Head(e).kind \notin Silent
    PROVE  /\ Fits(e, rest)
           /\ \/ Head(e).kind = "error" /\ Head(rest).v \in {-1, -2}
              \/ Stage(AfterOf(e, Head(rest).v), Tail(rest), ShownOf(e, Head(rest).v, sh),
                       CidOf(e, Head(rest).v, c), n, r, l)
<1>. DEFINE e2 == AfterOf(e, Head(rest).v)
            rest2 == Tail(rest)
            sh2 == ShownOf(e, Head(rest).v, sh)
            c2 == CidOf(e, Head(rest).v, c)
<1>1. CASE r.order = TORDER_LIST
  <2>1. ListStage(e, rest, sh, c, n, l)
    BY <1>1, StageOf
  <2>2. Fits(e, rest) /\ ListStage(e2, rest2, sh2, c2, n, l)
    BY <2>1, ListRead
  <2>. QED
    BY <1>1, <2>2, StageOf
<1>2. CASE r.order = TORDER_SHOW
  <2>1. SettingsStage(e, rest, sh, TORDER_SHOW, SendShow(l)) /\ SettingsOK(TORDER_SHOW, SendShow(l))
    BY <1>2, StageOf, ShowOK
  <2>2. Fits(e, rest) /\ SettingsStage(e2, rest2, sh2, TORDER_SHOW, SendShow(l))
    BY <2>1, SettingsRead
  <2>. QED
    BY <1>2, <2>2, StageOf
<1>3. CASE r.order = TORDER_STATUS
  <2>1. SettingsStage(e, rest, sh, TORDER_STATUS, SendStatus(l)) /\ SettingsOK(TORDER_STATUS, SendStatus(l))
    BY <1>3, StageOf, StatusOK
  <2>2. Fits(e, rest) /\ SettingsStage(e2, rest2, sh2, TORDER_STATUS, SendStatus(l))
    BY <2>1, SettingsRead
  <2>. QED
    BY <1>3, <2>2, StageOf
<1>4. CASE r.order = TORDER_DISTANCE_BETWEEN_CID
  <2>1. DistanceStage(e, rest, sh, l, r.args)
    BY <1>4, StageOf
  <2>2. /\ Fits(e, rest)
        /\ \/ Head(e).kind = "error" /\ Head(rest).v \in {-1, -2}
           \/ DistanceStage(e2, rest2, sh2, l, r.args)
    BY <2>1, DistanceRead
  <2>. QED
    BY <1>4, <2>2, StageOf
<1>5. CASE r.order \notin Answered
  BY <1>5, StageOf
<1>. QED
  BY <1>1, <1>2, <1>3, <1>4, <1>5 DEF Answered

\* An entry is stored or printed.
LEMMA StageSilent ==
    ASSUME ENABLE_VHOST, NEW e, NEW rest, NEW sh, NEW c, NEW n, NEW r, NEW l, EntryLists(l),
           Stage(e, rest, sh, c, n, r, l), e # <<>>
    PROVE  /\ Head(e).kind = "store" => Stage(Tail(e), rest, sh, c, c, r, l)
           /\ Head(e).kind \in {"S", "C"} =>
                Stage(Tail(e), rest, Append(sh, Field(Head(e).kind, n)), c, n, r, l)
<1>1. CASE r.order = TORDER_LIST
  <2>1. ListStage(e, rest, sh, c, n, l)
    BY <1>1, StageOf
  <2>2. /\ Head(e).kind = "store" => ListStage(Tail(e), rest, sh, c, c, l)
        /\ Head(e).kind \in {"S", "C"} =>
                ListStage(Tail(e), rest, Append(sh, Field(Head(e).kind, n)), c, n, l)
    BY <2>1, ListSilent
  <2>. QED
    BY <1>1, <2>2, StageOf
<1>2. CASE r.order = TORDER_SHOW
  <2>1. SettingsStage(e, rest, sh, TORDER_SHOW, SendShow(l)) /\ SettingsOK(TORDER_SHOW, SendShow(l))
    BY <1>2, StageOf, ShowOK
  <2>2. Head(e).kind \in Printed
    BY <2>1, SettingsRead
  <2>. QED
    BY <2>2 DEF Printed, OfAnswer
<1>3. CASE r.order = TORDER_STATUS
  <2>1. SettingsStage(e, rest, sh, TORDER_STATUS, SendStatus(l)) /\ SettingsOK(TORDER_STATUS, SendStatus(l))
    BY <1>3, StageOf, StatusOK
  <2>2. Head(e).kind \in Printed
    BY <2>1, SettingsRead
  <2>. QED
    BY <2>2 DEF Printed, OfAnswer
<1>4. CASE r.order = TORDER_DISTANCE_BETWEEN_CID
  <2>1. DistanceStage(e, rest, sh, l, r.args)
    BY <1>4, StageOf
  <2>2. Head(e).kind \in {"error", "distance"}
    BY <2>1, DistanceRead
  <2>. QED
    BY <2>2
<1>5. CASE r.order \notin Answered
  BY <1>5, StageOf
<1>. QED
  BY <1>1, <1>2, <1>3, <1>4, <1>5 DEF Answered

\* What has been printed.
LEMMA StageShown ==
    ASSUME ENABLE_VHOST, NEW e, NEW rest, NEW sh, NEW c, NEW n, NEW r, NEW l, EntryLists(l),
           Stage(e, rest, sh, c, n, r, l)
    PROVE  Begins(sh, TruthOf(r, l)) /\ (e = <<>> => sh = TruthOf(r, l))
<1>1. CASE r.order = TORDER_LIST
  <2>1. ListStage(e, rest, sh, c, n, l)
    BY <1>1, StageOf
  <2>2. TruthOf(r, l) = Lines(l.spies, "S") \o Lines(l.clients, "C")
    BY <1>1, OrdersDiffer DEF TruthOf
  <2>3. /\ Begins(sh, Lines(l.spies, "S") \o Lines(l.clients, "C"))
        /\ e = <<>> => sh = Lines(l.spies, "S") \o Lines(l.clients, "C")
    BY <2>1, ListShown
  <2>. QED
    BY <2>2, <2>3
<1>2. CASE r.order = TORDER_SHOW
  <2>1. SettingsStage(e, rest, sh, TORDER_SHOW, SendShow(l)) /\ SettingsOK(TORDER_SHOW, SendShow(l))
    BY <1>2, StageOf, ShowOK
  <2>2. TruthOf(r, l) = SendShow(l)
    BY <1>2, OrdersDiffer DEF TruthOf
  <2>. QED
    BY <2>1, <2>2, SettingsShown
<1>3. CASE r.order = TORDER_STATUS
  <2>1. SettingsStage(e, rest, sh, TORDER_STATUS, SendStatus(l)) /\ SettingsOK(TORDER_STATUS, SendStatus(l))
    BY <1>3, StageOf, StatusOK
  <2>2. TruthOf(r, l) = SendStatus(l)
    BY <1>3, OrdersDiffer DEF TruthOf
  <2>. QED
    BY <2>1, <2>2, SettingsShown
<1>4. CASE r.order = TORDER_DISTANCE_BETWEEN_CID
  <2>1. DistanceStage(e, rest, sh, l, r.args)
    BY <1>4, StageOf
  <2>2. TruthOf(r, l) = DistanceTruth(l, r.args)
    BY <1>4, OrdersDiffer DEF TruthOf
  <2>. QED
    BY <2>1, <2>2, DistanceShown
<1>5. CASE r.order \notin Answered
  <2>1. sh = <<>>
    BY <1>5, StageOf
  <2>2. TruthOf(r, l) = <<>>
    BY <1>5, OrdersDiffer DEF TruthOf
  <2>3. <<>> \in Seq(AField)
    BY EmptySeq
  <2>. QED
    BY <2>1, <2>2, <2>3, BeginsNone
<1>. QED
  BY <1>1, <1>2, <1>3, <1>4, <1>5 DEF Answered

\* No entry of the lists is disabled.
Whole(l) == Enabled(l.spies) = l.spies /\ Enabled(l.clients) = l.clients

\* The order has been carried out: nothing of the answer has been read.
LEMMA StageStart ==
    ASSUME ENABLE_VHOST, NEW c, NEW n, NEW r, NEW l, EntryLists(l), Whole(l)
    PROVE  /\ Reply(r.order, r.args, l) \in Seq(AField)
           /\ Stage(Expected(r.order), Reply(r.order, r.args, l), <<>>, c, n, r, l)
<1>. DEFINE e == Expected(r.order)
            rest == Reply(r.order, r.args, l)
<1>1. CASE r.order = TORDER_LIST
  <2>1. rest = SendList(l)
    BY <1>1, OrdersDiffer DEF Reply
  <2>2. rest = ListFields(l)
    BY <2>1, SendListIs DEF Whole
  <2>3. e = Items(<<"spies", "clients">>)
    BY <1>1, OrdersDiffer DEF Expected
  <2>4. e = ListItems
    BY <2>3, ItemsOfTwo DEF Kind, ListItems
  <2>5. ListStage(e, rest, <<>>, c, n, l)
    BY <2>2, <2>4 DEF ListStage
  <2>6. rest \in Seq(AField)
    BY <2>2, ListParts DEF Starts
  <2>. QED
    BY <1>1, <2>5, <2>6, StageOf
<1>2. CASE r.order = TORDER_SHOW
  <2>1. rest = SendShow(l)
    BY <1>2, OrdersDiffer DEF Reply
  <2>2. SettingsOK(TORDER_SHOW, SendShow(l)) /\ SendShow(l) \in Seq(AField)
    BY ShowOK DEF SettingsOK
  <2>3. SettingsStage(Expected(TORDER_SHOW), SendShow(l), <<>>, TORDER_SHOW, SendShow(l))
    BY <2>2, SettingsStart
  <2>. QED
    BY <1>2, <2>1, <2>2, <2>3, StageOf
<1>3. CASE r.order = TORDER_STATUS
  <2>1. rest = SendStatus(l)
    BY <1>3, OrdersDiffer DEF Reply
  <2>2. SettingsOK(TORDER_STATUS, SendStatus(l)) /\ SendStatus(l) \in Seq(AField)
    BY StatusOK DEF SettingsOK
  <2>3. SettingsStage(Expected(TORDER_STATUS), SendStatus(l), <<>>, TORDER_STATUS, SendStatus(l))
    BY <2>2, SettingsStart
  <2>. QED
    BY <1>3, <2>1, <2>2, <2>3, StageOf
<1>4. CASE r.order = TORDER_DISTANCE_BETWEEN_CID
  <2>1. rest = SendDistance(l, r.args)
    BY <1>4, OrdersDiffer DEF Reply
  <2>2. e = Items(<<"error", "distance">>)
    BY <1>4, OrdersDiffer DEF Expected
  <2>3. e = DistanceItems
    BY <2>2, ItemsOfTwo DEF Kind, DistanceItems
  <2>4. DistanceStage(e, rest, <<>>, l, r.args)
    BY <2>1, <2>3 DEF DistanceStage
  <2>5. rest \in Seq(AField)
    BY <2>1, DistanceReply DEF Starts
  <2>. QED
    BY <1>4, <2>4, <2>5, StageOf
<1>5. CASE r.order \notin Answered
  <2>1. rest = <<>>
    BY <1>5, OrdersDiffer DEF Reply
  <2>2. e = <<>>
    <3>1. ExpKinds(r.order) = <<>>
      BY <1>5, OrdersDiffer DEF ExpKinds
    <3>2. Len(e) = 0 /\ e \in Seq(AnItem)
      BY <3>1, ExpectedType
    <3>. QED
      BY <3>2, EmptySeq
  <2>3. <<>> \in Seq(AField)
    BY EmptySeq
  <2>. QED
    BY <1>5, <2>1, <2>2, <2>3, StageOf
<1>. QED
  BY <1>1, <1>2, <1>3, <1>4, <1>5 DEF Answered

-----------------------------------------------------------------------------
(***************************************************************************)
(* The answer: what vwifi-ctrl has read and printed                        *)
(***************************************************************************)

\* No read has returned too little, and no entry is disabled.
CleanAt(s, l) == s = MaxShort /\ Whole(l)

\* What vwifi-ctrl is still to read is on its way, or is still to be sent.
Held(s, later, e, sh, c, n, r, l) == \E rest : Carries(s, later, rest) /\ Stage(e, rest, sh, c, n, r, l)

\* How far vwifi-ctrl is with the answer to the last request.
AnswerInv ==
    /\ executed # asked \/ asked = <<>> => shown = <<>>
    /\ cpc = "run" => ctrlEnd = "open"
    /\ spc = "reply" => serverEnd = "open"
    /\ cpc = "run" /\ executed = asked /\ serverEnd = "closed" => replying = <<>>
    /\ CleanAt(short, snapshot) /\ executed = asked /\ asked # <<>> => Begins(shown, TruthOf(cur, snapshot))
    /\ CleanAt(short, snapshot) /\ cpc = "run" /\ executed = asked =>
           Held(toCtrl, replying, expect, shown, cid, info, request, snapshot)

\* AnswerInv holds at the start.
LEMMA InitAnswer == Init => AnswerInv
  BY DEF Init, AnswerInv

\* A step that neither reads nor answers.
LEMMA AnswerKept ==
    ASSUME AnswerInv, UNCHANGED <<shown, short, asked, executed, snapshot>>,
           cpc' = "run" => cpc = "run" /\ UNCHANGED <<ctrlEnd, request, expect, cid, info, toCtrl, replying>>,
           spc' = "reply" => spc = "reply" /\ serverEnd' = serverEnd,
           cpc' = "run" /\ executed = asked /\ serverEnd' = "closed" => serverEnd = "closed" \/ replying = <<>>
    PROVE  AnswerInv'
<1>1. cur' = cur
  BY DEF cur
<1>2. executed' # asked' \/ asked' = <<>> => shown' = <<>>
  BY DEF AnswerInv
<1>3. cpc' = "run" => ctrlEnd' = "open"
  BY DEF AnswerInv
<1>4. spc' = "reply" => serverEnd' = "open"
  BY DEF AnswerInv
<1>5. cpc' = "run" /\ executed' = asked' /\ serverEnd' = "closed" => replying' = <<>>
  BY DEF AnswerInv
<1>6. CleanAt(short', snapshot') /\ executed' = asked' /\ asked' # <<>> => Begins(shown', TruthOf(cur', snapshot'))
  BY <1>1 DEF AnswerInv
<1>7. CleanAt(short', snapshot') /\ cpc' = "run" /\ executed' = asked' =>
           Held(toCtrl', replying', expect', shown', cid', info', request', snapshot')
  BY DEF AnswerInv
<1>. QED
  BY <1>2, <1>3, <1>4, <1>5, <1>6, <1>7 DEF AnswerInv

\* The end of vwifi-ctrl keeps AnswerInv.
LEMMA CtrlExitsAnswer ==
    ASSUME AnswerInv, NEW how \in Ended, CtrlExits(how)
    PROVE  AnswerInv'
<1>1. UNCHANGED <<shown, short, asked, executed, snapshot, spc, serverEnd>> /\ cpc' # "run"
  BY DEF CtrlExits, Ended, server, history
<1>. QED
  BY <1>1, AnswerKept

\* So do the steps of vwifi-ctrl that have nothing to do with the answer.
LEMMA CtrlQuiet ==
    ASSUME AnswerInv, CtrlSends \/ CtrlSendFails \/ CtrlReadFails \/ CtrlDone \/ CtrlStops
    PROVE  AnswerInv'
<1>1. CASE CtrlSends
  <2>1. /\ UNCHANGED <<shown, short, asked, executed, snapshot, spc, serverEnd>>
        /\ UNCHANGED <<cpc, ctrlEnd, request, expect, cid, info, toCtrl, replying>>
    BY <1>1 DEF CtrlSends, server, history
  <2>. QED
    BY <2>1, AnswerKept
<1>2. CASE CtrlSendFails \/ CtrlReadFails
  BY <1>2, CtrlExitsAnswer DEF CtrlSendFails, CtrlReadFails, Ended
<1>3. CASE CtrlDone
  <2>1. UNCHANGED <<shown, short, asked, executed, snapshot, spc, serverEnd>> /\ cpc' # "run"
    BY <1>3 DEF CtrlDone, server, history
  <2>. QED
    BY <2>1, AnswerKept
<1>4. CASE CtrlStops
  <2>1. CASE CtrlExits("Killed")
    BY <2>1, CtrlExitsAnswer DEF Ended
  <2>2. CASE cpc' = "Gone" /\ UNCHANGED <<request, sending, expect, cid, info, shown, server, net, history>>
    <3>1. UNCHANGED <<shown, short, asked, executed, snapshot, spc, serverEnd>> /\ cpc' # "run"
      BY <2>2 DEF server, net, history
    <3>. QED
      BY <3>1, AnswerKept
  <2>. QED
    BY <1>4, <2>1, <2>2 DEF CtrlStops
<1>. QED
  BY <1>1, <1>2, <1>3, <1>4

\* And those of the server; it closes the connection of a waiting vwifi-ctrl
\* only behind the whole answer.
LEMMA ServerQuiet ==
    ASSUME OrderInv, AnswerInv,
           Accept \/ ServerReads \/ ServerReadFails \/ ServerSendFails \/ OrderDone \/ ListsChange \/ UNCHANGED vars
    PROVE  AnswerInv'
<1>1. UNCHANGED <<cpc, shown, short, asked, executed, snapshot, ctrlEnd, request, expect, cid, info, toCtrl, replying>>
  <2>1. CASE Accept \/ ServerReads
    BY <2>1 DEF Accept, ServerReads, ctrl, history
  <2>2. CASE ServerReadFails \/ ServerSendFails \/ OrderDone
    BY <2>2 DEF ServerReadFails, ServerSendFails, OrderDone, CloseClient, ctrl, history
  <2>3. CASE ListsChange \/ UNCHANGED vars
    BY <2>3 DEF ListsChange, vars, ctrl, server, net, history
  <2>. QED
    BY <2>1, <2>2, <2>3
<1>2. spc' = "reply" => spc = "reply" /\ serverEnd' = serverEnd
  <2>1. CASE Accept \/ ServerReads
    BY <2>1 DEF Accept, ServerReads
  <2>2. CASE ServerReadFails \/ ServerSendFails \/ OrderDone
    BY <2>2 DEF ServerReadFails, ServerSendFails, OrderDone, CloseClient
  <2>3. CASE ListsChange \/ UNCHANGED vars
    BY <2>3 DEF ListsChange, vars, server, net
  <2>. QED
    BY <2>1, <2>2, <2>3
<1>3. cpc = "run" /\ executed = asked /\ serverEnd' = "closed" => serverEnd = "closed" \/ replying = <<>>
  <2>1. CASE Accept \/ ServerReads
    BY <2>1 DEF Accept, ServerReads
  <2>2. CASE ServerReadFails
    <3>1. spc = "read"
      BY <2>2 DEF ServerReadFails
    <3>2. Unserved /\ SessionTypeOK
      BY <3>1 DEF OrderInv
    <3>3. executed # asked
      <4>1. cur \in Request /\ executed \in Seq(Request)
        BY <3>2, CurType DEF Unserved, SessionTypeOK
      <4>2. Len(Append(executed, cur)) = Len(executed) + 1 /\ Len(executed) \in Nat
        BY <4>1, AppendProperties, LenProperties
      <4>. QED
        BY <3>2, <4>2 DEF Unserved
    <3>. QED
      BY <3>3
  <2>3. CASE ServerSendFails
    BY <2>3 DEF ServerSendFails, AnswerInv
  <2>4. CASE OrderDone
    BY <2>4 DEF OrderDone
  <2>5. CASE ListsChange \/ UNCHANGED vars
    BY <2>5 DEF ListsChange, vars, net
  <2>. QED
    BY <2>1, <2>2, <2>3, <2>4, <2>5
<1>. QED
  BY <1>1, <1>2, <1>3, AnswerKept

\* Connect keeps it: nothing has been printed for the new request.
LEMMA ConnectAnswer ==
    ASSUME OrderInv, AnswerInv, Connect
    PROVE  AnswerInv'
<1>1. executed' = executed /\ asked' = Append(asked, request) /\ executed = asked
  BY DEF Connect, OrderInv
<1>2. asked \in Seq(Request) /\ request \in Request
  BY DEF OrderInv, SessionTypeOK
<1>3. Len(Append(asked, request)) = Len(asked) + 1 /\ Len(asked) \in Nat
  BY <1>2, AppendProperties, LenProperties
<1>4. executed' # asked'
  BY <1>1, <1>3
<1>5. shown' = <<>> /\ ctrlEnd' = "open" /\ spc' # "reply"
  BY DEF Connect, server
<1>. QED
  BY <1>4, <1>5 DEF AnswerInv

\* The lists of the server are made of entries.
LEMMA SnapshotLists ==
    ASSUME NEW l \in Lists
    PROVE  EntryLists(l)
  BY CtrlAssumption DEF EntryLists

\* A step of vwifi-ctrl with the answer, which goes on or ends it.
LEMMA AnswerGoesOn ==
    ASSUME ENABLE_VHOST, OrderInv, AnswerInv, cpc = "run", executed = asked,
           UNCHANGED <<request, spc, replying, serverEnd, asked, executed, snapshot>>,
           cpc' = "run" => ctrlEnd' = "open",
           CleanAt(short', snapshot) =>
                \/ cpc' # "run" /\ shown' = shown /\ CleanAt(short, snapshot)
                \/ Held(toCtrl', replying, expect', shown', cid', info', request, snapshot)
    PROVE  AnswerInv'
<1>1. cur' = cur /\ cur = request /\ asked # <<>> /\ snapshot \in Lists
  BY DEF cur, OrderInv, SessionTypeOK
<1>2. EntryLists(snapshot)
  BY <1>1, SnapshotLists
<1>3. spc' = "reply" => serverEnd' = "open"
  BY DEF AnswerInv
<1>4. cpc' = "run" /\ executed' = asked' /\ serverEnd' = "closed" => replying' = <<>>
  BY DEF AnswerInv
<1>5. ASSUME CleanAt(short', snapshot)
      PROVE  Begins(shown', TruthOf(request, snapshot))
  <2>1. CASE shown' = shown /\ CleanAt(short, snapshot)
    BY <1>1, <2>1 DEF AnswerInv
  <2>2. CASE Held(toCtrl', replying, expect', shown', cid', info', request, snapshot)
    <3>1. PICK rest : Stage(expect', rest, shown', cid', info', request, snapshot)
      BY <2>2 DEF Held
    <3>. QED
      BY <1>2, <3>1, StageShown
  <2>. QED
    BY <1>5, <2>1, <2>2
<1>6. CleanAt(short', snapshot') /\ executed' = asked' /\ asked' # <<>> => Begins(shown', TruthOf(cur', snapshot'))
  BY <1>1, <1>5
<1>7. CleanAt(short', snapshot') /\ cpc' = "run" /\ executed' = asked' =>
           Held(toCtrl', replying', expect', shown', cid', info', request', snapshot')
  OBVIOUS
<1>8. ~(executed' # asked' \/ asked' = <<>>)
  BY <1>1
<1>. QED
  BY <1>3, <1>4, <1>6, <1>7, <1>8 DEF AnswerInv

\* The value v of the next field is read.
CtrlTakes(rest, v) ==
    /\ v = Head(rest).v
    /\ Carries(toCtrl', replying, Tail(rest))
    /\ cid' = CidOf(expect, v, cid) /\ shown' = ShownOf(expect, v, shown)
    /\ IF Head(expect).kind = "error" /\ v \in {-1, -2}
       THEN expect' = <<>> /\ cpc' = "Exit1" /\ ctrlEnd' = "closed"
       ELSE expect' = After(v) /\ UNCHANGED <<cpc, ctrlEnd>>

\* What CSocketClient::Read returns when the recv() is not short and asks for
\* the width of the next field.
LEMMA CtrlTakesField ==
    ASSUME CtrlReads, short = MaxShort, short' = MaxShort,
           NEW rest, Carries(toCtrl, replying, rest), Fits(expect, rest)
    PROVE  CtrlTakes(rest, Head(rest).v)
<1>0. MaxShort \in Nat
  BY CtrlAssumption
<1>1. toCtrl # <<>>
  BY DEF CtrlReads
<1>2. Head(rest) \in AField
  BY <1>1, CarriesRead
<1>3. Head(expect).size \in Nat /\ Width(Head(rest)) = Head(expect).size
  BY <1>2, FieldBytes DEF Fits
<1>4. ReadsField(toCtrl, replying, rest, Most(toCtrl, Head(expect).size))
  BY <1>1, <1>3, RecvField
<1>. DEFINE most == Most(toCtrl, Head(expect).size)
<1>5. PICK n \in IF short > 0 THEN 1..most ELSE {most} :
        \E v \in Values(SubSeq(toCtrl, 1, n)) :
            /\ toCtrl' = SubSeq(toCtrl, n + 1, Len(toCtrl))
            /\ short' = IF n < most THEN short - 1 ELSE short
            /\ cid' = CidOf(expect, v, cid)
            /\ shown' = ShownOf(expect, v, shown)
            /\ IF Head(expect).kind = "error" /\ v \in {-1, -2}
               THEN expect' = <<>> /\ cpc' = "Exit1" /\ ctrlEnd' = "closed"
               ELSE expect' = After(v) /\ UNCHANGED <<cpc, ctrlEnd>>
  BY DEF CtrlReads, Most, CidOf, ShownOf
<1>6. PICK v \in Values(SubSeq(toCtrl, 1, n)) :
            /\ toCtrl' = SubSeq(toCtrl, n + 1, Len(toCtrl))
            /\ short' = IF n < most THEN short - 1 ELSE short
            /\ cid' = CidOf(expect, v, cid)
            /\ shown' = ShownOf(expect, v, shown)
            /\ IF Head(expect).kind = "error" /\ v \in {-1, -2}
               THEN expect' = <<>> /\ cpc' = "Exit1" /\ ctrlEnd' = "closed"
               ELSE expect' = After(v) /\ UNCHANGED <<cpc, ctrlEnd>>
  BY <1>5
<1>. HIDE DEF most
<1>7. n = most
  <2>1. ~(n < most)
    BY <1>0, <1>6
  <2>2. most \in Nat
    BY <1>4 DEF ReadsField, most
  <2>3. n = most \/ n \in 1..most
    BY <1>5
  <2>. QED
    BY <2>1, <2>2, <2>3
<1>8. v = Head(rest).v /\ Carries(toCtrl', replying, Tail(rest))
  BY <1>4, <1>6, <1>7 DEF ReadsField, most
<1>. QED
  BY <1>6, <1>8 DEF CtrlTakes

\* No name is too long: After never skips the rest of an entry.
LEMMA AfterIs ==
    ASSUME NEW rest, Fits(expect, rest)
    PROVE  After(Head(rest).v) = AfterOf(expect, Head(rest).v)
<1>1. Head(expect).kind = "size" => ~(Head(rest).v > MAX_SIZE_NAME)
  BY CtrlAssumption DEF Fits
<1>. QED
  BY <1>1 DEF After, AfterOf

\* CtrlReads keeps AnswerInv.
LEMMA ReadsAnswer ==
    ASSUME ENABLE_VHOST, OrderInv, AnswerInv, CtrlReads
    PROVE  AnswerInv'
<1>1. cpc = "run" /\ executed = asked /\ expect # <<>> /\ Head(expect).kind \in InEntry \cup OfAnswer
  BY DEF CtrlReads, Reads, OrderInv
<1>2. UNCHANGED <<request, info, spc, replying, serverEnd, asked, executed, snapshot>>
  BY DEF CtrlReads, server, history
<1>3. cpc' = "run" => ctrlEnd' = "open"
  BY <1>1 DEF CtrlReads, AnswerInv
<1>4. Head(expect).kind \notin Silent
  BY <1>1 DEF Silent, InEntry, OfAnswer
<1>5. ASSUME CleanAt(short', snapshot)
      PROVE  \/ cpc' # "run" /\ shown' = shown /\ CleanAt(short, snapshot)
             \/ Held(toCtrl', replying, expect', shown', cid', info', request, snapshot)
  <2>1. short = MaxShort /\ short' = MaxShort
    <3>1. short \in 0..MaxShort /\ MaxShort \in Nat /\ short' = MaxShort
      BY <1>5, CtrlAssumption DEF OrderInv, SessionTypeOK, CleanAt
    <3>2. short' = short - 1 \/ short' = short
      BY DEF CtrlReads
    <3>. QED
      BY <3>1, <3>2
  <2>2. CleanAt(short, snapshot)
    BY <1>5, <2>1 DEF CleanAt
  <2>3. PICK rest : Carries(toCtrl, replying, rest) /\ Stage(expect, rest, shown, cid, info, request, snapshot)
    BY <1>1, <2>2 DEF AnswerInv, Held
  <2>4. EntryLists(snapshot)
    BY SnapshotLists DEF OrderInv, SessionTypeOK
  <2>5. PICK v : v = Head(rest).v
    OBVIOUS
  <2>6. /\ Fits(expect, rest)
        /\ \/ Head(expect).kind = "error" /\ v \in {-1, -2}
           \/ Stage(AfterOf(expect, v), Tail(rest), ShownOf(expect, v, shown), CidOf(expect, v, cid), info,
                    request, snapshot)
    BY <1>1, <1>4, <2>3, <2>4, <2>5, StageRead
  <2>7. CtrlTakes(rest, v)
    BY <2>1, <2>3, <2>5, <2>6, CtrlTakesField
  <2>8. CASE Head(expect).kind = "error" /\ v \in {-1, -2}
    <3>1. cpc' = "Exit1" /\ shown' = ShownOf(expect, v, shown)
      BY <2>7, <2>8 DEF CtrlTakes
    <3>2. ShownOf(expect, v, shown) = shown
      BY <2>8, NotPrinted
    <3>. QED
      BY <2>2, <3>1, <3>2
  <2>9. CASE ~(Head(expect).kind = "error" /\ v \in {-1, -2})
    <3>1. /\ expect' = After(v) /\ Carries(toCtrl', replying, Tail(rest))
          /\ cid' = CidOf(expect, v, cid) /\ shown' = ShownOf(expect, v, shown)
      BY <2>7, <2>9 DEF CtrlTakes
    <3>2. After(v) = AfterOf(expect, v)
      BY <2>5, <2>6, AfterIs
    <3>3. Stage(expect', Tail(rest), shown', cid', info', request, snapshot)
      BY <1>2, <2>6, <2>9, <3>1, <3>2
    <3>. QED
      BY <3>1, <3>3 DEF Held
  <2>. QED
    BY <2>8, <2>9
<1>. QED
  BY <1>1, <1>2, <1>3, <1>5, AnswerGoesOn

\* The steps inside an entry keep it; the connection never ends there.
LEMMA EntryAnswer ==
    ASSUME ENABLE_VHOST, OrderInv, AnswerInv, CtrlReadFailsInEntry \/ CtrlStores \/ CtrlPrints
    PROVE  AnswerInv'
<1>1. cpc = "run" /\ expect # <<>> /\ Head(expect).kind \notin {"spies", "loss", "error"}
  BY DEF CtrlReadFailsInEntry, CtrlStores, CtrlPrints, Reads, InEntry
<1>2. executed = asked
  BY <1>1, NotServedHead
<1>3. UNCHANGED <<cpc, ctrlEnd, request, cid, short, toCtrl, spc, replying, serverEnd, asked, executed, snapshot>>
  BY DEF CtrlReadFailsInEntry, CtrlStores, CtrlPrints, net, server, history
<1>4. ASSUME CleanAt(short', snapshot)
      PROVE  Held(toCtrl', replying, expect', shown', cid', info', request, snapshot)
  <2>1. PICK rest : Carries(toCtrl, replying, rest) /\ Stage(expect, rest, shown, cid, info, request, snapshot)
    BY <1>1, <1>2, <1>3, <1>4 DEF AnswerInv, Held
  <2>2. EntryLists(snapshot)
    BY SnapshotLists DEF OrderInv, SessionTypeOK
  <2>3. CASE CtrlReadFailsInEntry
    <3>1. toCtrl = <<>> /\ serverEnd = "closed" /\ Head(expect).kind \in InEntry
      BY <2>3 DEF CtrlReadFailsInEntry, Reads
    <3>2. replying = <<>>
      BY <1>1, <1>2, <3>1 DEF AnswerInv
    <3>3. rest = <<>>
      BY <2>1, <3>1, <3>2, CarriesNone
    <3>4. Head(expect).kind \notin Silent
      BY <3>1 DEF InEntry, Silent
    <3>5. Fits(expect, rest)
      BY <1>1, <2>1, <2>2, <3>4, StageRead
    <3>. QED
      BY <3>3, <3>5 DEF Fits
  <2>4. CASE CtrlStores
    <3>1. Head(expect).kind = "store" /\ expect' = Tail(expect) /\ info' = cid /\ shown' = shown
      BY <2>4 DEF CtrlStores, Reads
    <3>2. Stage(Tail(expect), rest, shown, cid, cid, request, snapshot)
      BY <1>1, <2>1, <2>2, <3>1, StageSilent
    <3>. QED
      BY <1>3, <2>1, <3>1, <3>2 DEF Held
  <2>5. CASE CtrlPrints
    <3>1. /\ Head(expect).kind \in {"S", "C"} /\ expect' = Tail(expect) /\ info' = info
          /\ shown' = Append(shown, Field(Head(expect).kind, info))
      BY <2>5 DEF CtrlPrints, Reads
    <3>2. Stage(Tail(expect), rest, Append(shown, Field(Head(expect).kind, info)), cid, info, request, snapshot)
      BY <1>1, <2>1, <2>2, <3>1, StageSilent
    <3>. QED
      BY <1>3, <2>1, <3>1, <3>2 DEF Held
  <2>. QED
    BY <2>3, <2>4, <2>5
<1>5. cpc' = "run" => ctrlEnd' = "open"
  BY <1>3 DEF AnswerInv
<1>. QED
  BY <1>1, <1>2, <1>3, <1>4, <1>5, AnswerGoesOn

\* Execute keeps it: the answer is the one to the last request, and nothing
\* of it has been read.
LEMMA ExecuteAnswer ==
    ASSUME ENABLE_VHOST, OrderInv, AnswerInv, Execute
    PROVE  AnswerInv'
<1>1. executed' = asked /\ cur \in Request /\ order = cur.order /\ args = cur.args /\ executed # asked
  BY ExecuteRequest
<1>2. UNCHANGED <<cpc, request, expect, cid, info, shown, ctrlEnd, serverEnd, toCtrl, short, asked>>
  BY DEF Execute, ctrl, net
<1>3. snapshot' = lists /\ replying' = Reply(cur.order, cur.args, lists) /\ spc = "read"
  BY <1>1 DEF Execute
<1>4. serverEnd = "open" /\ toCtrl = <<>> /\ shown = <<>> /\ lists \in Lists
  BY <1>1, <1>3 DEF OrderInv, SessionTypeOK, AnswerInv
<1>5. cpc = "run" => request = cur /\ expect = Expected(cur.order)
  BY <1>1 DEF OrderInv
<1>6. EntryLists(lists)
  BY <1>4, SnapshotLists
<1>7. ASSUME Whole(lists)
      PROVE  /\ Carries(<<>>, replying', replying')
             /\ Stage(Expected(cur.order), replying', <<>>, cid, info, cur, lists)
             /\ Begins(<<>>, TruthOf(cur, lists))
  <2>1. /\ Reply(cur.order, cur.args, lists) \in Seq(AField)
        /\ Stage(Expected(cur.order), Reply(cur.order, cur.args, lists), <<>>, cid, info, cur, lists)
    BY <1>6, <1>7, StageStart
  <2>2. Begins(<<>>, TruthOf(cur, lists))
    BY <1>6, <2>1, StageShown
  <2>. QED
    BY <1>3, <2>1, <2>2, CarriesAll
<1>8. cur' = cur
  BY <1>2 DEF cur
<1>9. CleanAt(short', snapshot') /\ executed' = asked' /\ asked' # <<>> => Begins(shown', TruthOf(cur', snapshot'))
  BY <1>2, <1>3, <1>4, <1>7, <1>8 DEF CleanAt
<1>10. CleanAt(short', snapshot') /\ cpc' = "run" /\ executed' = asked' =>
           Held(toCtrl', replying', expect', shown', cid', info', request', snapshot')
  <2>1. ASSUME CleanAt(short', snapshot'), cpc' = "run"
        PROVE  Held(toCtrl', replying', expect', shown', cid', info', request', snapshot')
    <3>1. Whole(lists) /\ request = cur /\ expect = Expected(cur.order)
      BY <1>2, <1>3, <1>5, <2>1 DEF CleanAt
    <3>2. Carries(toCtrl', replying', replying')
          /\ Stage(expect', replying', shown', cid', info', request', snapshot')
      BY <1>2, <1>3, <1>4, <1>7, <3>1
    <3>. QED
      BY <3>2 DEF Held
  <2>. QED
    BY <2>1
<1>11. asked # <<>>
  BY <1>3 DEF OrderInv, Unserved
<1>12. cpc' = "run" => ctrlEnd' = "open"
  BY <1>2 DEF AnswerInv
<1>. QED
  BY <1>1, <1>2, <1>4, <1>9, <1>10, <1>11, <1>12 DEF AnswerInv

\* ServerSends keeps it: a field moves to the connection.
LEMMA ServerSendsAnswer ==
    ASSUME OrderInv, AnswerInv, ServerSends
    PROVE  AnswerInv'
<1>1. UNCHANGED <<cpc, request, expect, cid, info, shown, spc, ctrlEnd, serverEnd, short, asked, executed, snapshot>>
  BY DEF ServerSends, ctrl, history
<1>2. /\ spc = "reply" /\ replying # <<>> /\ toCtrl' = toCtrl \o Bytes(Head(replying)) /\ replying' = Tail(replying)
  BY DEF ServerSends
<1>3. serverEnd = "open" /\ cur' = cur
  BY <1>1, <1>2 DEF AnswerInv, cur
<1>4. ASSUME CleanAt(short, snapshot), cpc = "run", executed = asked
      PROVE  Held(toCtrl', replying', expect, shown, cid, info, request, snapshot)
  <2>1. PICK rest : Carries(toCtrl, replying, rest) /\ Stage(expect, rest, shown, cid, info, request, snapshot)
    BY <1>4 DEF AnswerInv, Held
  <2>2. Carries(toCtrl', replying', rest)
    BY <1>2, <2>1, CarriesSend
  <2>. QED
    BY <2>1, <2>2 DEF Held
<1>5. CleanAt(short', snapshot') /\ executed' = asked' /\ asked' # <<>> => Begins(shown', TruthOf(cur', snapshot'))
  BY <1>1, <1>3 DEF AnswerInv
<1>6. CleanAt(short', snapshot') /\ cpc' = "run" /\ executed' = asked' =>
           Held(toCtrl', replying', expect', shown', cid', info', request', snapshot')
  BY <1>1, <1>4
<1>7. executed' # asked' \/ asked' = <<>> => shown' = <<>>
  BY <1>1 DEF AnswerInv
<1>8. cpc' = "run" => ctrlEnd' = "open"
  BY <1>1 DEF AnswerInv
<1>. QED
  BY <1>1, <1>3, <1>5, <1>6, <1>7, <1>8 DEF AnswerInv

\* Every step keeps AnswerInv.
LEMMA NextAnswer ==
    ASSUME ENABLE_VHOST, OrderInv, AnswerInv, [Next]_vars
    PROVE  AnswerInv'
<1>1. CASE CtrlStep
  BY <1>1, ConnectAnswer, CtrlQuiet, ReadsAnswer, EntryAnswer DEF CtrlStep
<1>2. CASE CtrlStops
  BY <1>2, CtrlQuiet
<1>3. CASE ServerStep
  BY <1>3, ServerQuiet, ExecuteAnswer, ServerSendsAnswer DEF ServerStep
<1>4. CASE ServerWaits \/ ListsChange \/ ConnectRefused \/ Over \/ UNCHANGED vars
  BY <1>4, ServerQuiet DEF ServerWaits, ConnectRefused, Over
<1>. QED
  BY <1>1, <1>2, <1>3, <1>4 DEF Next

\* What is to be printed is the truth.
LEMMA TruthIs ==
    ASSUME SessionTypeOK, executed = asked, asked # <<>>, CleanAt(short, snapshot)
    PROVE  Truth = TruthOf(cur, snapshot)
<1>0. asked \in Seq(Request) /\ Len(asked) \in Nat
  BY DEF SessionTypeOK
<1>1. ~(Len(executed) < Len(asked) \/ executed = <<>>)
  BY <1>0
<1>2. executed[Len(executed)] = cur
  BY DEF cur
<1>3. Enabled(snapshot.spies) = snapshot.spies /\ Enabled(snapshot.clients) = snapshot.clients
  BY DEF CleanAt, Whole
<1>4. CASE cur.order = TORDER_LIST
  <2>1. Truth = Lines(snapshot.spies, "S") \o Lines(snapshot.clients, "C")
    <3>1. Truth = Lines(Enabled(snapshot.spies), "S") \o Lines(Enabled(snapshot.clients), "C")
      BY <1>1, <1>2, <1>4, OrdersDiffer DEF Truth, Lines
    <3>. QED
      BY <1>3, <3>1, Zenon
  <2>2. TruthOf(cur, snapshot) = Lines(snapshot.spies, "S") \o Lines(snapshot.clients, "C")
    BY <1>4, OrdersDiffer DEF TruthOf
  <2>. QED
    BY <2>1, <2>2
<1>5. CASE cur.order = TORDER_SHOW
  BY <1>1, <1>2, <1>5, OrdersDiffer DEF Truth, TruthOf
<1>6. CASE cur.order = TORDER_STATUS
  BY <1>1, <1>2, <1>6, OrdersDiffer DEF Truth, TruthOf
<1>7. CASE cur.order = TORDER_DISTANCE_BETWEEN_CID
  <2>1. TruthOf(cur, snapshot) = DistanceTruth(snapshot, cur.args)
    BY <1>7, OrdersDiffer DEF TruthOf
  <2>2. Truth = DistanceTruth(snapshot, cur.args)
    BY <1>1, <1>2, <1>7, OrdersDiffer DEF Truth, DistanceTruth, BothKnown, Far
  <2>. QED
    BY <2>1, <2>2
<1>8. CASE cur.order \notin Answered
  BY <1>1, <1>2, <1>8, OrdersDiffer DEF Truth, TruthOf
<1>. QED
  BY <1>4, <1>5, <1>6, <1>7, <1>8 DEF Answered

\* What vwifi-ctrl prints is true, line by line, and complete when it ends an
\* order without an error (AnswerIsTrue), for lists of any length and names of
\* any size: the recv() calls of AskList, AskStatus, AskShow and AskDistance
\* ask for the fields that SendList, SendStatus, SendShow and SendDistance
\* send.  ENABLE_VHOST is needed: a server without vsock leaves out a field of
\* the status that AskStatus reads.
THEOREM AnswersAreTrue ==
    ASSUME ENABLE_VHOST
    PROVE  Spec => []AnswerIsTrue
<1>1. Init => AnswerInv
  BY InitAnswer
<1>2. OrderInv /\ AnswerInv /\ [Next]_vars => AnswerInv'
  BY NextAnswer
<1>3. OrderInv /\ AnswerInv => AnswerIsTrue
  <2>. SUFFICES ASSUME OrderInv, AnswerInv, CleanAt(short, snapshot) PROVE AnswerAgrees
    BY DEF AnswerIsTrue, CleanAt, Whole
  <2>0. SessionTypeOK /\ EntryLists(snapshot) /\ asked \in Seq(Request) /\ executed \in Seq(Request)
    BY SnapshotLists DEF OrderInv, SessionTypeOK
  <2>e. <<>> \in Seq(AField)
    BY EmptySeq
  <2>1. CASE executed = asked /\ asked # <<>>
    <3>1. Truth = TruthOf(cur, snapshot) /\ Begins(shown, TruthOf(cur, snapshot))
      BY <2>0, <2>1, TruthIs DEF AnswerInv
    <3>2. IsPrefix(shown, Truth)
      BY <3>1, BeginsPrefix
    <3>3. ASSUME cpc = "run", expect = <<>> PROVE shown = Truth
      <4>1. request = cur
        BY <3>3 DEF OrderInv
      <4>2. PICK rest : Stage(expect, rest, shown, cid, info, cur, snapshot)
        BY <2>1, <3>3, <4>1 DEF AnswerInv, Held
      <4>3. shown = TruthOf(cur, snapshot)
        BY <2>0, <3>3, <4>2, StageShown
      <4>. QED
        BY <3>1, <4>3
    <3>. QED
      BY <3>2, <3>3 DEF AnswerAgrees
  <2>2. CASE executed # asked \/ asked = <<>>
    <3>1. shown = <<>>
      BY <2>2 DEF AnswerInv
    <3>2. Truth = <<>>
      <4>1. Len(executed) < Len(asked) \/ executed = <<>>
        <5>1. CASE executed = asked
          BY <2>2, <5>1
        <5>2. CASE executed # asked
          <6>1. Unserved
            BY <5>2 DEF OrderInv
          <6>2. cur \in Request
            BY <2>0, <6>1, CurType DEF Unserved
          <6>3. Len(Append(executed, cur)) = Len(executed) + 1 /\ Len(executed) \in Nat
            BY <2>0, <6>2, AppendProperties, LenProperties
          <6>. QED
            BY <6>1, <6>3 DEF Unserved
        <5>. QED
          BY <5>1, <5>2
      <4>. QED
        BY <4>1 DEF Truth
    <3>3. IsPrefix(<<>>, <<>>)
      BY <2>e, BeginsNone, BeginsPrefix
    <3>. QED
      BY <3>1, <3>2, <3>3 DEF AnswerAgrees
  <2>. QED
    BY <2>1, <2>2
<1>. QED
  BY <1>1, <1>2, <1>3, SessionInvariant, PTL DEF Spec

=============================================================================
