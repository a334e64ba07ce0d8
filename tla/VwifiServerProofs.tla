------------------------- MODULE VwifiServerProofs -------------------------
(***************************************************************************)
(* The invariants of the server's main loop, for every set of guests,      *)
(* every number of descriptors and every length of the queues.             *)
(***************************************************************************)
EXTENDS VwifiServer, SequenceTheorems, WellFoundedInduction, TLAPS

-----------------------------------------------------------------------------
(***************************************************************************)
(* What the operators of CSelect and CWifiServer return                    *)
(***************************************************************************)

\* Min of a set of naturals is its least element (used by FirstOf).
LEMMA MinOfNats ==
    ASSUME NEW I \in SUBSET Nat, I # {}
    PROVE  Min(I) \in I /\ \A j \in I : Min(I) <= j
<1>. DEFINE R == {ss \in Nat \X Nat : ss[1] < ss[2]}
<1>0. IsWellFoundedOn(R, Nat)
  BY NatLessThanWellFounded, Zenon DEF OpToRel
<1>1. PICK m \in I : \A j \in I : ~(<<j, m>> \in R)
  BY <1>0, WFMin, Zenon
<1>2. ASSUME NEW j \in I PROVE m =< j
  <2>1. SUFFICES ASSUME j < m PROVE FALSE
    OBVIOUS
  <2>2. <<j, m>> \in R
    BY <2>1
  <2>. QED
    BY <1>1, <2>2, Zenon
<1>. QED
  BY <1>2, Zenon DEF Min

\* Max of a set of descriptors is its greatest element (used by MaxOver).
LEMMA MaxOfFds ==
    ASSUME NEW N \in Nat, NEW F \in SUBSET (0..N), F # {}
    PROVE  Max(F) \in F /\ \A g \in F : g <= Max(F)
<1>. DEFINE U == {n \in Nat : \A g \in F : g <= n}
<1>1. Min(U) \in U /\ \A n \in U : Min(U) <= n
  <2>1. N \in U
    OBVIOUS
  <2>. QED
    BY <2>1, MinOfNats
<1>2. Min(U) \in F
  <2>1. SUFFICES ASSUME Min(U) \notin F PROVE FALSE
    OBVIOUS
  <2>2. Min(U) # 0
    <3>1. PICK g \in F : TRUE
      OBVIOUS
    <3>2. g <= Min(U) /\ g \in Nat
      BY <1>1
    <3>. QED
      BY <2>1, <3>2
  <2>3. Min(U) - 1 \in U
    BY <1>1, <2>1, <2>2
  <2>. QED
    BY <1>1, <2>3
<1>3. \A g \in F : Min(U) >= g
  BY <1>1
<1>. QED
  BY <1>2, <1>3 DEF Max

\* vector::erase shifts the entries behind the erased one by one.
LEMMA RemoveAtProperties ==
    ASSUME NEW S, NEW seq \in Seq(S), NEW k \in 1..Len(seq)
    PROVE  /\ RemoveAt(seq, k) \in Seq(S)
           /\ Len(RemoveAt(seq, k)) = Len(seq) - 1
           /\ \A j \in 1..(Len(seq) - 1) :
                 RemoveAt(seq, k)[j] = IF j < k THEN seq[j] ELSE seq[j + 1]
<1>. DEFINE a == SubSeq(seq, 1, k - 1)
            b == SubSeq(seq, k + 1, Len(seq))
<1>0. Len(seq) \in Nat /\ \A j \in 1..Len(seq) : seq[j] \in S
  BY LenProperties
<1>1. /\ a \in Seq(S) /\ Len(a) = k - 1
      /\ \A i \in 1..(k-1) : a[i] = seq[i]
  <2>1. \A i \in 1..(k-1) : seq[i] \in S
    BY <1>0
  <2>. QED
    BY <2>1, SubSeqProperties, <1>0
<1>2. /\ b \in Seq(S) /\ Len(b) = Len(seq) - k
      /\ \A i \in 1..(Len(seq)-k) : b[i] = seq[k + i]
  <2>1. \A i \in (k+1)..Len(seq) : seq[i] \in S
    BY <1>0
  <2>. QED
    BY <2>1, SubSeqProperties, <1>0
<1>3. /\ a \o b \in Seq(S) /\ Len(a \o b) = Len(a) + Len(b)
      /\ \A i \in 1..(Len(a) + Len(b)) : (a \o b)[i] = IF i <= Len(a) THEN a[i] ELSE b[i - Len(a)]
  BY <1>1, <1>2, ConcatProperties
<1>4. RemoveAt(seq, k) = a \o b
  BY DEF RemoveAt
<1>. HIDE DEF a, b
<1>5. Len(a) + Len(b) = Len(seq) - 1
  BY <1>0, <1>1, <1>2
<1>6. ASSUME NEW j \in 1..(Len(seq) - 1)
      PROVE  (a \o b)[j] = IF j < k THEN seq[j] ELSE seq[j + 1]
  <2>1. (a \o b)[j] = IF j <= k - 1 THEN a[j] ELSE b[j - (k - 1)]
    BY <1>0, <1>1, <1>3, <1>5
  <2>2. CASE j < k
    BY <2>1, <2>2, <1>0, <1>1
  <2>3. CASE ~(j < k)
    <3>1. j - (k - 1) \in 1..(Len(seq) - k)
      BY <2>3, <1>0
    <3>2. PICK i \in 1..(Len(seq) - k) : i = j - (k - 1)
      BY <3>1
    <3>3. b[i] = seq[k + i]
      BY <1>2
    <3>4. k + i = j + 1 /\ ~(j <= k - 1)
      BY <2>3, <3>2, <1>0
    <3>. QED
      BY <2>1, <2>3, <3>2, <3>3, <3>4
  <2>. QED
    BY <2>2, <2>3
<1>. QED
  BY <1>3, <1>4, <1>5, <1>6

-----------------------------------------------------------------------------
\* A search by cid returns 0 when no entry has the cid, and else the index
\* of an entry that has it.
LEMMA IndexByCIDProperties ==
    ASSUME NEW S, NEW ws \in Seq(S), NEW cid
    PROVE  /\ IndexByCID(ws, cid) \in 0..Len(ws)
           /\ IndexByCID(ws, cid) # 0 =>
                 /\ IndexByCID(ws, cid) \in 1..Len(ws)
                 /\ ws[IndexByCID(ws, cid)].cid = cid
           /\ IndexByCID(ws, cid) = 0 => \A k \in 1..Len(ws) : ws[k].cid # cid
<1>. DEFINE I == {k \in 1..Len(ws) : ws[k].cid = cid}
<1>1. Len(ws) \in Nat
  BY LenProperties
<1>2. I \in SUBSET Nat
  BY <1>1
<1>3. I # {} => Min(I) \in I
  <2>. HIDE DEF I
  <2>. QED
    BY <1>2, MinOfNats
<1>. QED
  BY <1>1, <1>3 DEF IndexByCID, FirstOf

\* The same for the search of RecoverInfosOfInfoWifi: the connection it
\* returns is enabled.
LEMMA EnabledIndexProperties ==
    ASSUME NEW S, NEW ws \in Seq(S), NEW ss, NEW cid
    PROVE  /\ EnabledIndexByCID(ss, ws, cid) \in 0..Len(ws)
           /\ EnabledIndexByCID(ss, ws, cid) # 0 =>
                 /\ EnabledIndexByCID(ss, ws, cid) \in 1..Len(ws)
                 /\ ws[EnabledIndexByCID(ss, ws, cid)].cid = cid
                 /\ ss[EnabledIndexByCID(ss, ws, cid)].enable
<1>. DEFINE I == {k \in 1..Len(ws) : ss[k].enable /\ ws[k].cid = cid}
<1>1. Len(ws) \in Nat
  BY LenProperties
<1>2. I \in SUBSET Nat
  BY <1>1
<1>3. I # {} => Min(I) \in I
  <2>. HIDE DEF I
  <2>. QED
    BY <1>2, MinOfNats
<1>. QED
  BY <1>1, <1>3 DEF EnabledIndexByCID, FirstOf

\* Disabling connections changes no descriptor and no index, and enables
\* none.
LEMMA DisableClientsProperties ==
    ASSUME NEW F, NEW ss \in Seq([fd : F, enable : BOOLEAN]), NEW I
    PROVE  /\ DisableClients(ss, I) \in Seq([fd : F, enable : BOOLEAN])
           /\ Len(DisableClients(ss, I)) = Len(ss)
           /\ \A k \in 1..Len(ss) :
                 /\ DisableClients(ss, I)[k].fd = ss[k].fd
                 /\ DisableClients(ss, I)[k].enable => ss[k].enable
<1>1. /\ Len(ss) \in Nat
      /\ \A k \in 1..Len(ss) : ss[k] \in [fd : F, enable : BOOLEAN]
  BY LenProperties
<1>. DEFINE T == [fd : F, enable : BOOLEAN]
            ds == DisableClients(ss, I)
<1>2. ASSUME NEW k \in 1..Len(ss)
      PROVE  ds[k] \in T /\ ds[k].fd = ss[k].fd /\ (ds[k].enable => ss[k].enable)
  <2>1. ds[k] = IF k \in I THEN [ss[k] EXCEPT !.enable = FALSE] ELSE ss[k]
    BY DEF DisableClients
  <2>2. ss[k] \in T
    BY <1>1
  <2>. QED
    BY <2>1, <2>2
<1>3. DOMAIN ds = 1..Len(ss) /\ ds = [k \in 1..Len(ss) |-> ds[k]]
  BY DEF DisableClients
<1>. HIDE DEF ds, T
<1>4. ds \in [1..Len(ss) -> T]
  BY <1>2, <1>3
<1>5. ds \in Seq(T)
  BY <1>1, <1>4, SeqDef
<1>6. Len(ds) = Len(ss)
  <2>1. Len(ds) \in Nat /\ DOMAIN ds = 1..Len(ds)
    BY <1>5, LenProperties
  <2>. QED
    BY <1>1, <1>3, <2>1
<1>. QED
  BY <1>2, <1>5, <1>6 DEF ds, T

\* The list of guests that left stays a list of the same kind of entries.
LEMMA AddInfoWifiDeconnectedType ==
    ASSUME NEW S, NEW ws \in Seq(S), NEW w \in S, NEW max \in Nat \ {0}
    PROVE  AddInfoWifiDeconnected(ws, max, w) \in Seq(S)
<1>1. CASE Len(ws) >= max
  <2>1. 1 \in 1..Len(ws)
    BY <1>1, LenProperties
  <2>2. RemoveAt(ws, 1) \in Seq(S)
    BY <2>1, RemoveAtProperties
  <2>. QED
    BY <1>1, <2>2, AppendProperties DEF AddInfoWifiDeconnected
<1>2. CASE ~(Len(ws) >= max)
  BY <1>2, AppendProperties DEF AddInfoWifiDeconnected
<1>. QED
  BY <1>1, <1>2

\* The same for CloseAllClient, which saves every client.
LEMMA AddAllDeconnectedType ==
    ASSUME NEW S, NEW ws \in Seq(S), NEW us \in Seq(S), NEW max \in Nat \ {0}
    PROVE  AddAllDeconnected(ws, max, us) \in Seq(S)
<1>. DEFINE all == ws \o us
<1>1. all \in Seq(S)
  BY ConcatProperties
<1>. HIDE DEF all
<1>2. /\ Len(all) \in Nat
      /\ \A k \in 1..Len(all) : all[k] \in S
  BY <1>1, LenProperties
<1>3. CASE Len(all) <= max
  BY <1>1, <1>3 DEF AddAllDeconnected, Youngest, all
<1>4. CASE ~(Len(all) <= max)
  <2>1. \A k \in (Len(all) - max + 1)..Len(all) : all[k] \in S
    BY <1>2, <1>4
  <2>2. SubSeq(all, Len(all) - max + 1, Len(all)) \in Seq(S)
    BY <1>2, <2>1, SubSeqProperties
  <2>. QED
    BY <1>4, <2>2 DEF AddAllDeconnected, Youngest, all
<1>. QED
  BY <1>3, <1>4

-----------------------------------------------------------------------------
\* AddNode of a descriptor that is no node yet.
LEMMA AddNodeExact ==
    ASSUME NEW N \in Nat, NEW sel \in SelectType(N), NEW F \in SUBSET (0..N),
           WaitsOn(sel, F), NEW f \in 0..N, f \notin F
    PROVE  AddNode(sel, f) \in SelectType(N) /\ WaitsOn(AddNode(sel, f), F \cup {f})
<1>1. AddNode(sel, f) \in SelectType(N)
  BY DEF AddNode, SelectType, UpdateMaxDescriptor
<1>2. WaitsOn(AddNode(sel, f), F \cup {f})
  BY DEF AddNode, SelectType, UpdateMaxDescriptor, WaitsOn
<1>. QED
  BY <1>1, <1>2

\* A CSelect whose nodes are the set K, each once, and whose maximum was
\* computed from them.
LEMMA ExactFromNodes ==
    ASSUME NEW N \in Nat, NEW K \in SUBSET (0..N), K # {}, NEW ns \in [0..N -> Nat],
           \A g \in 0..N : ns[g] = IF g \in K THEN 1 ELSE 0
    PROVE  LET sel == [nodes |-> ns, Master |-> K, MaxDescriptor |-> MaxOver(K)]
           IN  NodesOf(ns) = K /\ sel \in SelectType(N) /\ WaitsOn(sel, K)
<1>. DEFINE max == MaxOver(K)
            sel == [nodes |-> ns, Master |-> K, MaxDescriptor |-> max]
<1>1. NodesOf(ns) = K
  <2>1. ASSUME NEW g \in 0..N PROVE ns[g] > 0 <=> g \in K
    OBVIOUS
  <2>2. NodesOf(ns) = {g \in 0..N : ns[g] > 0}
    BY DEF NodesOf
  <2>. QED
    BY <2>1, <2>2
<1>2. max \in K /\ \A f \in K : f <= max
  BY MaxOfFds DEF MaxOver
<1>. HIDE DEF max
<1>3. sel \in SelectType(N)
  BY <1>2 DEF SelectType
<1>4. WaitsOn(sel, K)
  BY <1>2 DEF WaitsOn
<1>. QED
  BY <1>1, <1>3, <1>4 DEF max

\* DelNode of every descriptor of a set of nodes, when some node stays.
LEMMA DelNodesExact ==
    ASSUME NEW N \in Nat, NEW sel \in SelectType(N), NEW F \in SUBSET (0..N),
           WaitsOn(sel, F), NEW G \in SUBSET F, F \ G # {}
    PROVE  DelNodes(sel, G) \in SelectType(N) /\ WaitsOn(DelNodes(sel, G), F \ G)
<1>. DEFINE K == F \ G
            rest == [f \in DOMAIN sel.nodes |->
                        IF f \in G /\ sel.nodes[f] > 0 THEN sel.nodes[f] - 1 ELSE sel.nodes[f]]
            new == [nodes |-> rest, Master |-> K, MaxDescriptor |-> MaxOver(K)]
<1>1. /\ rest \in [0..N -> Nat]
      /\ \A f \in 0..N : rest[f] = IF f \in K THEN 1 ELSE 0
  BY DEF SelectType, WaitsOn
<1>2. K \in SUBSET (0..N) /\ K # {}
  OBVIOUS
<1>3. NodesOf(rest) = K /\ new \in SelectType(N) /\ WaitsOn(new, K)
  <2>. HIDE DEF K, rest
  <2>. QED
    BY <1>1, <1>2, ExactFromNodes DEF new
<1>4. NodesOf(sel.nodes) = F
  <2>. DEFINE nodes == sel.nodes
  <2>1. DOMAIN nodes = 0..N /\ \A f \in 0..N : nodes[f] = IF f \in F THEN 1 ELSE 0
    BY DEF SelectType, WaitsOn
  <2>. HIDE DEF nodes
  <2>2. ASSUME NEW f \in 0..N PROVE nodes[f] > 0 <=> f \in F
    <3>1. CASE f \in F
      BY <2>1, <3>1
    <3>2. CASE f \notin F
      BY <2>1, <3>2
    <3>. QED
      BY <3>1, <3>2
  <2>3. NodesOf(nodes) = {f \in 0..N : nodes[f] > 0}
    BY <2>1 DEF NodesOf
  <2>4. {f \in 0..N : nodes[f] > 0} = F
    BY <2>2
  <2>. QED
    BY <2>3, <2>4 DEF nodes
<1>5. CASE G = {}
  <2>1. DelNodes(sel, G) = sel
    <3>1. rest = sel.nodes
      BY <1>5 DEF SelectType
    <3>2. sel = [nodes |-> sel.nodes, Master |-> sel.Master, MaxDescriptor |-> sel.MaxDescriptor]
      BY DEF SelectType
    <3>. QED
      BY <1>5, <3>1, <3>2 DEF DelNodes
  <2>. QED
    BY <1>5, <2>1
<1>6. CASE G # {}
  <2>1. G \cap NodesOf(sel.nodes) = G /\ sel.Master = F
    BY <1>4 DEF WaitsOn
  <2>2. DelNodes(sel, G) = new
    BY <1>3, <1>6, <2>1 DEF DelNodes
  <2>. QED
    BY <1>3, <2>2
<1>. QED
  BY <1>5, <1>6

\* DelNode of a node, when another one stays.
LEMMA DelNodeExact ==
    ASSUME NEW N \in Nat, NEW sel \in SelectType(N), NEW F \in SUBSET (0..N),
           WaitsOn(sel, F), NEW f \in F, F \ {f} # {}
    PROVE  DelNode(sel, f) \in SelectType(N) /\ WaitsOn(DelNode(sel, f), F \ {f})
<1>. DEFINE K == F \ {f}
            rest == [sel.nodes EXCEPT ![f] = @ - 1]
            new == [nodes |-> rest, Master |-> K, MaxDescriptor |-> MaxOver(K)]
<1>1. sel.nodes[f] > 0 /\ sel.Master = F
  BY DEF SelectType, WaitsOn
<1>2. /\ rest \in [0..N -> Nat]
      /\ \A g \in 0..N : rest[g] = IF g \in K THEN 1 ELSE 0
  BY DEF SelectType, WaitsOn
<1>3. K \in SUBSET (0..N) /\ K # {}
  OBVIOUS
<1>4. NodesOf(rest) = K /\ new \in SelectType(N) /\ WaitsOn(new, K)
  <2>. HIDE DEF K, rest
  <2>. QED
    BY <1>2, <1>3, ExactFromNodes DEF new
<1>5. DelNode(sel, f) = new
  BY <1>1, <1>4 DEF DelNode
<1>. QED
  BY <1>4, <1>5

-----------------------------------------------------------------------------
(***************************************************************************)
(* The state of the server                                                 *)
(***************************************************************************)

\* A connection is not the value that stands for a free descriptor.
LEMMA ConnectionIsSome == \A c \in Connection : c # NoConnection
  BY DEF Connection, NoConnection, Guest, TCID_GUEST_MIN

\* The listening sockets are descriptors of their own.
LEMMA ListenerFacts ==
    /\ Listener \subseteq Fd /\ Listener # {}
    /\ ClientFd \subseteq Fd /\ ClientFd \cap Listener = {}
    /\ Fd = 0..MaxFd /\ MaxFd \in Nat
    /\ Listener \cup ClientFd = Fd
    /\ \A p \in Port \cup {"CTRL"} : ListenFd[p] \in Listener /\ ListenFd[p] \notin ClientFd
<1>1. \A p \in Port \cup {"CTRL"} : ListenFd[p] \in Fd /\ ListenFd[p] \in Listener
  BY ConstantsAssumption DEF Listener
<1>2. Listener \subseteq Fd
  BY <1>1 DEF Listener
<1>. QED
  BY <1>1, <1>2, ConstantsAssumption DEF ClientFd, Fd

\* The elements of the lists.
LEMMA ListFacts ==
    ASSUME TypeOK, NEW s \in Srv
    PROVE  /\ InfoSockets[s] \in Seq(InfoSocket) /\ Len(InfoSockets[s]) \in Nat
           /\ InfoWifis[s] \in Seq(InfoWifi) /\ Len(InfoWifis[s]) \in Nat
           /\ InfoWifisDeconnected[s] \in Seq(InfoWifi)
           /\ \A k \in 1..Len(InfoSockets[s]) :
                 /\ InfoSockets[s][k] \in InfoSocket
                 /\ InfoSockets[s][k].fd \in ClientFd
                 /\ InfoSockets[s][k].enable \in BOOLEAN
           /\ \A k \in 1..Len(InfoWifis[s]) : InfoWifis[s][k] \in InfoWifi
           /\ \A k \in 1..Len(InfoWifisDeconnected[s]) : InfoWifisDeconnected[s][k] \in InfoWifi
<1>1. /\ InfoSockets[s] \in Seq(InfoSocket)
      /\ InfoWifis[s] \in Seq(InfoWifi)
      /\ InfoWifisDeconnected[s] \in Seq(InfoWifi)
  BY DEF TypeOK
<1>2. \A k \in 1..Len(InfoSockets[s]) : InfoSockets[s][k] \in InfoSocket
  BY <1>1, ElementOfSeq
<1>3. \A k \in 1..Len(InfoWifis[s]) : InfoWifis[s][k] \in InfoWifi
  BY <1>1, ElementOfSeq
<1>4. \A k \in 1..Len(InfoWifisDeconnected[s]) : InfoWifisDeconnected[s][k] \in InfoWifi
  BY <1>1, ElementOfSeq
<1>5. Len(InfoSockets[s]) \in Nat /\ Len(InfoWifis[s]) \in Nat
  BY <1>1, LenProperties
<1>. QED
  BY <1>1, <1>2, <1>3, <1>4, <1>5 DEF InfoSocket

\* What is not visited yet is in the list.
LEMMA UnvisitedInList ==
    ASSUME TypeOK, NEW s \in Srv
    PROVE  Unvisited(s) \subseteq 1..Len(InfoSockets[s])
  BY ListFacts DEF Unvisited, TypeOK

\* The vectors, the sockets and the scheduler stay as they are, and with
\* them what relates them.
LEMMA ListsFrame ==
    ASSUME Aligned, DistinctDescriptors, SchedulerExact,
           InfoSockets' = InfoSockets, InfoWifis' = InfoWifis,
           sock' = sock, scheduler' = scheduler
    PROVE  Aligned' /\ DistinctDescriptors' /\ SchedulerExact'
<1>1. Aligned'
  BY DEF Aligned
<1>2. DistinctDescriptors'
  BY DEF DistinctDescriptors
<1>3. Listed' = Listed
  BY DEF Listed
<1>4. SchedulerExact'
  BY <1>3 DEF SchedulerExact
<1>. QED
  BY <1>1, <1>2, <1>4

\* The initial states.
LEMMA InitIInv == Init => IInv
<1>. SUFFICES ASSUME Init PROVE IInv
  OBVIOUS
<1>. USE DEF Init
<1>0. /\ \A s \in Srv : InfoSockets[s] = <<>> /\ InfoWifis[s] = <<>>
      /\ InfoSockets \in [Srv -> Seq(InfoSocket)]
      /\ InfoWifis \in [Srv -> Seq(InfoWifi)]
      /\ InfoWifisDeconnected \in [Srv -> Seq(InfoWifi)]
  BY EmptySeq
<1>1. scheduler \in SelectType(MaxFd) /\ WaitsOn(scheduler, Listener)
  <2>. DEFINE ns == [f \in Fd |-> IF f \in Listener THEN 1 ELSE 0]
  <2>1. ns \in [0..MaxFd -> Nat] /\ \A g \in 0..MaxFd : ns[g] = IF g \in Listener THEN 1 ELSE 0
    BY ListenerFacts
  <2>. HIDE DEF ns
  <2>2. LET sel == [nodes |-> ns, Master |-> Listener, MaxDescriptor |-> MaxOver(Listener)]
        IN  sel \in SelectType(MaxFd) /\ WaitsOn(sel, Listener)
    BY <2>1, ListenerFacts, ExactFromNodes
  <2>. QED
    BY <2>2 DEF ns
<1>2. TypeOK
  <2>1. sock \in [ClientFd -> Connection \cup {NoConnection}]
    OBVIOUS
  <2>2. backlog \in [Port -> Seq(Connection)] /\ orders \in Seq(Order)
    BY EmptySeq
  <2>. QED
    BY <1>0, <1>1, <2>1, <2>2, ConstantsAssumption DEF TypeOK, Phase
<1>3. Aligned /\ DistinctDescriptors /\ VisitedServed /\ ReadyMeansInput
  BY <1>0 DEF Aligned, DistinctDescriptors, VisitedServed, ReadyMeansInput, Unvisited
<1>4. Listed = {}
  BY <1>0 DEF Listed, Descriptors
<1>5. SchedulerExact
  BY <1>1, <1>4 DEF SchedulerExact
<1>6. AcceptNeverBlocks /\ DupIsOpen /\ IndexAtStart
  BY DEF AcceptNeverBlocks, DupIsOpen, IndexAtStart, Upcoming, Port
<1>. QED
  BY <1>2, <1>3, <1>5, <1>6 DEF IInv

-----------------------------------------------------------------------------
\* Steps of the environment: connections are only added to the queues, and
\* what can be read of a connection stays readable.
LEMMA EnvironmentFrame ==
    ASSUME IInv,
           UNCHANGED <<lists, scheduler, Dup, settings, pc, index, served>>,
           sock' \in [ClientFd -> Connection \cup {NoConnection}],
           \A f \in ClientFd : /\ sock[f] # NoConnection =>
                                     sock'[f] # NoConnection /\ sock'[f].cid = sock[f].cid
                               /\ HasInput(f) => HasInput(f)',
           backlog' \in [Port -> Seq(Connection)],
           \A p \in Port : backlog[p] # <<>> => backlog'[p] # <<>>,
           orders' \in Seq(Order),
           orders # <<>> => orders' # <<>>
    PROVE  IInv'
<1>. USE DEF IInv, lists, settings
<1>1. TypeOK'
  BY DEF TypeOK
<1>2. Aligned'
  <2>. SUFFICES ASSUME NEW s \in Srv, NEW k \in 1..Len(InfoSockets[s])
                PROVE  LET conn == sock'[InfoSockets[s][k].fd]
                       IN  conn # NoConnection /\ conn.cid = InfoWifis[s][k].cid
    BY DEF Aligned
  <2>1. InfoSockets[s][k].fd \in ClientFd
    BY ListFacts
  <2>. QED
    BY <2>1 DEF Aligned
<1>3. DistinctDescriptors' /\ SchedulerExact' /\ VisitedServed'
  <2>1. DistinctDescriptors'
    BY DEF DistinctDescriptors
  <2>2. SchedulerExact'
    BY DEF SchedulerExact, Listed
  <2>3. VisitedServed'
    BY DEF VisitedServed, Unvisited
  <2>. QED
    BY <2>1, <2>2, <2>3
<1>4. AcceptNeverBlocks'
  BY DEF AcceptNeverBlocks
<1>5. ReadyMeansInput'
  <2>. SUFFICES ASSUME NEW s \in Srv, NEW k \in Unvisited(s), InfoSockets[s][k].fd \in Dup
                PROVE  HasInput(InfoSockets[s][k].fd)'
    BY DEF ReadyMeansInput, Unvisited
  <2>1. k \in 1..Len(InfoSockets[s])
    BY UnvisitedInList
  <2>2. InfoSockets[s][k].fd \in ClientFd
    BY <2>1, ListFacts
  <2>3. HasInput(InfoSockets[s][k].fd)
    BY DEF ReadyMeansInput
  <2>. QED
    BY <2>2, <2>3 DEF HasInput
<1>6. DupIsOpen' /\ IndexAtStart'
  BY DEF DupIsOpen, IsOpen, IndexAtStart
<1>. QED
  BY <1>1, <1>2, <1>3, <1>4, <1>5, <1>6

\* A guest or a spy connects.
LEMMA GuestConnectStep ==
    ASSUME IInv, NEW cid \in Guest, NEW p \in Port, GuestConnect(cid, p)
    PROVE  IInv'
<1>. DEFINE conn == [cid |-> cid, port |-> p, open |-> TRUE, unread |-> 0]
<1>1. conn \in Connection
  BY DEF Connection
<1>2. backlog[p] \in Seq(Connection)
  BY DEF IInv, TypeOK
<1>3. Append(backlog[p], conn) \in Seq(Connection) /\ Append(backlog[p], conn) # <<>>
  BY <1>1, <1>2, AppendProperties
<1>. HIDE DEF conn
<1>4. backlog' = [backlog EXCEPT ![p] = Append(backlog[p], conn)]
  BY DEF GuestConnect, conn
<1>5. /\ backlog' \in [Port -> Seq(Connection)]
      /\ \A q \in Port : backlog[q] # <<>> => backlog'[q] # <<>>
  BY <1>3, <1>4 DEF IInv, TypeOK
<1>6. /\ UNCHANGED <<lists, scheduler, Dup, settings, pc, index, served>>
      /\ sock' = sock /\ orders' = orders
  BY DEF GuestConnect
<1>7. \A f \in ClientFd : HasInput(f)' = HasInput(f)
  BY <1>6 DEF HasInput
<1>. QED
  BY <1>5, <1>6, <1>7, EnvironmentFrame DEF IInv, TypeOK

\* A guest gives a connection up that was not accepted yet.
LEMMA GuestAbortStep ==
    ASSUME IInv, NEW p \in Port, GuestAbort(p)
    PROVE  IInv'
<1>1. PICK k \in 1..Len(backlog[p]) : backlog' = [backlog EXCEPT ![p][k].open = FALSE]
  BY DEF GuestAbort
<1>2. backlog[p] \in Seq(Connection) /\ backlog[p][k] \in Connection
  BY ElementOfSeq DEF IInv, TypeOK
<1>. DEFINE conn == [backlog[p][k] EXCEPT !.open = FALSE]
            q1 == [backlog[p] EXCEPT ![k] = conn]
<1>3. conn \in Connection
  BY <1>2 DEF Connection
<1>. HIDE DEF conn
<1>4. q1 \in Seq(Connection) /\ Len(q1) = Len(backlog[p])
  BY <1>2, <1>3, ExceptSeq
<1>5. q1 # <<>>
  BY <1>2, <1>4, LenProperties, EmptySeq
<1>6. backlog' = [backlog EXCEPT ![p] = q1]
  BY <1>1 DEF conn
<1>. HIDE DEF q1
<1>7. /\ backlog' \in [Port -> Seq(Connection)]
      /\ \A q \in Port : backlog[q] # <<>> => backlog'[q] # <<>>
  BY <1>4, <1>5, <1>6 DEF IInv, TypeOK
<1>8. /\ UNCHANGED <<lists, scheduler, Dup, settings, pc, index, served>>
      /\ sock' = sock /\ orders' = orders
  BY DEF GuestAbort
<1>9. \A f \in ClientFd : HasInput(f)' = HasInput(f)
  BY <1>8 DEF HasInput
<1>. QED
  BY <1>7, <1>8, <1>9, EnvironmentFrame DEF IInv, TypeOK

\* A listed descriptor stands for a connection.
LEMMA ListedIsOpen ==
    ASSUME TypeOK, Aligned, NEW f \in Listed
    PROVE  f \in ClientFd /\ sock[f] \in Connection
<1>1. PICK s \in Srv : \E k \in 1..Len(InfoSockets[s]) : f = InfoSockets[s][k].fd
  BY DEF Listed, Descriptors
<1>. QED
  BY <1>1, ListFacts DEF Aligned, TypeOK

\* A guest sends a frame, or closes its connection.
LEMMA GuestActsStep ==
    ASSUME IInv, NEW f \in ClientFd, GuestSend(f) \/ GuestClose(f)
    PROVE  IInv'
<1>1. f \in Listed /\ sock[f] \in Connection
  BY ListedIsOpen DEF GuestSend, GuestClose, IInv
<1>2. PICK c \in Connection : /\ sock' = [sock EXCEPT ![f] = c] /\ c.cid = sock[f].cid
                              /\ HasInput(f) => c.unread > 0 \/ ~c.open
  <2>1. CASE GuestSend(f)
    <3>. DEFINE c == [sock[f] EXCEPT !.unread = @ + 1]
    <3>1. c \in Connection /\ c.cid = sock[f].cid /\ c.unread > 0
      BY <1>1 DEF Connection
    <3>2. sock' = [sock EXCEPT ![f] = c]
      BY <2>1 DEF GuestSend
    <3>. QED
      BY <3>1, <3>2
  <2>2. CASE GuestClose(f)
    <3>. DEFINE c == [sock[f] EXCEPT !.open = FALSE]
    <3>1. c \in Connection /\ c.cid = sock[f].cid /\ ~c.open
      BY <1>1 DEF Connection
    <3>2. sock' = [sock EXCEPT ![f] = c]
      BY <2>2 DEF GuestClose
    <3>. QED
      BY <3>1, <3>2
  <2>. QED
    BY <2>1, <2>2
<1>3. /\ UNCHANGED <<lists, scheduler, Dup, settings, pc, index, served>>
      /\ backlog' = backlog /\ orders' = orders
  BY DEF GuestSend, GuestClose
<1>4. sock' \in [ClientFd -> Connection \cup {NoConnection}]
  BY <1>2 DEF IInv, TypeOK
<1>5. ASSUME NEW g \in ClientFd
      PROVE  /\ sock[g] # NoConnection => sock'[g] # NoConnection /\ sock'[g].cid = sock[g].cid
             /\ HasInput(g) => HasInput(g)'
  BY <1>2, ConnectionIsSome DEF IInv, TypeOK, HasInput
<1>. QED
  BY <1>3, <1>4, <1>5, EnvironmentFrame DEF IInv, TypeOK

\* vwifi-ctrl connects.
LEMMA CtrlConnectStep ==
    ASSUME IInv, NEW o \in Order, CtrlConnect(o)
    PROVE  IInv'
<1>1. orders' \in Seq(Order) /\ orders' # <<>>
  <2>1. orders \in Seq(Order) /\ orders' = Append(orders, o)
    BY DEF CtrlConnect, IInv, TypeOK
  <2>. QED
    BY <2>1, AppendProperties
<1>2. /\ UNCHANGED <<lists, scheduler, Dup, settings, pc, index, served>>
      /\ sock' = sock /\ backlog' = backlog
  BY DEF CtrlConnect
<1>3. \A f \in ClientFd : HasInput(f)' = HasInput(f)
  BY <1>2 DEF HasInput
<1>. QED
  BY <1>1, <1>2, <1>3, EnvironmentFrame DEF IInv, TypeOK

\* Every step of guests, spies and vwifi-ctrl.
LEMMA EnvironmentStep == IInv /\ Environment => IInv'
  BY GuestConnectStep, GuestAbortStep, GuestActsStep, CtrlConnectStep DEF Environment

-----------------------------------------------------------------------------
\* The server exits: nothing else changes.
LEMMA ExitFrame ==
    ASSUME IInv, pc' = "Exited",
           UNCHANGED <<lists, scheduler, Dup, settings, index, served, kernel>>
    PROVE  IInv'
<1>. USE DEF IInv, lists, settings, kernel
<1>1. TypeOK'
  BY DEF TypeOK
<1>2. Aligned' /\ DistinctDescriptors' /\ SchedulerExact'
  BY ListsFrame
<1>3. AcceptNeverBlocks' /\ DupIsOpen' /\ IndexAtStart'
  BY DEF AcceptNeverBlocks, DupIsOpen, IndexAtStart, Upcoming, Port
<1>4. ReadyMeansInput' /\ VisitedServed'
  <2>1. \A s \in Srv : Unvisited(s)' = {}
    BY DEF Unvisited, Srv
  <2>2. ReadyMeansInput'
    BY <2>1 DEF ReadyMeansInput
  <2>3. VisitedServed'
    BY DEF VisitedServed
  <2>. QED
    BY <2>2, <2>3
<1>. QED
  BY <1>1, <1>2, <1>3, <1>4

\* The server passes to the next phase without touching a connection: an
\* accept phase with nothing to accept, a control phase whose order changes
\* at most the coordinates and names in the lists, or the settings.
LEMMA PhaseFrame ==
    ASSUME IInv, pc \in Port \cup {"CTRL"}, pc' = Succ(pc),
           UNCHANGED <<InfoSockets, scheduler, Dup, index, served, sock, backlog>>,
           InfoWifis' \in [Srv -> Seq(InfoWifi)],
           \A s \in Srv : /\ Len(InfoWifis'[s]) = Len(InfoWifis[s])
                          /\ \A k \in 1..Len(InfoWifis[s]) :
                                InfoWifis'[s][k].cid = InfoWifis[s][k].cid,
           InfoWifisDeconnected' \in [Srv -> Seq(InfoWifi)],
           CanLostPackets' \in BOOLEAN, Scale' \in Scales,
           orders' \in Seq(Order), pc # "CTRL" => orders' = orders
    PROVE  IInv'
<1>. USE DEF IInv
<1>0. pc' \in Phase /\ pc' # "Wait" /\ (pc' \in Srv => pc = "CTRL" /\ pc' = "wifi")
  BY DEF Succ, Port, Phase, Srv
<1>1. TypeOK'
  BY <1>0 DEF TypeOK
<1>2. Aligned'
  <2>. SUFFICES ASSUME NEW s \in Srv
                PROVE  /\ Len(InfoSockets[s]) = Len(InfoWifis'[s])
                       /\ \A k \in 1..Len(InfoSockets[s]) :
                             /\ sock[InfoSockets[s][k].fd] # NoConnection
                             /\ sock[InfoSockets[s][k].fd].cid = InfoWifis'[s][k].cid
    BY DEF Aligned
  <2>1. Len(InfoSockets[s]) = Len(InfoWifis[s])
    BY DEF Aligned
  <2>2. ASSUME NEW k \in 1..Len(InfoSockets[s])
        PROVE  /\ sock[InfoSockets[s][k].fd] # NoConnection
               /\ sock[InfoSockets[s][k].fd].cid = InfoWifis'[s][k].cid
    <3>1. InfoWifis'[s][k].cid = InfoWifis[s][k].cid
      BY <2>1
    <3>. QED
      BY <3>1 DEF Aligned
  <2>. QED
    BY <2>1, <2>2
<1>3. DistinctDescriptors' /\ SchedulerExact'
  BY DEF DistinctDescriptors, SchedulerExact, Listed
<1>4. AcceptNeverBlocks'
  BY DEF AcceptNeverBlocks, Upcoming, Succ, Port
<1>5. DupIsOpen' /\ IndexAtStart'
  BY DEF DupIsOpen, IndexAtStart, IsOpen, Upcoming, Succ, Port
<1>6. index = 1 /\ pc \in Upcoming("CTRL")
  BY DEF IndexAtStart, Upcoming, Port
<1>7. \A s \in Srv : Unvisited(s)' = Unvisited(s)
  BY <1>6 DEF Unvisited, Succ, Port, Srv
<1>8. ReadyMeansInput'
  BY <1>7 DEF ReadyMeansInput, HasInput
<1>9. VisitedServed'
  BY <1>7 DEF VisitedServed, Port
<1>. QED
  BY <1>1, <1>2, <1>3, <1>4, <1>5, <1>8, <1>9

\* A listening socket where nobody waits.
LEMMA AcceptNothingStep ==
    ASSUME IInv, NEW p \in Port, AcceptNothing(p)
    PROVE  IInv'
  BY PhaseFrame DEF AcceptNothing, IInv, TypeOK, lists, settings, kernel

\* The server exits because no descriptor is free.
LEMMA AcceptFailsStep ==
    ASSUME IInv, NEW p \in Port, AcceptFails(p)
    PROVE  IInv'
  BY ExitFrame DEF AcceptFails

\* A control phase without an order.
LEMMA NoOrderStep == IInv /\ NoOrder => IInv'
  BY PhaseFrame DEF NoOrder, IInv, TypeOK, lists, settings, kernel

\* The server is killed while it answers vwifi-ctrl.
LEMMA AnswerKilledStep == IInv /\ AnswerKilled => IInv'
  BY ExitFrame DEF AnswerKilled

\* The server is killed while it forwards a frame.
LEMMA ForwardKilledStep == ASSUME IInv, NEW s \in Srv, ForwardKilled(s) PROVE IInv'
  BY ExitFrame DEF ForwardKilled

\* What every order finds: a control connection that waits.
LEMMA OrderFacts ==
    ASSUME IInv, NEW types, ReceiveOrder(types)
    PROVE  /\ orders # <<>> /\ Head(orders) \in Order /\ orders' \in Seq(Order)
           /\ pc = "CTRL" /\ pc' = Succ(pc)
           /\ UNCHANGED <<Dup, index, served, backlog>>
<1>1. orders # <<>>
  BY DEF IInv, AcceptNeverBlocks, ReceiveOrder, Upcoming
<1>2. orders \in Seq(Order)
  BY DEF IInv, TypeOK
<1>. QED
  BY <1>1, <1>2, HeadTailProperties DEF ReceiveOrder

\* Orders that only ask.
LEMMA AnswerStep == IInv /\ Answer => IInv'
<1>. SUFFICES ASSUME IInv, Answer PROVE IInv'
  OBVIOUS
<1>1. ReceiveOrder({"no", "list", "status", "show", "distance"})
  BY DEF Answer
<1>2. /\ orders' \in Seq(Order) /\ pc = "CTRL" /\ pc' = Succ(pc)
      /\ UNCHANGED <<Dup, index, served, backlog>>
  BY <1>1, OrderFacts
<1>3. UNCHANGED <<lists, scheduler, settings, sock>>
  BY DEF Answer
<1>. QED
  BY <1>2, <1>3, PhaseFrame DEF IInv, TypeOK, lists, settings

\* The order that switches losses on or off.
LEMMA ChangePacketLossStep == IInv /\ ChangePacketLoss => IInv'
<1>. SUFFICES ASSUME IInv, ChangePacketLoss PROVE IInv'
  OBVIOUS
<1>1. ReceiveOrder({"loss"})
  BY DEF ChangePacketLoss
<1>2. /\ orders' \in Seq(Order) /\ pc = "CTRL" /\ pc' = Succ(pc)
      /\ UNCHANGED <<Dup, index, served, backlog>>
      /\ Head(orders) \in Order /\ Head(orders).type = "loss"
  BY <1>1, OrderFacts DEF ReceiveOrder
<1>3. CanLostPackets' \in BOOLEAN
  BY <1>2 DEF ChangePacketLoss, Order
<1>4. UNCHANGED <<lists, scheduler, Scale, sock>>
  BY DEF ChangePacketLoss
<1>. QED
  BY <1>2, <1>3, <1>4, PhaseFrame DEF IInv, TypeOK, lists

\* The order that sets the scale.
LEMMA SetScaleStep == IInv /\ SetScale => IInv'
<1>. SUFFICES ASSUME IInv, SetScale PROVE IInv'
  OBVIOUS
<1>1. ReceiveOrder({"scale"})
  BY DEF SetScale
<1>2. /\ orders' \in Seq(Order) /\ pc = "CTRL" /\ pc' = Succ(pc)
      /\ UNCHANGED <<Dup, index, served, backlog>>
      /\ Head(orders) \in Order /\ Head(orders).type = "scale"
  BY <1>1, OrderFacts DEF ReceiveOrder
<1>3. Scale' \in Scales
  BY <1>2 DEF SetScale, Order
<1>4. UNCHANGED <<lists, scheduler, CanLostPackets, sock>>
  BY DEF SetScale
<1>. QED
  BY <1>2, <1>3, <1>4, PhaseFrame DEF IInv, TypeOK, lists

\* ChangeCoordinate and SetName change one entry of one list, not its cid.
LEMMA EntryChanged ==
    ASSUME NEW L \in [Srv -> Seq(InfoWifi)], NEW s \in Srv, NEW k \in 1..Len(L[s]),
           NEW e \in InfoWifi, e.cid = L[s][k].cid,
           NEW M, M = [L EXCEPT ![s] = [L[s] EXCEPT ![k] = e]]
    PROVE  /\ M \in [Srv -> Seq(InfoWifi)]
           /\ \A t \in Srv : /\ Len(M[t]) = Len(L[t])
                             /\ \A j \in 1..Len(L[t]) : M[t][j].cid = L[t][j].cid
<1>1. L[s] \in Seq(InfoWifi)
  OBVIOUS
<1>. DEFINE ws == [L[s] EXCEPT ![k] = e]
<1>2. /\ ws \in Seq(InfoWifi) /\ Len(ws) = Len(L[s])
      /\ \A j \in 1..Len(L[s]) : ws[j] = IF j = k THEN e ELSE L[s][j]
  BY <1>1, ExceptSeq
<1>3. M = [L EXCEPT ![s] = ws]
  OBVIOUS
<1>. HIDE DEF ws
<1>. QED
  BY <1>2, <1>3

\* ChangeCoordinate: three lists are searched, one entry changes or is added.
LEMMA ChangeCoordinateStep == IInv /\ ChangeCoordinate => IInv'
<1>. SUFFICES ASSUME IInv, ChangeCoordinate PROVE IInv'
  OBVIOUS
<1>. DEFINE o == Head(orders)
            saved == InfoWifisDeconnected["wifi"]
            w == IndexByCID(InfoWifis["wifi"], o.cid)
            d == IndexByCID(saved, o.cid)
<1>1. ReceiveOrder({"coordinate"})
  BY DEF ChangeCoordinate
<1>2. /\ orders' \in Seq(Order) /\ pc = "CTRL" /\ pc' = Succ(pc)
      /\ UNCHANGED <<Dup, index, served, backlog>>
      /\ o \in Order /\ o.type = "coordinate"
  BY <1>1, OrderFacts DEF ReceiveOrder
<1>3. o.cid \in CID /\ o.coo \in Coo
  BY <1>2 DEF Order
<1>4. UNCHANGED <<InfoSockets, scheduler, settings, sock>>
  BY DEF ChangeCoordinate
<1>5. /\ InfoWifis["wifi"] \in Seq(InfoWifi) /\ saved \in Seq(InfoWifi)
      /\ InfoWifis \in [Srv -> Seq(InfoWifi)] /\ InfoWifisDeconnected \in [Srv -> Seq(InfoWifi)]
      /\ CanLostPackets \in BOOLEAN /\ Scale \in Scales
  BY DEF IInv, TypeOK, Srv
<1>6. /\ w # 0 => w \in 1..Len(InfoWifis["wifi"]) /\ InfoWifis["wifi"][w] \in InfoWifi
      /\ d # 0 => d \in 1..Len(saved) /\ saved[d] \in InfoWifi
  BY <1>5, IndexByCIDProperties, ElementOfSeq
<1>7. /\ InfoWifis' \in [Srv -> Seq(InfoWifi)]
      /\ \A s \in Srv : /\ Len(InfoWifis'[s]) = Len(InfoWifis[s])
                        /\ \A k \in 1..Len(InfoWifis[s]) :
                              InfoWifis'[s][k].cid = InfoWifis[s][k].cid
      /\ InfoWifisDeconnected' \in [Srv -> Seq(InfoWifi)]
  <2>1. CASE UNCHANGED <<InfoWifis, InfoWifisDeconnected>>
    BY <1>5, <2>1
  <2>2. CASE /\ w # 0 /\ UNCHANGED InfoWifisDeconnected
             /\ InfoWifis' = [InfoWifis EXCEPT !["wifi"][w].coo = o.coo]
    <3>. DEFINE e == [InfoWifis["wifi"][w] EXCEPT !.coo = o.coo]
    <3>1. e \in InfoWifi /\ e.cid = InfoWifis["wifi"][w].cid
      BY <1>3, <1>6, <2>2 DEF InfoWifi
    <3>2. InfoWifis' = [InfoWifis EXCEPT !["wifi"] = [InfoWifis["wifi"] EXCEPT ![w] = e]]
      BY <2>2
    <3>3. w \in 1..Len(InfoWifis["wifi"])
      BY <1>6, <2>2
    <3>. HIDE DEF e, w
    <3>4. /\ InfoWifis' \in [Srv -> Seq(InfoWifi)]
          /\ \A s \in Srv : /\ Len(InfoWifis'[s]) = Len(InfoWifis[s])
                            /\ \A k \in 1..Len(InfoWifis[s]) : InfoWifis'[s][k].cid = InfoWifis[s][k].cid
      <4>1. "wifi" \in Srv
        BY DEF Srv
      <4>. QED
        BY <1>5, <3>1, <3>2, <3>3, <4>1, EntryChanged
    <3>. QED
      BY <1>5, <2>2, <3>4
  <2>3. CASE /\ d # 0 /\ UNCHANGED InfoWifis
             /\ InfoWifisDeconnected' = [InfoWifisDeconnected EXCEPT !["wifi"][d].coo = o.coo]
    <3>. DEFINE e == [saved[d] EXCEPT !.coo = o.coo]
    <3>1. e \in InfoWifi /\ e.cid = saved[d].cid
      BY <1>3, <1>6, <2>3 DEF InfoWifi
    <3>2. InfoWifisDeconnected' =
              [InfoWifisDeconnected EXCEPT !["wifi"] = [InfoWifisDeconnected["wifi"] EXCEPT ![d] = e]]
      BY <2>3
    <3>3. d \in 1..Len(InfoWifisDeconnected["wifi"])
      BY <1>6, <2>3
    <3>. HIDE DEF e, d
    <3>4. /\ InfoWifisDeconnected' \in [Srv -> Seq(InfoWifi)]
          /\ \A s \in Srv : /\ Len(InfoWifisDeconnected'[s]) = Len(InfoWifisDeconnected[s])
                            /\ \A k \in 1..Len(InfoWifisDeconnected[s]) : InfoWifisDeconnected'[s][k].cid = InfoWifisDeconnected[s][k].cid
      <4>1. "wifi" \in Srv
        BY DEF Srv
      <4>. QED
        BY <1>5, <3>1, <3>2, <3>3, <4>1, EntryChanged
    <3>. QED
      BY <1>5, <2>3, <3>4
  <2>4. CASE /\ o.cid >= TCID_GUEST_MIN /\ UNCHANGED InfoWifis
             /\ InfoWifisDeconnected' = [InfoWifisDeconnected EXCEPT !["wifi"] =
                    AddInfoWifiDeconnected(saved, MaxDeconnected["wifi"],
                        [cid |-> o.cid, coo |-> o.coo, name |-> DefaultName])]
    <3>1. [cid |-> o.cid, coo |-> o.coo, name |-> DefaultName] \in InfoWifi
      BY <1>3, <2>4, ConstantsAssumption DEF InfoWifi, Guest
    <3>2. MaxDeconnected["wifi"] \in Nat \ {0}
      BY ConstantsAssumption DEF Srv
    <3>3. AddInfoWifiDeconnected(saved, MaxDeconnected["wifi"],
              [cid |-> o.cid, coo |-> o.coo, name |-> DefaultName]) \in Seq(InfoWifi)
      BY <1>5, <3>1, <3>2, AddInfoWifiDeconnectedType
    <3>. QED
      BY <1>5, <2>4, <3>3
  <2>. QED
    BY <2>1, <2>2, <2>3, <2>4 DEF ChangeCoordinate
<1>. QED
  BY <1>2, <1>4, <1>5, <1>7, PhaseFrame DEF settings

\* SetName: one entry of one of three lists changes.
LEMMA SetNameStep == IInv /\ SetName => IInv'
<1>. SUFFICES ASSUME IInv, SetName PROVE IInv'
  OBVIOUS
<1>. DEFINE o == Head(orders)
            saved == InfoWifisDeconnected["wifi"]
            w == IndexByCID(InfoWifis["wifi"], o.cid)
            d == IndexByCID(saved, o.cid)
            y == IndexByCID(InfoWifis["spy"], o.cid)
<1>1. ReceiveOrder({"name"})
  BY DEF SetName
<1>2. /\ orders' \in Seq(Order) /\ pc = "CTRL" /\ pc' = Succ(pc)
      /\ UNCHANGED <<Dup, index, served, backlog>>
      /\ o \in Order /\ o.type = "name"
  BY <1>1, OrderFacts DEF ReceiveOrder
<1>3. o.name \in Names
  BY <1>2 DEF Order
<1>4. UNCHANGED <<InfoSockets, scheduler, settings, sock>>
  BY DEF SetName
<1>5. /\ InfoWifis["wifi"] \in Seq(InfoWifi) /\ saved \in Seq(InfoWifi)
      /\ InfoWifis["spy"] \in Seq(InfoWifi)
      /\ InfoWifis \in [Srv -> Seq(InfoWifi)] /\ InfoWifisDeconnected \in [Srv -> Seq(InfoWifi)]
      /\ CanLostPackets \in BOOLEAN /\ Scale \in Scales
  BY DEF IInv, TypeOK, Srv
<1>6. /\ w # 0 => w \in 1..Len(InfoWifis["wifi"]) /\ InfoWifis["wifi"][w] \in InfoWifi
      /\ d # 0 => d \in 1..Len(saved) /\ saved[d] \in InfoWifi
      /\ y # 0 => y \in 1..Len(InfoWifis["spy"]) /\ InfoWifis["spy"][y] \in InfoWifi
  BY <1>5, IndexByCIDProperties, ElementOfSeq
<1>7. /\ InfoWifis' \in [Srv -> Seq(InfoWifi)]
      /\ \A s \in Srv : /\ Len(InfoWifis'[s]) = Len(InfoWifis[s])
                        /\ \A k \in 1..Len(InfoWifis[s]) :
                              InfoWifis'[s][k].cid = InfoWifis[s][k].cid
      /\ InfoWifisDeconnected' \in [Srv -> Seq(InfoWifi)]
  <2>1. CASE UNCHANGED <<InfoWifis, InfoWifisDeconnected>>
    BY <1>5, <2>1
  <2>2. CASE /\ w # 0 /\ UNCHANGED InfoWifisDeconnected
             /\ InfoWifis' = [InfoWifis EXCEPT !["wifi"][w].name = o.name]
    <3>. DEFINE e == [InfoWifis["wifi"][w] EXCEPT !.name = o.name]
    <3>1. e \in InfoWifi /\ e.cid = InfoWifis["wifi"][w].cid
      BY <1>3, <1>6, <2>2 DEF InfoWifi
    <3>2. InfoWifis' = [InfoWifis EXCEPT !["wifi"] = [InfoWifis["wifi"] EXCEPT ![w] = e]]
      BY <2>2
    <3>3. w \in 1..Len(InfoWifis["wifi"])
      BY <1>6, <2>2
    <3>. HIDE DEF e, w
    <3>4. /\ InfoWifis' \in [Srv -> Seq(InfoWifi)]
          /\ \A s \in Srv : /\ Len(InfoWifis'[s]) = Len(InfoWifis[s])
                            /\ \A k \in 1..Len(InfoWifis[s]) : InfoWifis'[s][k].cid = InfoWifis[s][k].cid
      <4>1. "wifi" \in Srv
        BY DEF Srv
      <4>. QED
        BY <1>5, <3>1, <3>2, <3>3, <4>1, EntryChanged
    <3>. QED
      BY <1>5, <2>2, <3>4
  <2>3. CASE /\ d # 0 /\ UNCHANGED InfoWifis
             /\ InfoWifisDeconnected' = [InfoWifisDeconnected EXCEPT !["wifi"][d].name = o.name]
    <3>. DEFINE e == [saved[d] EXCEPT !.name = o.name]
    <3>1. e \in InfoWifi /\ e.cid = saved[d].cid
      BY <1>3, <1>6, <2>3 DEF InfoWifi
    <3>2. InfoWifisDeconnected' =
              [InfoWifisDeconnected EXCEPT !["wifi"] = [InfoWifisDeconnected["wifi"] EXCEPT ![d] = e]]
      BY <2>3
    <3>3. d \in 1..Len(InfoWifisDeconnected["wifi"])
      BY <1>6, <2>3
    <3>. HIDE DEF e, d
    <3>4. /\ InfoWifisDeconnected' \in [Srv -> Seq(InfoWifi)]
          /\ \A s \in Srv : /\ Len(InfoWifisDeconnected'[s]) = Len(InfoWifisDeconnected[s])
                            /\ \A k \in 1..Len(InfoWifisDeconnected[s]) : InfoWifisDeconnected'[s][k].cid = InfoWifisDeconnected[s][k].cid
      <4>1. "wifi" \in Srv
        BY DEF Srv
      <4>. QED
        BY <1>5, <3>1, <3>2, <3>3, <4>1, EntryChanged
    <3>. QED
      BY <1>5, <2>3, <3>4
  <2>4. CASE /\ y # 0 /\ UNCHANGED InfoWifisDeconnected
             /\ InfoWifis' = [InfoWifis EXCEPT !["spy"][y].name = o.name]
    <3>. DEFINE e == [InfoWifis["spy"][y] EXCEPT !.name = o.name]
    <3>1. e \in InfoWifi /\ e.cid = InfoWifis["spy"][y].cid
      BY <1>3, <1>6, <2>4 DEF InfoWifi
    <3>2. InfoWifis' = [InfoWifis EXCEPT !["spy"] = [InfoWifis["spy"] EXCEPT ![y] = e]]
      BY <2>4
    <3>3. y \in 1..Len(InfoWifis["spy"])
      BY <1>6, <2>4
    <3>. HIDE DEF e, y
    <3>4. /\ InfoWifis' \in [Srv -> Seq(InfoWifi)]
          /\ \A s \in Srv : /\ Len(InfoWifis'[s]) = Len(InfoWifis[s])
                            /\ \A k \in 1..Len(InfoWifis[s]) : InfoWifis'[s][k].cid = InfoWifis[s][k].cid
      <4>1. "spy" \in Srv
        BY DEF Srv
      <4>. QED
        BY <1>5, <3>1, <3>2, <3>3, <4>1, EntryChanged
    <3>. QED
      BY <1>5, <2>4, <3>4
  <2>. QED
    BY <2>1, <2>2, <2>3, <2>4 DEF SetName
<1>. QED
  BY <1>2, <1>4, <1>5, <1>7, PhaseFrame DEF settings

-----------------------------------------------------------------------------
\* pselect is never called on a closed descriptor.
LEMMA MasterIsOpen ==
    ASSUME IInv
    PROVE  \A f \in scheduler.Master : IsOpen(f)
<1>1. scheduler.Master = Listener \cup Listed
  BY DEF IInv, SchedulerExact, WaitsOn
<1>. QED
  BY <1>1, ListedIsOpen, ConnectionIsSome DEF IInv, IsOpen

\* pselect: Dup holds what is readable now, and nothing is visited yet.
LEMMA WaitStep == IInv /\ Wait => IInv'
<1>. SUFFICES ASSUME IInv, Wait PROVE IInv'
  OBVIOUS
<1>1. /\ pc = "Wait" /\ pc' = "VTCP" /\ index' = 1 /\ served' = {}
      /\ Dup' = Activity(scheduler, Readable)
  BY MasterIsOpen DEF Wait, Succ
<1>2. UNCHANGED <<lists, scheduler, settings, kernel>>
  BY DEF Wait
<1>. USE DEF lists, settings, kernel
<1>3. Dup' \subseteq scheduler.Master /\ Dup' \subseteq Readable /\ Dup' \subseteq Fd
  BY <1>1, ListenerFacts DEF Activity, IInv, TypeOK, SelectType
<1>4. TypeOK'
  BY <1>1, <1>2, <1>3 DEF IInv, TypeOK, Phase, Port
<1>5. Aligned' /\ DistinctDescriptors' /\ SchedulerExact'
  BY <1>2, ListsFrame DEF IInv
<1>6. \A f \in Readable :
         /\ f \in ClientFd => HasInput(f)
         /\ \A p \in Port : f = ListenFd[p] => backlog[p] # <<>>
         /\ f = ListenFd["CTRL"] => orders # <<>>
  BY ListenerFacts, ConstantsAssumption DEF Readable, Port
<1>7. AcceptNeverBlocks'
  BY <1>2, <1>3, <1>6 DEF AcceptNeverBlocks
<1>8. \A s \in Srv : Unvisited(s)' = 1..Len(InfoSockets[s])
  BY <1>1, <1>2 DEF Unvisited, Srv
<1>9. ReadyMeansInput'
  <2>. SUFFICES ASSUME NEW s \in Srv, NEW k \in 1..Len(InfoSockets[s]),
                       InfoSockets[s][k].fd \in Dup'
                PROVE  HasInput(InfoSockets[s][k].fd)'
    BY <1>2, <1>8 DEF ReadyMeansInput
  <2>1. HasInput(InfoSockets[s][k].fd)
    BY <1>3, <1>6, ListFacts DEF IInv
  <2>. QED
    BY <1>2, <2>1 DEF HasInput
<1>10. DupIsOpen'
  <2>1. \A f \in Dup' : IsOpen(f)
    BY <1>3, MasterIsOpen
  <2>. QED
    BY <1>2, <2>1 DEF DupIsOpen, IsOpen
<1>11. VisitedServed'
  BY <1>2, <1>8 DEF VisitedServed
<1>12. IndexAtStart'
  BY <1>1 DEF IndexAtStart
<1>. QED
  BY <1>4, <1>5, <1>7, <1>9, <1>10, <1>11, <1>12 DEF IInv

-----------------------------------------------------------------------------
\* ForwardData passes over a connection that has nothing to read.
LEMMA ForwardIdleStep ==
    ASSUME IInv, NEW s \in Srv, ForwardIdle(s)
    PROVE  IInv'
<1>1. /\ pc = s /\ index <= Len(InfoSockets[s]) /\ InfoSockets[s][index].fd \notin Dup
      /\ index' = index + 1
  BY DEF ForwardIdle, Visiting
<1>2. UNCHANGED <<lists, scheduler, Dup, settings, pc, served, kernel>>
  BY DEF ForwardIdle
<1>. USE DEF lists, settings, kernel
<1>3. TypeOK'
  BY <1>1, <1>2 DEF IInv, TypeOK
<1>4. Aligned' /\ DistinctDescriptors' /\ SchedulerExact'
  BY <1>2, ListsFrame DEF IInv
<1>5. AcceptNeverBlocks' /\ DupIsOpen' /\ IndexAtStart'
  BY <1>1, <1>2 DEF AcceptNeverBlocks, DupIsOpen, IndexAtStart, Upcoming, Port, Srv
<1>6. \A t \in Srv : /\ Unvisited(t)' \subseteq Unvisited(t)
                     /\ Unvisited(t) \subseteq Unvisited(t)' \cup (IF t = s THEN {index} ELSE {})
  BY <1>1, <1>2, ListFacts DEF Unvisited, Srv, IInv, TypeOK
<1>7. ReadyMeansInput'
  BY <1>2, <1>6 DEF IInv, ReadyMeansInput, HasInput
<1>8. VisitedServed'
  BY <1>1, <1>2, <1>6 DEF IInv, VisitedServed
<1>. QED
  BY <1>3, <1>4, <1>5, <1>7, <1>8 DEF IInv

\* ForwardData comes to the end of its list.
LEMMA ForwardDoneStep ==
    ASSUME IInv, NEW s \in Srv, ForwardDone(s)
    PROVE  IInv'
<1>1. pc = s /\ index > Len(InfoSockets[s]) /\ pc' = Succ(pc) /\ index' = 1
  BY DEF ForwardDone
<1>2. UNCHANGED <<lists, scheduler, Dup, settings, served, kernel>>
  BY DEF ForwardDone
<1>. USE DEF lists, settings, kernel
<1>3. pc' \in {"spy", "Wait"}
  BY <1>1 DEF Succ, Srv
<1>4. TypeOK'
  BY <1>1, <1>2, <1>3 DEF IInv, TypeOK, Phase, Srv
<1>5. Aligned' /\ DistinctDescriptors' /\ SchedulerExact'
  BY <1>2, ListsFrame DEF IInv
<1>6. AcceptNeverBlocks' /\ DupIsOpen' /\ IndexAtStart'
  BY <1>1, <1>3 DEF AcceptNeverBlocks, DupIsOpen, IndexAtStart, Upcoming, Port
<1>7. \A t \in Srv : Unvisited(t)' = Unvisited(t)
  <2>1. Unvisited(s) = {}
    BY <1>1, ListFacts DEF Unvisited, Srv, IInv, TypeOK
  <2>2. CASE s = "wifi"
    BY <1>1, <1>2, <2>1, <2>2 DEF Unvisited, Srv, Succ
  <2>3. CASE s = "spy"
    BY <1>1, <1>2, <2>1, <2>3 DEF Unvisited, Srv, Succ
  <2>. QED
    BY <2>2, <2>3 DEF Srv
<1>8. ReadyMeansInput'
  BY <1>2, <1>7 DEF IInv, ReadyMeansInput, HasInput
<1>9. VisitedServed'
  BY <1>1, <1>2, <1>7 DEF IInv, VisitedServed, Srv
<1>. QED
  BY <1>4, <1>5, <1>6, <1>8, <1>9 DEF IInv

\* ForwardData reads a frame and passes it on: the sender has one frame
\* less, some receivers are disabled.
LEMMA ForwardFrameStep ==
    ASSUME IInv, NEW s \in Srv, ForwardFrame(s)
    PROVE  IInv'
<1>1. PICK f \in ClientFd :
        /\ Reading(s, f) /\ sock[f].unread > 0
        /\ sock' = [sock EXCEPT ![f].unread = @ - 1]
        /\ served' = served \cup {f}
  BY DEF ForwardFrame
<1>2. PICK failed, otherFailed : InfoSockets' = [t \in Srv |->
                  DisableClients(InfoSockets[t], IF t = s THEN failed ELSE otherFailed)]
  <2>1. PICK lost \in SUBSET MayBeLost(s, s) :
           \E failed \in SUBSET {k \in Targets(s, s) \ lost : SendMayFail(InfoSockets[s][k].fd)} :
           \E otherFailed \in SUBSET {k \in Targets(s, OtherSrv(s)) :
                                        SendMayFail(InfoSockets[OtherSrv(s)][k].fd)} :
              InfoSockets' = [t \in Srv |->
                  DisableClients(InfoSockets[t], IF t = s THEN failed ELSE otherFailed)]
    BY ZenonT(60) DEF ForwardFrame
  <2>2. PICK failed : \E otherFailed :
              InfoSockets' = [t \in Srv |->
                  DisableClients(InfoSockets[t], IF t = s THEN failed ELSE otherFailed)]
    BY <2>1, ZenonT(60)
  <2>. QED
    BY <2>2, ZenonT(60)
<1>3. /\ UNCHANGED <<InfoWifis, InfoWifisDeconnected, scheduler, Dup, settings, pc,
                     backlog, orders>>
      /\ index' = index + 1
      /\ pc = s /\ index \in 1..Len(InfoSockets[s])
      /\ f = InfoSockets[s][index].fd
  BY <1>1, ListFacts DEF ForwardFrame, Reading, Visiting, IInv, TypeOK
<1>4. ASSUME NEW t \in Srv
      PROVE  /\ InfoSockets'[t] \in Seq(InfoSocket)
             /\ Len(InfoSockets'[t]) = Len(InfoSockets[t])
             /\ \A k \in 1..Len(InfoSockets[t]) :
                   /\ InfoSockets'[t][k].fd = InfoSockets[t][k].fd
                   /\ InfoSockets'[t][k].enable => InfoSockets[t][k].enable
  <2>1. InfoSockets[t] \in Seq([fd : ClientFd, enable : BOOLEAN])
    BY DEF IInv, TypeOK, InfoSocket
  <2>. DEFINE gone == IF t = s THEN failed ELSE otherFailed
              ss == InfoSockets[t]
  <2>2. InfoSockets'[t] = DisableClients(ss, gone)
    BY <1>2
  <2>. HIDE DEF gone
  <2>3. /\ DisableClients(ss, gone) \in Seq([fd : ClientFd, enable : BOOLEAN])
        /\ Len(DisableClients(ss, gone)) = Len(ss)
        /\ \A k \in 1..Len(ss) :
              /\ DisableClients(ss, gone)[k].fd = ss[k].fd
              /\ DisableClients(ss, gone)[k].enable => ss[k].enable
    BY <2>1, DisableClientsProperties, Zenon
  <2>. QED
    BY <2>2, <2>3 DEF InfoSocket
<1>5. /\ sock[f] \in Connection /\ sock'[f] \in Connection
      /\ sock'[f].cid = sock[f].cid
      /\ sock' \in [ClientFd -> Connection \cup {NoConnection}]
      /\ \A g \in ClientFd : g # f => sock'[g] = sock[g]
  <2>1. sock[f] \in Connection
    BY <1>1, <1>3 DEF IInv, TypeOK, Aligned
  <2>2. [sock[f] EXCEPT !.unread = sock[f].unread - 1] \in Connection
    BY <1>1, <2>1 DEF Connection
  <2>3. sock'[f] = [sock[f] EXCEPT !.unread = sock[f].unread - 1]
    BY <1>1 DEF IInv, TypeOK
  <2>4. sock'[f].cid = sock[f].cid
    BY <2>1, <2>3 DEF Connection
  <2>. QED
    BY <1>1, <2>1, <2>2, <2>3, <2>4 DEF IInv, TypeOK
<1>6. TypeOK'
  <2>1. InfoSockets' \in [Srv -> Seq(InfoSocket)]
    <3>1. InfoSockets' = [t \in Srv |-> InfoSockets'[t]]
      BY <1>2
    <3>. QED
      BY <1>4, <3>1
  <2>2. index' \in Nat \ {0} /\ served' \subseteq ClientFd
    BY <1>1, <1>3 DEF IInv, TypeOK
  <2>. QED
    BY <1>3, <1>5, <2>1, <2>2 DEF IInv, TypeOK, settings
<1>7. Aligned'
  <2>. SUFFICES ASSUME NEW t \in Srv
                PROVE  /\ Len(InfoSockets'[t]) = Len(InfoWifis[t])
                       /\ \A k \in 1..Len(InfoSockets[t]) :
                             LET conn == sock'[InfoSockets[t][k].fd]
                             IN  conn # NoConnection /\ conn.cid = InfoWifis[t][k].cid
    <3>1. \A t \in Srv : /\ Len(InfoSockets'[t]) = Len(InfoSockets[t])
                         /\ \A k \in 1..Len(InfoSockets[t]) :
                               InfoSockets'[t][k].fd = InfoSockets[t][k].fd
      BY <1>4
    <3>2. InfoWifis' = InfoWifis
      BY <1>3
    <3>. QED
      BY <3>1, <3>2 DEF Aligned
  <2>1. \A k \in 1..Len(InfoSockets[t]) : InfoSockets[t][k].fd \in ClientFd
    BY ListFacts DEF IInv
  <2>. QED
    BY <1>4, <1>5, <2>1, ConnectionIsSome DEF IInv, Aligned
<1>8. DistinctDescriptors'
  BY <1>4 DEF IInv, DistinctDescriptors
<1>9. SchedulerExact'
  <2>1. \A t \in Srv : Descriptors(InfoSockets'[t]) = Descriptors(InfoSockets[t])
    BY <1>4 DEF Descriptors
  <2>2. Listed' = Listed
    BY <2>1 DEF Listed
  <2>. QED
    BY <1>3, <2>2 DEF IInv, SchedulerExact
<1>10. AcceptNeverBlocks' /\ DupIsOpen' /\ IndexAtStart'
  BY <1>3 DEF AcceptNeverBlocks, DupIsOpen, IndexAtStart, Upcoming, Port, Srv
<1>11. \A t \in Srv : /\ Unvisited(t)' \subseteq Unvisited(t) \ (IF t = s THEN {index} ELSE {})
                      /\ Unvisited(t) \subseteq Unvisited(t)' \cup (IF t = s THEN {index} ELSE {})
  <2>. TAKE t \in Srv
  <2>1. Len(InfoSockets'[t]) = Len(InfoSockets[t]) /\ Len(InfoSockets[t]) \in Nat /\ index \in Nat
    BY <1>3, <1>4, ListFacts DEF IInv, TypeOK
  <2>2. pc' = s /\ pc = s /\ s \in {"wifi", "spy"}
    BY <1>3 DEF Srv
  <2>3. CASE t = s
    <3>1. Unvisited(t) = index..Len(InfoSockets[t])
      BY <2>2, <2>3 DEF Unvisited
    <3>2. Unvisited(t)' = (index + 1)..Len(InfoSockets[t])
      BY <1>3, <2>1, <2>2, <2>3 DEF Unvisited
    <3>. QED
      BY <2>1, <2>3, <3>1, <3>2
  <2>4. CASE t # s
    <3>1. Unvisited(t)' = Unvisited(t)
      BY <2>1, <2>2, <2>4 DEF Unvisited
    <3>. QED
      BY <2>4, <3>1
  <2>. QED
    BY <2>3, <2>4
<1>12. ReadyMeansInput'
  <2>. SUFFICES ASSUME NEW t \in Srv, NEW k \in Unvisited(t)', InfoSockets'[t][k].fd \in Dup
                PROVE  HasInput(InfoSockets[t][k].fd)'
    BY <1>3 DEF ReadyMeansInput
  <2>1. k \in Unvisited(t) /\ k \in 1..Len(InfoSockets[t]) /\ ~(t = s /\ k = index)
    BY <1>11, UnvisitedInList DEF IInv
  <2>2. InfoSockets'[t][k].fd = InfoSockets[t][k].fd /\ InfoSockets[t][k].fd \in ClientFd
    BY <1>4, <2>1, ListFacts DEF IInv
  <2>3. InfoSockets[t][k].fd # f
    BY <1>3, <2>1 DEF IInv, DistinctDescriptors
  <2>4. HasInput(InfoSockets[t][k].fd)
    BY <2>1, <2>2 DEF IInv, ReadyMeansInput
  <2>. QED
    BY <1>5, <2>2, <2>3, <2>4 DEF HasInput
<1>13. VisitedServed'
  <2>. SUFFICES ASSUME NEW t \in Srv, NEW k \in 1..Len(InfoSockets[t]), k \notin Unvisited(t)',
                       InfoSockets'[t][k].enable, InfoSockets'[t][k].fd \in Dup
                PROVE  InfoSockets'[t][k].fd \in served'
    BY <1>3, <1>4 DEF VisitedServed
  <2>1. InfoSockets'[t][k].fd = InfoSockets[t][k].fd /\ InfoSockets[t][k].enable
    BY <1>4
  <2>2. CASE t = s /\ k = index
    BY <1>1, <1>3, <2>1, <2>2
  <2>3. CASE ~(t = s /\ k = index)
    <3>1. k \notin Unvisited(t) /\ pc # "Exited"
      BY <1>3, <1>11, <2>3 DEF Srv
    <3>. QED
      BY <1>1, <2>1, <3>1 DEF IInv, VisitedServed
  <2>. QED
    BY <2>2, <2>3
<1>. QED
  BY <1>6, <1>7, <1>8, <1>9, <1>10, <1>12, <1>13 DEF IInv

\* RemoveClient inside ForwardData: the entries behind the erased one move
\* down to the places ForwardData looks at next, and the descriptor leaves
\* the scheduler before its number can be handed out again.
LEMMA RemoveClientStep ==
    ASSUME IInv, NEW s \in Srv, Visiting(s), RemoveClient(s, index),
           served \subseteq served', served' \subseteq ClientFd,
           UNCHANGED <<Dup, settings, pc, index, backlog, orders>>
    PROVE  IInv'
<1>. DEFINE f == InfoSockets[s][index].fd
            Shift(t, k) == IF t = s /\ k >= index THEN k + 1 ELSE k
<1>1. /\ pc = s /\ index \in 1..Len(InfoSockets[s]) /\ f \in ClientFd
      /\ Len(InfoSockets[s]) = Len(InfoWifis[s])
  BY ListFacts DEF Visiting, IInv, TypeOK, Aligned
<1>2. \A t \in Srv : /\ InfoSockets[t] \in Seq(InfoSocket) /\ Len(InfoSockets[t]) \in Nat
                     /\ InfoWifis[t] \in Seq(InfoWifi) /\ Len(InfoSockets[t]) = Len(InfoWifis[t])
  BY ListFacts DEF IInv, Aligned
<1>3. /\ RemoveAt(InfoSockets[s], index) \in Seq(InfoSocket)
      /\ Len(RemoveAt(InfoSockets[s], index)) = Len(InfoSockets[s]) - 1
      /\ \A j \in 1..(Len(InfoSockets[s]) - 1) : RemoveAt(InfoSockets[s], index)[j]
            = IF j < index THEN InfoSockets[s][j] ELSE InfoSockets[s][j + 1]
      /\ RemoveAt(InfoWifis[s], index) \in Seq(InfoWifi)
      /\ Len(RemoveAt(InfoWifis[s], index)) = Len(InfoSockets[s]) - 1
      /\ \A j \in 1..(Len(InfoSockets[s]) - 1) : RemoveAt(InfoWifis[s], index)[j]
            = IF j < index THEN InfoWifis[s][j] ELSE InfoWifis[s][j + 1]
  <2>1. InfoSockets[s] \in Seq(InfoSocket) /\ index \in 1..Len(InfoSockets[s])
    BY <1>1, <1>2
  <2>2. InfoWifis[s] \in Seq(InfoWifi) /\ index \in 1..Len(InfoWifis[s])
    BY <1>1, <1>2
  <2>3. /\ RemoveAt(InfoWifis[s], index) \in Seq(InfoWifi)
        /\ Len(RemoveAt(InfoWifis[s], index)) = Len(InfoWifis[s]) - 1
        /\ \A j \in 1..(Len(InfoWifis[s]) - 1) : RemoveAt(InfoWifis[s], index)[j]
              = IF j < index THEN InfoWifis[s][j] ELSE InfoWifis[s][j + 1]
    BY <2>2, RemoveAtProperties
  <2>4. /\ RemoveAt(InfoSockets[s], index) \in Seq(InfoSocket)
        /\ Len(RemoveAt(InfoSockets[s], index)) = Len(InfoSockets[s]) - 1
        /\ \A j \in 1..(Len(InfoSockets[s]) - 1) : RemoveAt(InfoSockets[s], index)[j]
              = IF j < index THEN InfoSockets[s][j] ELSE InfoSockets[s][j + 1]
    BY <2>1, RemoveAtProperties
  <2>. QED
    BY <1>1, <2>3, <2>4
<1>4. /\ InfoSockets' = [InfoSockets EXCEPT ![s] = RemoveAt(InfoSockets[s], index)]
      /\ InfoWifis' = [InfoWifis EXCEPT ![s] = RemoveAt(InfoWifis[s], index)]
      /\ InfoSockets' \in [Srv -> Seq(InfoSocket)]
      /\ InfoWifis' \in [Srv -> Seq(InfoWifi)]
  BY <1>3 DEF RemoveClient, IInv, TypeOK
<1>5. ASSUME NEW t \in Srv
      PROVE  /\ Len(InfoSockets'[t]) = Len(InfoWifis'[t])
             /\ Len(InfoSockets'[t]) = IF t = s THEN Len(InfoSockets[t]) - 1 ELSE Len(InfoSockets[t])
             /\ \A k \in 1..Len(InfoSockets'[t]) :
                   /\ Shift(t, k) \in 1..Len(InfoSockets[t])
                   /\ ~(t = s /\ Shift(t, k) = index)
                   /\ InfoSockets'[t][k] = InfoSockets[t][Shift(t, k)]
                   /\ InfoWifis'[t][k] = InfoWifis[t][Shift(t, k)]
  <2>1. CASE t = s
    <3>1. /\ InfoSockets'[t] = RemoveAt(InfoSockets[s], index)
          /\ InfoWifis'[t] = RemoveAt(InfoWifis[s], index)
      BY <1>4, <2>1 DEF IInv, TypeOK
    <3>2. /\ Len(InfoSockets'[t]) = Len(InfoSockets[s]) - 1
          /\ Len(InfoWifis'[t]) = Len(InfoSockets[s]) - 1
          /\ Len(InfoSockets[s]) \in Nat /\ index \in 1..Len(InfoSockets[s])
      BY <1>1, <1>2, <1>3, <3>1
    <3>3. ASSUME NEW k \in 1..(Len(InfoSockets[s]) - 1)
          PROVE  /\ Shift(t, k) \in 1..Len(InfoSockets[s])
                 /\ Shift(t, k) # index
                 /\ InfoSockets'[t][k] = InfoSockets[s][Shift(t, k)]
                 /\ InfoWifis'[t][k] = InfoWifis[s][Shift(t, k)]
      <4>1. CASE k < index
        BY <1>3, <2>1, <3>1, <3>2, <4>1
      <4>2. CASE k >= index
        BY <1>3, <2>1, <3>1, <3>2, <4>2
      <4>. QED
        BY <3>2, <4>1, <4>2
    <3>. HIDE DEF Shift
    <3>. QED
      BY <2>1, <3>2, <3>3
  <2>2. CASE t # s
    <3>1. InfoSockets'[t] = InfoSockets[t] /\ InfoWifis'[t] = InfoWifis[t]
      BY <1>4, <2>2 DEF IInv, TypeOK
    <3>. QED
      BY <1>2, <2>2, <3>1
  <2>. QED
    BY <2>1, <2>2
<1>6. /\ sock' \in [ClientFd -> Connection \cup {NoConnection}]
      /\ \A g \in ClientFd : g # f => sock'[g] = sock[g]
  BY DEF RemoveClient, CloseFds, IInv, TypeOK
<1>7. \A t \in Srv : \A k \in 1..Len(InfoSockets[t]) :
         /\ InfoSockets[t][k].fd \in ClientFd
         /\ ~(t = s /\ k = index) => InfoSockets[t][k].fd # f
  BY <1>1, ListFacts DEF IInv, DistinctDescriptors
<1>8. Listed' = Listed \ {f} /\ f \in Listed
  <2>1. ASSUME NEW g \in Listed' PROVE g \in Listed \ {f}
    <3>1. PICK t \in Srv : g \in Descriptors(InfoSockets'[t])
      BY <2>1 DEF Listed
    <3>2. PICK k \in 1..Len(InfoSockets'[t]) : g = InfoSockets'[t][k].fd
      BY <3>1 DEF Descriptors
    <3>3. /\ Shift(t, k) \in 1..Len(InfoSockets[t]) /\ ~(t = s /\ Shift(t, k) = index)
          /\ g = InfoSockets[t][Shift(t, k)].fd
      BY <1>5, <3>2
    <3>. HIDE DEF Shift
    <3>4. g \in Descriptors(InfoSockets[t]) /\ g # f
      BY <1>7, <3>3 DEF Descriptors
    <3>. QED
      BY <3>4 DEF Listed
  <2>2. ASSUME NEW g \in Listed, g # f PROVE g \in Listed'
    <3>1. PICK t \in Srv : g \in Descriptors(InfoSockets[t])
      BY <2>2 DEF Listed
    <3>2. PICK k \in 1..Len(InfoSockets[t]) : g = InfoSockets[t][k].fd
      BY <3>1 DEF Descriptors
    <3>. DEFINE j == IF t = s /\ k > index THEN k - 1 ELSE k
    <3>3. j \in 1..Len(InfoSockets'[t]) /\ Shift(t, j) = k
      <4>1. /\ Len(InfoSockets'[t]) = IF t = s THEN Len(InfoSockets[t]) - 1
                                              ELSE Len(InfoSockets[t])
            /\ Len(InfoSockets[t]) \in Nat /\ index \in 1..Len(InfoSockets[s])
        BY <1>1, <1>2, <1>5
      <4>2. ~(t = s /\ k = index)
        BY <2>2, <3>2
      <4>. QED
        BY <3>2, <4>1, <4>2
    <3>4. g = InfoSockets'[t][j].fd
      BY <1>5, <3>2, <3>3
    <3>. HIDE DEF j
    <3>5. g \in Descriptors(InfoSockets'[t])
      BY <3>3, <3>4 DEF Descriptors
    <3>. QED
      BY <3>5 DEF Listed
  <2>3. f \in Listed
    BY <1>1 DEF Listed, Descriptors
  <2>. QED
    BY <2>1, <2>2, <2>3
<1>9. scheduler' \in SelectType(MaxFd) /\ WaitsOn(scheduler', (Listener \cup Listed) \ {f})
  <2>1. /\ MaxFd \in Nat /\ scheduler \in SelectType(MaxFd)
        /\ Listener \cup Listed \in SUBSET (0..MaxFd)
        /\ WaitsOn(scheduler, Listener \cup Listed)
    BY ListenerFacts, ListedIsOpen DEF IInv, TypeOK, SchedulerExact
  <2>2. f \in Listener \cup Listed /\ (Listener \cup Listed) \ {f} # {}
    BY <1>1, <1>8, ListenerFacts
  <2>3. scheduler' = DelNode(scheduler, f)
    BY DEF RemoveClient
  <2>. HIDE DEF f
  <2>. QED
    BY <2>1, <2>2, <2>3, DelNodeExact
<1>10. SchedulerExact'
  <2>1. (Listener \cup Listed) \ {f} = Listener \cup Listed'
    BY <1>1, <1>8, ListenerFacts
  <2>. QED
    BY <1>9, <2>1 DEF SchedulerExact
<1>11. InfoWifisDeconnected' \in [Srv -> Seq(InfoWifi)]
  <2>1. /\ InfoWifis[s][index] \in InfoWifi /\ MaxDeconnected[s] \in Nat \ {0}
        /\ InfoWifisDeconnected[s] \in Seq(InfoWifi)
    BY <1>1, ListFacts, ConstantsAssumption DEF IInv
  <2>2. AddInfoWifiDeconnected(InfoWifisDeconnected[s], MaxDeconnected[s], InfoWifis[s][index])
            \in Seq(InfoWifi)
    BY <2>1, AddInfoWifiDeconnectedType
  <2>. QED
    BY <2>2 DEF RemoveClient, IInv, TypeOK
<1>12. TypeOK'
  BY <1>4, <1>6, <1>9, <1>11 DEF IInv, TypeOK, settings
<1>. HIDE DEF f
<1>13. Aligned'
  <2>. SUFFICES ASSUME NEW t \in Srv, NEW k \in 1..Len(InfoSockets'[t])
                PROVE  /\ sock'[InfoSockets'[t][k].fd] # NoConnection
                       /\ sock'[InfoSockets'[t][k].fd].cid = InfoWifis'[t][k].cid
    BY <1>5 DEF Aligned
  <2>. DEFINE j == Shift(t, k)
  <2>1. /\ j \in 1..Len(InfoSockets[t]) /\ ~(t = s /\ j = index)
        /\ InfoSockets'[t][k] = InfoSockets[t][j] /\ InfoWifis'[t][k] = InfoWifis[t][j]
    BY <1>5
  <2>. HIDE DEF j
  <2>2. sock'[InfoSockets[t][j].fd] = sock[InfoSockets[t][j].fd]
    BY <1>6, <1>7, <2>1
  <2>. QED
    BY <2>1, <2>2 DEF IInv, Aligned
<1>14. DistinctDescriptors'
  <2>. SUFFICES ASSUME NEW t \in Srv, NEW u \in Srv, NEW j \in 1..Len(InfoSockets'[t]),
                       NEW k \in 1..Len(InfoSockets'[u]),
                       InfoSockets'[t][j].fd = InfoSockets'[u][k].fd
                PROVE  t = u /\ j = k
    BY DEF DistinctDescriptors
  <2>1. /\ Shift(t, j) \in 1..Len(InfoSockets[t]) /\ Shift(u, k) \in 1..Len(InfoSockets[u])
        /\ InfoSockets[t][Shift(t, j)].fd = InfoSockets[u][Shift(u, k)].fd
    BY <1>5
  <2>2. t = u /\ Shift(t, j) = Shift(u, k)
    <3>. HIDE DEF Shift
    <3>. QED
      BY <2>1 DEF IInv, DistinctDescriptors
  <2>. QED
    BY <1>1, <1>2, <1>5, <2>2
<1>15. AcceptNeverBlocks' /\ DupIsOpen' /\ IndexAtStart'
  BY <1>1 DEF AcceptNeverBlocks, DupIsOpen, IndexAtStart, Upcoming, Port, Srv
<1>16. ASSUME NEW t \in Srv, NEW k \in 1..Len(InfoSockets'[t])
       PROVE  k \in Unvisited(t)' <=> Shift(t, k) \in Unvisited(t)
  BY <1>1, <1>2, <1>5 DEF Unvisited, Srv
<1>17. ReadyMeansInput'
  <2>0. \A t \in Srv : Unvisited(t)' \subseteq 1..Len(InfoSockets'[t])
    BY <1>1, <1>2, <1>5 DEF Unvisited, Srv
  <2>. SUFFICES ASSUME NEW t \in Srv, NEW k \in Unvisited(t)', InfoSockets'[t][k].fd \in Dup
                PROVE  HasInput(InfoSockets[t][k].fd)'
    BY DEF ReadyMeansInput
  <2>. DEFINE j == Shift(t, k)
  <2>1. /\ j \in 1..Len(InfoSockets[t]) /\ ~(t = s /\ j = index)
        /\ InfoSockets'[t][k] = InfoSockets[t][j] /\ j \in Unvisited(t)
    BY <1>5, <1>16, <2>0
  <2>. HIDE DEF j
  <2>2. sock'[InfoSockets[t][j].fd] = sock[InfoSockets[t][j].fd]
    BY <1>6, <1>7, <2>1
  <2>3. HasInput(InfoSockets[t][j].fd)
    BY <2>1 DEF IInv, ReadyMeansInput
  <2>. QED
    BY <2>1, <2>2, <2>3 DEF HasInput
<1>18. VisitedServed'
  <2>. SUFFICES ASSUME NEW t \in Srv, NEW k \in 1..Len(InfoSockets'[t]), k \notin Unvisited(t)',
                       InfoSockets'[t][k].enable, InfoSockets'[t][k].fd \in Dup
                PROVE  InfoSockets'[t][k].fd \in served'
    BY DEF VisitedServed
  <2>. DEFINE j == Shift(t, k)
  <2>1. /\ j \in 1..Len(InfoSockets[t])
        /\ InfoSockets'[t][k] = InfoSockets[t][j] /\ j \notin Unvisited(t) /\ pc # "Exited"
    BY <1>1, <1>5, <1>16 DEF Srv
  <2>. HIDE DEF j
  <2>. QED
    BY <2>1 DEF IInv, VisitedServed
<1>. QED
  BY <1>10, <1>12, <1>13, <1>14, <1>15, <1>17, <1>18 DEF IInv

\* ForwardData removes a disabled connection.
LEMMA ForwardRemoveStep ==
    ASSUME IInv, NEW s \in Srv, ForwardRemove(s)
    PROVE  IInv'
  BY RemoveClientStep DEF ForwardRemove, IInv, TypeOK

\* ForwardData removes a connection it cannot read a frame from.
LEMMA ForwardRecvErrorStep ==
    ASSUME IInv, NEW s \in Srv, ForwardRecvError(s)
    PROVE  IInv'
<1>1. PICK f \in ClientFd :
        /\ Reading(s, f) /\ served' = served \cup {f} /\ RemoveClient(s, index)
        /\ UNCHANGED <<Dup, settings, pc, index, backlog, orders>>
  BY DEF ForwardRecvError
<1>2. served \subseteq served' /\ served' \subseteq ClientFd /\ Visiting(s)
  BY <1>1 DEF Reading, IInv, TypeOK
<1>. QED
  BY <1>1, <1>2, RemoveClientStep

-----------------------------------------------------------------------------
\* An accepted connection: its descriptor is one pselect has not reported,
\* because none of those was closed since, so the new connection is not
\* taken for a readable one.
LEMMA AdmitStep ==
    ASSUME IInv, NEW p \in Port, Incoming(p), NEW s, s = SrvOf(p),
           NEW ss \in Seq(InfoSocket), Len(ss) = Len(InfoSockets[s]),
           \A k \in 1..Len(ss) : ss[k].fd = InfoSockets[s][k].fd,
           NEW ds \in Seq(InfoWifi), NEW coo \in Coo, NEW name \in Names,
           Admit(p, ss, ds, coo, name)
    PROVE  IInv'
<1>0. s \in Srv /\ pc = p /\ p \in Upcoming(p) /\ p \in Upcoming("SPY") /\ ListenFd[p] \in Dup
  BY DEF SrvOf, Srv, Incoming, Upcoming, Port
<1>. DEFINE conn == Head(backlog[p])
<1>1. backlog[p] # <<>> /\ backlog[p] \in Seq(Connection)
  BY <1>0 DEF IInv, TypeOK, AcceptNeverBlocks
<1>2. conn \in Connection /\ Tail(backlog[p]) \in Seq(Connection)
  BY <1>1, HeadTailProperties
<1>3. PICK f \in ClientFd :
        /\ f \in FreeFd
        /\ InfoSockets' = [InfoSockets EXCEPT ![s] = Append(ss, [fd |-> f, enable |-> TRUE])]
        /\ InfoWifis' = [InfoWifis EXCEPT ![s] =
                Append(InfoWifis[s], [cid |-> conn.cid, coo |-> coo, name |-> name])]
        /\ InfoWifisDeconnected' = [InfoWifisDeconnected EXCEPT ![s] = ds]
        /\ sock' = [sock EXCEPT ![f] = conn]
        /\ backlog' = [backlog EXCEPT ![p] = Tail(backlog[p])]
        /\ scheduler' = AddNode(scheduler, f)
        /\ pc' = Succ(pc)
        /\ UNCHANGED <<Dup, settings, index, served, orders>>
  BY DEF Admit, LowestFree
<1>. HIDE DEF conn
<1>4. \A t \in Srv : /\ InfoSockets[t] \in Seq(InfoSocket) /\ Len(InfoSockets[t]) \in Nat
                     /\ InfoWifis[t] \in Seq(InfoWifi) /\ Len(InfoSockets[t]) = Len(InfoWifis[t])
                     /\ \A k \in 1..Len(InfoSockets[t]) : InfoSockets[t][k].fd \in ClientFd
  BY ListFacts DEF IInv, Aligned
<1>5. sock[f] = NoConnection /\ f \notin Listed /\ f \notin Dup
  <2>1. sock[f] = NoConnection
    BY <1>3 DEF FreeFd
  <2>2. f \notin Listed
    BY <2>1, ListedIsOpen, ConnectionIsSome DEF IInv
  <2>3. f \notin Dup
    BY <1>0, <2>1, ListenerFacts DEF IInv, DupIsOpen, IsOpen
  <2>. QED
    BY <2>1, <2>2, <2>3
<1>6. \A t \in Srv : \A k \in 1..Len(InfoSockets[t]) : InfoSockets[t][k].fd # f
  BY <1>5 DEF Listed, Descriptors
<1>7. ASSUME NEW t \in Srv
      PROVE  /\ InfoSockets'[t] \in Seq(InfoSocket) /\ InfoWifis'[t] \in Seq(InfoWifi)
             /\ Len(InfoSockets'[t]) = IF t = s THEN Len(InfoSockets[t]) + 1 ELSE Len(InfoSockets[t])
             /\ Len(InfoWifis'[t]) = Len(InfoSockets'[t])
             /\ \A k \in 1..Len(InfoSockets[t]) :
                   InfoSockets'[t][k].fd = InfoSockets[t][k].fd /\ InfoWifis'[t][k] = InfoWifis[t][k]
             /\ t # s => InfoSockets'[t] = InfoSockets[t]
             /\ t = s => /\ InfoSockets'[t][Len(InfoSockets[t]) + 1].fd = f
                         /\ InfoWifis'[t][Len(InfoSockets[t]) + 1].cid = conn.cid
  <2>1. CASE t # s
    <3>1. InfoSockets'[t] = InfoSockets[t] /\ InfoWifis'[t] = InfoWifis[t]
      BY <1>3, <2>1 DEF IInv, TypeOK
    <3>. QED
      BY <1>4, <2>1, <3>1
  <2>2. CASE t = s
    <3>. DEFINE x == [fd |-> f, enable |-> TRUE]
                y == [cid |-> conn.cid, coo |-> coo, name |-> name]
    <3>1. x \in InfoSocket /\ x.fd = f
      BY DEF InfoSocket
    <3>2. y \in InfoWifi /\ y.cid = conn.cid
      BY <1>2 DEF InfoWifi, Connection
    <3>. HIDE DEF x, y
    <3>3. InfoSockets'[t] = Append(ss, x) /\ InfoWifis'[t] = Append(InfoWifis[t], y)
      BY <1>3, <2>2 DEF IInv, TypeOK, x, y
    <3>4. /\ Append(ss, x) \in Seq(InfoSocket) /\ Len(Append(ss, x)) = Len(ss) + 1
          /\ \A k \in 1..Len(ss) : Append(ss, x)[k] = ss[k]
          /\ Append(ss, x)[Len(ss) + 1] = x
      BY <3>1, AppendProperties
    <3>5. /\ Append(InfoWifis[t], y) \in Seq(InfoWifi)
          /\ Len(Append(InfoWifis[t], y)) = Len(InfoWifis[t]) + 1
          /\ \A k \in 1..Len(InfoWifis[t]) : Append(InfoWifis[t], y)[k] = InfoWifis[t][k]
          /\ Append(InfoWifis[t], y)[Len(InfoWifis[t]) + 1] = y
      BY <1>4, <3>2, AppendProperties
    <3>. QED
      BY <1>4, <2>2, <3>1, <3>2, <3>3, <3>4, <3>5
  <2>. QED
    BY <2>1, <2>2
<1>8. /\ sock' \in [ClientFd -> Connection \cup {NoConnection}]
      /\ sock'[f] = conn
      /\ \A g \in ClientFd : g # f => sock'[g] = sock[g]
  BY <1>2, <1>3 DEF IInv, TypeOK
<1>9. Listed' = Listed \cup {f}
  <2>1. ASSUME NEW t \in Srv
        PROVE  Descriptors(InfoSockets'[t])
                   = Descriptors(InfoSockets[t]) \cup (IF t = s THEN {f} ELSE {})
    <3>1. CASE t # s
      BY <1>7, <3>1
    <3>2. CASE t = s
      <4>. DEFINE n == Len(InfoSockets[t])
      <4>1. /\ n \in Nat /\ Len(InfoSockets'[t]) = n + 1 /\ InfoSockets'[t][n + 1].fd = f
            /\ \A k \in 1..n : InfoSockets'[t][k].fd = InfoSockets[t][k].fd
        BY <1>4, <1>7, <3>2
      <4>2. 1..(n + 1) = 1..n \cup {n + 1}
        BY <4>1
      <4>. HIDE DEF n
      <4>3. Descriptors(InfoSockets'[t]) = {InfoSockets'[t][k].fd : k \in 1..n \cup {n + 1}}
        BY <4>1, <4>2 DEF Descriptors
      <4>4. Descriptors(InfoSockets[t]) = {InfoSockets[t][k].fd : k \in 1..n}
        BY DEF Descriptors, n
      <4>5. {InfoSockets'[t][k].fd : k \in 1..n} = {InfoSockets[t][k].fd : k \in 1..n}
        BY <4>1
      <4>6. Descriptors(InfoSockets'[t]) = {InfoSockets'[t][k].fd : k \in 1..n} \cup {f}
        BY <4>1, <4>3
      <4>. QED
        BY <3>2, <4>4, <4>5, <4>6
    <3>. QED
      BY <3>1, <3>2
  <2>2. CASE s = "wifi"
    BY <2>1, <2>2 DEF Listed, Srv
  <2>3. CASE s = "spy"
    BY <2>1, <2>3 DEF Listed, Srv
  <2>. QED
    BY <1>0, <2>2, <2>3 DEF Srv
<1>10. scheduler' \in SelectType(MaxFd) /\ WaitsOn(scheduler', (Listener \cup Listed) \cup {f})
  <2>1. /\ MaxFd \in Nat /\ scheduler \in SelectType(MaxFd)
        /\ Listener \cup Listed \in SUBSET (0..MaxFd)
        /\ WaitsOn(scheduler, Listener \cup Listed)
    BY ListenerFacts, ListedIsOpen DEF IInv, TypeOK, SchedulerExact
  <2>2. f \in 0..MaxFd /\ f \notin Listener \cup Listed
    BY <1>5, ListenerFacts
  <2>. QED
    BY <1>3, <2>1, <2>2, AddNodeExact
<1>11. SchedulerExact'
  <2>1. (Listener \cup Listed) \cup {f} = Listener \cup Listed'
    BY <1>9
  <2>. QED
    BY <1>10, <2>1 DEF SchedulerExact
<1>12. pc' \in {"ITCP", "SPY", "CTRL"} /\ pc' \notin Upcoming(p)
  BY <1>0, <1>3 DEF Succ, Port, Upcoming
<1>13. TypeOK'
  <2>1. InfoSockets' \in [Srv -> Seq(InfoSocket)] /\ InfoWifis' \in [Srv -> Seq(InfoWifi)]
    <3>1. /\ InfoSockets' = [t \in Srv |-> InfoSockets'[t]]
          /\ InfoWifis' = [t \in Srv |-> InfoWifis'[t]]
      BY <1>3 DEF IInv, TypeOK
    <3>. QED
      BY <1>7, <3>1
  <2>2. /\ InfoWifisDeconnected' \in [Srv -> Seq(InfoWifi)]
        /\ backlog' \in [Port -> Seq(Connection)]
    BY <1>2, <1>3 DEF IInv, TypeOK
  <2>. QED
    BY <1>3, <1>8, <1>10, <1>12, <2>1, <2>2 DEF IInv, TypeOK, settings, Phase, Port
<1>14. Aligned'
  <2>. SUFFICES ASSUME NEW t \in Srv, NEW k \in 1..Len(InfoSockets'[t])
                PROVE  /\ sock'[InfoSockets'[t][k].fd] # NoConnection
                       /\ sock'[InfoSockets'[t][k].fd].cid = InfoWifis'[t][k].cid
    BY <1>7 DEF Aligned
  <2>1. CASE k \in 1..Len(InfoSockets[t])
    <3>1. InfoSockets'[t][k].fd = InfoSockets[t][k].fd /\ InfoWifis'[t][k] = InfoWifis[t][k]
      BY <1>7, <2>1
    <3>2. sock'[InfoSockets[t][k].fd] = sock[InfoSockets[t][k].fd]
      BY <1>4, <1>6, <1>8, <2>1
    <3>. QED
      BY <2>1, <3>1, <3>2 DEF IInv, Aligned
  <2>2. CASE t = s /\ k = Len(InfoSockets[t]) + 1
    BY <1>2, <1>7, <1>8, <2>2, ConnectionIsSome
  <2>. QED
    BY <1>4, <1>7, <2>1, <2>2
<1>15. DistinctDescriptors'
  <2>. SUFFICES ASSUME NEW t \in Srv, NEW u \in Srv, NEW j \in 1..Len(InfoSockets'[t]),
                       NEW k \in 1..Len(InfoSockets'[u]),
                       InfoSockets'[t][j].fd = InfoSockets'[u][k].fd
                PROVE  t = u /\ j = k
    BY DEF DistinctDescriptors
  <2>1. CASE j \in 1..Len(InfoSockets[t]) /\ k \in 1..Len(InfoSockets[u])
    <3>1. InfoSockets[t][j].fd = InfoSockets[u][k].fd
      BY <1>7, <2>1
    <3>. QED
      BY <2>1, <3>1 DEF IInv, DistinctDescriptors
  <2>2. ASSUME NEW v \in Srv, NEW i \in 1..Len(InfoSockets'[v]), i \notin 1..Len(InfoSockets[v])
        PROVE  v = s /\ i = Len(InfoSockets[v]) + 1 /\ InfoSockets'[v][i].fd = f
    <3>1. /\ Len(InfoSockets[v]) \in Nat
          /\ Len(InfoSockets'[v]) = IF v = s THEN Len(InfoSockets[v]) + 1 ELSE Len(InfoSockets[v])
      BY <1>4, <1>7
    <3>2. v = s /\ i = Len(InfoSockets[v]) + 1
      BY <2>2, <3>1
    <3>. QED
      BY <1>7, <3>2
  <2>3. ASSUME NEW v \in Srv, NEW i \in 1..Len(InfoSockets[v])
        PROVE  InfoSockets'[v][i].fd # f
    <3>1. InfoSockets'[v][i].fd = InfoSockets[v][i].fd
      BY <1>7
    <3>. QED
      BY <1>6, <3>1
  <2>4. CASE j \notin 1..Len(InfoSockets[t])
    <3>1. t = s /\ j = Len(InfoSockets[t]) + 1 /\ InfoSockets'[t][j].fd = f
      BY <2>2, <2>4
    <3>2. k \notin 1..Len(InfoSockets[u])
      BY <2>3, <3>1
    <3>. QED
      BY <2>2, <3>1, <3>2
  <2>5. CASE k \notin 1..Len(InfoSockets[u])
    <3>1. u = s /\ k = Len(InfoSockets[u]) + 1 /\ InfoSockets'[u][k].fd = f
      BY <2>2, <2>5
    <3>2. j \notin 1..Len(InfoSockets[t])
      BY <2>3, <3>1
    <3>. QED
      BY <2>2, <3>1, <3>2
  <2>. QED
    BY <2>1, <2>4, <2>5
<1>16. AcceptNeverBlocks'
  <2>1. ASSUME NEW q \in Port, pc' \in Upcoming(q), ListenFd[q] \in Dup
        PROVE  backlog'[q] # <<>>
    <3>1. q # p /\ pc \in Upcoming(q)
      BY <1>0, <1>3, <1>12, <2>1 DEF Succ, Port, Upcoming
    <3>. QED
      BY <1>3, <2>1, <3>1 DEF IInv, TypeOK, AcceptNeverBlocks
  <2>2. ListenFd["CTRL"] \in Dup => orders # <<>>
    BY <1>0 DEF IInv, AcceptNeverBlocks, Upcoming, Port
  <2>. QED
    BY <1>3, <2>1, <2>2 DEF AcceptNeverBlocks
<1>17. DupIsOpen' /\ IndexAtStart'
  <2>1. ASSUME NEW g \in Dup PROVE IsOpen(g)'
    <3>1. IsOpen(g) /\ g # f
      BY <1>0, <1>5 DEF IInv, DupIsOpen
    <3>. QED
      BY <1>8, <3>1 DEF IsOpen
  <2>2. index = 1
    BY <1>0 DEF IInv, IndexAtStart, Upcoming, Port
  <2>. QED
    BY <1>3, <2>1, <2>2 DEF DupIsOpen, IndexAtStart
<1>18. \A t \in Srv : /\ Unvisited(t)' = 1..Len(InfoSockets'[t])
                      /\ Unvisited(t) = 1..Len(InfoSockets[t])
  BY <1>0, <1>12 DEF Unvisited, Srv, Port
<1>19. ReadyMeansInput'
  <2>. SUFFICES ASSUME NEW t \in Srv, NEW k \in 1..Len(InfoSockets'[t]),
                       InfoSockets'[t][k].fd \in Dup
                PROVE  HasInput(InfoSockets[t][k].fd)'
    BY <1>3, <1>18 DEF ReadyMeansInput
  <2>1. k \in 1..Len(InfoSockets[t])
    BY <1>4, <1>5, <1>7
  <2>2. InfoSockets'[t][k].fd = InfoSockets[t][k].fd
    BY <1>7, <2>1
  <2>3. HasInput(InfoSockets[t][k].fd)
    BY <1>18, <2>1, <2>2 DEF IInv, ReadyMeansInput
  <2>4. sock'[InfoSockets[t][k].fd] = sock[InfoSockets[t][k].fd]
    BY <1>4, <1>6, <1>8, <2>1
  <2>. QED
    BY <2>2, <2>3, <2>4 DEF HasInput
<1>20. VisitedServed'
  BY <1>18 DEF VisitedServed
<1>. QED
  BY <1>11, <1>13, <1>14, <1>15, <1>16, <1>17, <1>19, <1>20 DEF IInv

\* The three ways a connection is accepted.
LEMMA AcceptReturningStep ==
    ASSUME IInv, NEW p \in Port, AcceptReturning(p)
    PROVE  IInv'
<1>. DEFINE s == SrvOf(p)
            saved == InfoWifisDeconnected[s]
            d == IndexByCID(saved, Head(backlog[p]).cid)
<1>1. /\ Incoming(p) /\ d # 0
      /\ Admit(p, InfoSockets[s], RemoveAt(saved, d), saved[d].coo, saved[d].name)
  BY DEF AcceptReturning
<1>2. /\ s \in Srv /\ saved \in Seq(InfoWifi) /\ InfoSockets[s] \in Seq(InfoSocket)
      /\ Len(InfoSockets[s]) = Len(InfoSockets[s])
  <2>1. s \in Srv
    BY DEF SrvOf, Srv
  <2>. QED
    BY <2>1 DEF IInv, TypeOK
<1>3. d \in 1..Len(saved)
  BY <1>1, <1>2, IndexByCIDProperties
<1>4. saved[d] \in InfoWifi /\ RemoveAt(saved, d) \in Seq(InfoWifi)
  <2>. HIDE DEF d, saved
  <2>. QED
    BY <1>2, <1>3, RemoveAtProperties, ElementOfSeq
<1>5. saved[d].coo \in Coo /\ saved[d].name \in Names
  BY <1>4 DEF InfoWifi
<1>. QED
  BY <1>1, <1>2, <1>4, <1>5, AdmitStep

\* An enabled connection of the same guest gives its place up.
LEMMA AcceptTakeoverStep ==
    ASSUME IInv, NEW p \in Port, AcceptTakeover(p)
    PROVE  IInv'
<1>. DEFINE s == SrvOf(p)
            cid == Head(backlog[p]).cid
            w == EnabledIndexByCID(InfoSockets[s], InfoWifis[s], cid)
            ss == DisableClients(InfoSockets[s], {w})
<1>1. /\ Incoming(p) /\ w # 0
      /\ Admit(p, ss, InfoWifisDeconnected[s], InfoWifis[s][w].coo, InfoWifis[s][w].name)
  BY DEF AcceptTakeover
<1>2. /\ s \in Srv /\ InfoWifisDeconnected[s] \in Seq(InfoWifi) /\ InfoWifis[s] \in Seq(InfoWifi)
      /\ InfoSockets[s] \in Seq([fd : ClientFd, enable : BOOLEAN])
  <2>1. s \in Srv
    BY DEF SrvOf, Srv
  <2>. QED
    BY <2>1 DEF IInv, TypeOK, InfoSocket
<1>3. w \in 1..Len(InfoWifis[s])
  BY <1>1, <1>2, EnabledIndexProperties
<1>4. /\ ss \in Seq(InfoSocket) /\ Len(ss) = Len(InfoSockets[s])
      /\ \A k \in 1..Len(ss) : ss[k].fd = InfoSockets[s][k].fd
  <2>. DEFINE L == InfoSockets[s]
              I == {w}
  <2>1. /\ DisableClients(L, I) \in Seq([fd : ClientFd, enable : BOOLEAN])
        /\ Len(DisableClients(L, I)) = Len(L)
        /\ \A k \in 1..Len(L) : DisableClients(L, I)[k].fd = L[k].fd
    <3>1. L \in Seq([fd : ClientFd, enable : BOOLEAN])
      BY <1>2
    <3>. HIDE DEF L, I
    <3>. QED
      BY <3>1, DisableClientsProperties, SMTT(30)
  <2>. QED
    BY <2>1 DEF InfoSocket
<1>5. InfoWifis[s][w] \in InfoWifi
  BY <1>2, <1>3, ElementOfSeq
<1>6. InfoWifis[s][w].coo \in Coo /\ InfoWifis[s][w].name \in Names
  BY <1>5 DEF InfoWifi
<1>. HIDE DEF ss, w
<1>. QED
  BY <1>1, <1>2, <1>4, <1>6, AdmitStep

\* A guest the server does not know.
LEMMA AcceptNewStep ==
    ASSUME IInv, NEW p \in Port, AcceptNew(p)
    PROVE  IInv'
<1>. DEFINE s == SrvOf(p)
<1>1. Incoming(p) /\ Admit(p, InfoSockets[s], InfoWifisDeconnected[s], DefaultCoo, DefaultName)
  BY DEF AcceptNew
<1>2. s \in Srv
  BY DEF SrvOf, Srv
<1>3. InfoWifisDeconnected[s] \in Seq(InfoWifi) /\ InfoSockets[s] \in Seq(InfoSocket)
  BY <1>2 DEF IInv, TypeOK
<1>. QED
  BY <1>1, <1>3, AdmitStep, ConstantsAssumption

\* CloseAllClient: the lists are empty, and the scheduler is back to the
\* listening sockets.
LEMMA CloseAllClientStep == IInv /\ CloseAllClient => IInv'
<1>. SUFFICES ASSUME IInv, CloseAllClient PROVE IInv'
  OBVIOUS
<1>1. ReceiveOrder({"close"})
  BY DEF CloseAllClient
<1>2. /\ orders' \in Seq(Order) /\ pc = "CTRL" /\ pc' = "wifi"
      /\ UNCHANGED <<Dup, index, served, backlog, settings>>
  BY <1>1, OrderFacts DEF CloseAllClient, Succ
<1>3. InfoSockets' = [s \in Srv |-> <<>>] /\ InfoWifis' = [s \in Srv |-> <<>>]
  BY DEF CloseAllClient
<1>4. Listed' = {}
  BY <1>3 DEF Listed, Descriptors
<1>5. scheduler' \in SelectType(MaxFd) /\ WaitsOn(scheduler', Listener)
  <2>1. /\ MaxFd \in Nat /\ scheduler \in SelectType(MaxFd)
        /\ Listener \cup Listed \in SUBSET (0..MaxFd)
        /\ WaitsOn(scheduler, Listener \cup Listed)
    BY ListenerFacts, ListedIsOpen DEF IInv, TypeOK, SchedulerExact
  <2>2. Listed \cap Listener = {}
    BY ListenerFacts, ListedIsOpen DEF IInv
  <2>3. (Listener \cup Listed) \ Listed = Listener /\ Listed \in SUBSET (Listener \cup Listed)
    BY <2>2
  <2>4. scheduler' = DelNodes(scheduler, Listed)
    BY DEF CloseAllClient, Listed
  <2>5. DelNodes(scheduler, Listed) \in SelectType(MaxFd)
        /\ WaitsOn(DelNodes(scheduler, Listed), (Listener \cup Listed) \ Listed)
    BY <2>1, <2>3, ListenerFacts, DelNodesExact
  <2>. QED
    BY <2>3, <2>4, <2>5
<1>6. SchedulerExact'
  BY <1>4, <1>5 DEF SchedulerExact
<1>7. TypeOK'
  <2>1. /\ InfoSockets' \in [Srv -> Seq(InfoSocket)] /\ InfoWifis' \in [Srv -> Seq(InfoWifi)]
    BY <1>3, EmptySeq
  <2>2. InfoWifisDeconnected' \in [Srv -> Seq(InfoWifi)]
    <3>1. ASSUME NEW s \in Srv
          PROVE  AddAllDeconnected(InfoWifisDeconnected[s], MaxDeconnected[s], InfoWifis[s])
                     \in Seq(InfoWifi)
      <4>1. MaxDeconnected[s] \in Nat \ {0}
        BY ConstantsAssumption
      <4>. QED
        BY <4>1, ListFacts, AddAllDeconnectedType DEF IInv
    <3>. QED
      BY <3>1 DEF CloseAllClient
  <2>3. sock' \in [ClientFd -> Connection \cup {NoConnection}]
    BY DEF CloseAllClient, CloseFds, IInv, TypeOK
  <2>. QED
    BY <1>2, <1>5, <2>1, <2>2, <2>3 DEF IInv, TypeOK, settings, Phase, Srv
<1>8. \A s \in Srv : Unvisited(s)' = {} /\ 1..Len(InfoSockets'[s]) = {}
  <2>1. index = 1
    BY <1>2 DEF IInv, IndexAtStart, Upcoming
  <2>2. \A s \in Srv : Len(InfoSockets'[s]) = 0
    BY <1>3
  <2>. QED
    BY <1>2, <2>1, <2>2 DEF Unvisited, Srv
<1>9. Aligned' /\ DistinctDescriptors' /\ ReadyMeansInput' /\ VisitedServed'
  <2>1. \A s \in Srv : Len(InfoSockets'[s]) = Len(InfoWifis'[s])
    BY <1>3
  <2>. QED
    BY <1>8, <2>1 DEF Aligned, DistinctDescriptors, ReadyMeansInput, VisitedServed
<1>10. AcceptNeverBlocks' /\ DupIsOpen' /\ IndexAtStart'
  BY <1>2 DEF AcceptNeverBlocks, DupIsOpen, IndexAtStart, Upcoming, Port
<1>. QED
  BY <1>6, <1>7, <1>9, <1>10 DEF IInv

-----------------------------------------------------------------------------
\* A step that changes nothing: the server waits, or has exited.
LEMMA StutteringStep == IInv /\ UNCHANGED vars => IInv'
<1>. SUFFICES ASSUME IInv, UNCHANGED vars PROVE IInv'
  OBVIOUS
<1>1. /\ UNCHANGED <<lists, scheduler, Dup, settings, pc, index, served>>
      /\ sock' = sock /\ backlog' = backlog /\ orders' = orders
  BY DEF vars, kernel
<1>2. \A f \in ClientFd : HasInput(f)' = HasInput(f)
  BY <1>1 DEF HasInput
<1>. QED
  BY <1>1, <1>2, EnvironmentFrame DEF IInv, TypeOK

\* Every step of the server and of its environment preserves IInv.
LEMMA NextIInv == IInv /\ [Next]_vars => IInv'
<1>. SUFFICES ASSUME IInv, [Next]_vars PROVE IInv'
  OBVIOUS
<1>1. CASE Wait
  BY <1>1, WaitStep
<1>2. ASSUME NEW p \in Port, Accepting(p) PROVE IInv'
  BY <1>2, AcceptNothingStep, AcceptFailsStep, AcceptReturningStep, AcceptTakeoverStep,
     AcceptNewStep DEF Accepting
<1>3. CASE Controlling
  BY <1>3, NoOrderStep, AnswerStep, AnswerKilledStep, ChangeCoordinateStep, SetNameStep,
     ChangePacketLossStep, SetScaleStep, CloseAllClientStep DEF Controlling
<1>4. ASSUME NEW s \in Srv, Forwarding(s) PROVE IInv'
  BY <1>4, ForwardRemoveStep, ForwardIdleStep, ForwardRecvErrorStep, ForwardFrameStep,
     ForwardKilledStep, ForwardDoneStep DEF Forwarding
<1>5. CASE Environment
  BY <1>5, EnvironmentStep
<1>6. CASE UNCHANGED vars
  BY <1>6, StutteringStep
<1>. QED
  BY <1>1, <1>2, <1>3, <1>4, <1>5, <1>6 DEF Next, ServerStep, Exited

\* The inductive invariant holds in every reachable state.
THEOREM Inductive == Spec => []IInv
<1>1. Init => IInv
  BY InitIInv
<1>2. IInv /\ [Next]_vars => IInv'
  BY NextIInv
<1>. QED
  BY <1>1, <1>2, PTL DEF Spec

\* Type correctness.
THEOREM TypeCorrect == Spec => []TypeOK
<1>1. IInv => TypeOK
  BY DEF IInv
<1>. QED
  BY <1>1, Inductive, PTL

\* The two vectors of a CWifiServer stay parallel through every accept,
\* removal and close, and every listed descriptor is open and belongs to the
\* guest whose CInfoWifi stands at its index.
THEOREM VectorsAligned == Spec => []Aligned
<1>1. IInv => Aligned
  BY DEF IInv
<1>. QED
  BY <1>1, Inductive, PTL

\* No descriptor is listed twice, although the kernel hands the numbers of
\* closed connections out again.
THEOREM DescriptorsDistinct == Spec => []DistinctDescriptors
<1>1. IInv => DistinctDescriptors
  BY DEF IInv
<1>. QED
  BY <1>1, Inductive, PTL

\* The scheduler waits on the listening sockets and the listed connections,
\* each once, and MaxDescriptor is the largest of them.
THEOREM SchedulerIsExact == Spec => []SchedulerExact
<1>1. IInv => SchedulerExact
  BY DEF IInv
<1>. QED
  BY <1>1, Inductive, PTL

\* The server never calls accept() on a socket where nobody waits.
THEOREM AcceptDoesNotBlock == Spec => []AcceptNeverBlocks
<1>1. IInv => AcceptNeverBlocks
  BY DEF IInv
<1>. QED
  BY <1>1, Inductive, PTL

\* ForwardData never starts to read from a connection that has no input.
THEOREM ReadDoesNotBlock == Spec => []ReadyMeansInput
<1>1. IInv => ReadyMeansInput
  BY DEF IInv
<1>. QED
  BY <1>1, Inductive, PTL

\* Erasing connections while ForwardData runs over the list makes it skip no
\* connection that pselect reported.
THEOREM AllReadyServed == Spec => []EveryReadyServed
<1>1. IInv => EveryReadyServed
  <2>1. pc = "Wait" => \A s \in Srv : Unvisited(s) = {}
    BY DEF Unvisited, Srv
  <2>. QED
    BY <2>1 DEF IInv, VisitedServed, EveryReadyServed, Enabled
<1>. QED
  BY <1>1, Inductive, PTL

-----------------------------------------------------------------------------
(***************************************************************************)
(* A connection is read once in an iteration                               *)
(***************************************************************************)

\* A connection that ForwardData has still to visit was not read in this
\* iteration; before it starts, nothing was.
NotYetServed ==
    /\ \A s \in Srv : \A k \in Unvisited(s) : InfoSockets[s][k].fd \notin served
    /\ pc \in Upcoming("CTRL") => served = {}

\* It holds at the start.
LEMMA InitNotYetServed == Init => NotYetServed
  BY DEF Init, NotYetServed

\* Before ForwardData starts nothing is read.
LEMMA BeforeForwarding ==
    ASSUME IInv, NotYetServed, Wait \/ (\E p \in Port : Accepting(p)) \/ Controlling
    PROVE  served' = {} /\ (served = {} \/ Wait) /\ NotYetServed'
<1>1. CASE Wait
  BY <1>1 DEF Wait, NotYetServed
<1>2. ASSUME NEW p \in Port, Accepting(p) PROVE served' = {} /\ served = {}
  <2>1. pc = p /\ served' = served
    BY <1>2, Zenon DEF Accepting, AcceptNothing, AcceptFails, AcceptReturning, AcceptTakeover,
       AcceptNew, Incoming, Admit
  <2>. QED
    BY <2>1 DEF NotYetServed, Upcoming, Port
<1>3. CASE Controlling
  <2>1. pc = "CTRL" /\ served' = served
    BY <1>3, Zenon DEF Controlling, NoOrder, Answer, AnswerKilled, ChangeCoordinate, SetName,
       ChangePacketLoss, SetScale, CloseAllClient, ReceiveOrder
  <2>. QED
    BY <2>1 DEF NotYetServed, Upcoming
<1>. QED
  BY <1>1, <1>2, <1>3 DEF NotYetServed

\* Where the connections that are still to be visited stand after a removal.
LEMMA RemovedUnserved ==
    ASSUME IInv, NotYetServed, NEW s \in Srv, Visiting(s), RemoveClient(s, index),
           pc' = pc, index' = index, served' \subseteq served \cup {InfoSockets[s][index].fd}
    PROVE  NotYetServed'
<1>1. /\ pc = s /\ index \in 1..Len(InfoSockets[s]) /\ Len(InfoSockets[s]) \in Nat
      /\ InfoSockets \in [Srv -> Seq(InfoSocket)]
  BY ListFacts DEF Visiting, IInv, TypeOK
<1>2. PICK rest : rest = RemoveAt(InfoSockets[s], index)
  OBVIOUS
<1>3. /\ rest \in Seq(InfoSocket) /\ Len(rest) = Len(InfoSockets[s]) - 1
      /\ \A j \in 1..(Len(InfoSockets[s]) - 1) :
            rest[j] = IF j < index THEN InfoSockets[s][j] ELSE InfoSockets[s][j + 1]
  <2>1. PICK l \in Seq(InfoSocket) : l = InfoSockets[s]
    BY <1>1
  <2>. QED
    BY <1>1, <1>2, <2>1, RemoveAtProperties
<1>4. InfoSockets'[s] = rest /\ \A t \in Srv \ {s} : InfoSockets'[t] = InfoSockets[t]
  BY <1>1, <1>2 DEF RemoveClient
<1>5. ASSUME NEW t \in Srv, NEW k \in Unvisited(t)' PROVE InfoSockets'[t][k].fd \notin served'
  <2>1. PICK j \in Unvisited(t) : /\ InfoSockets'[t][k].fd = InfoSockets[t][j].fd
                                  /\ (t = s => j # index)
    <3>1. CASE t = s
      <4>1. k \in index..Len(rest) /\ Unvisited(t) = index..Len(InfoSockets[s])
        BY <1>1, <1>4, <1>5, <3>1 DEF Unvisited, Srv
      <4>2. k + 1 \in Unvisited(t) /\ k + 1 # index /\ rest[k] = InfoSockets[s][k + 1]
        BY <1>1, <1>3, <4>1
      <4>. QED
        BY <1>4, <3>1, <4>2
    <3>2. CASE t # s
      <4>1. k \in Unvisited(t)
        BY <1>1, <1>4, <1>5, <3>2 DEF Unvisited, Srv
      <4>. QED
        BY <1>4, <3>2, <4>1
    <3>. QED
      BY <3>1, <3>2
  <2>2. j \in 1..Len(InfoSockets[t])
    BY UnvisitedInList DEF IInv
  <2>3. InfoSockets[t][j].fd # InfoSockets[s][index].fd
    BY <1>1, <2>1, <2>2 DEF IInv, DistinctDescriptors
  <2>4. InfoSockets[t][j].fd \notin served
    BY <2>1 DEF NotYetServed
  <2>. QED
    BY <2>1, <2>3, <2>4
<1>6. pc' \notin Upcoming("CTRL")
  BY <1>1 DEF Upcoming, Srv
<1>. QED
  BY <1>5, <1>6 DEF NotYetServed

\* A frame is read once: the loop goes on to the next connection.
LEMMA FrameUnserved ==
    ASSUME IInv, NotYetServed, NEW s \in Srv, ForwardFrame(s)
    PROVE  NotYetServed'
<1>1. PICK f \in ClientFd : Reading(s, f) /\ served' = served \cup {f}
  BY DEF ForwardFrame
<1>2. PICK failed, otherFailed : InfoSockets' = [t \in Srv |->
                  DisableClients(InfoSockets[t], IF t = s THEN failed ELSE otherFailed)]
  <2>1. PICK lost \in SUBSET MayBeLost(s, s) :
           \E failed \in SUBSET {k \in Targets(s, s) \ lost : SendMayFail(InfoSockets[s][k].fd)} :
           \E otherFailed \in SUBSET {k \in Targets(s, OtherSrv(s)) :
                                        SendMayFail(InfoSockets[OtherSrv(s)][k].fd)} :
              InfoSockets' = [t \in Srv |->
                  DisableClients(InfoSockets[t], IF t = s THEN failed ELSE otherFailed)]
    BY ZenonT(60) DEF ForwardFrame
  <2>2. PICK failed : \E otherFailed :
              InfoSockets' = [t \in Srv |->
                  DisableClients(InfoSockets[t], IF t = s THEN failed ELSE otherFailed)]
    BY <2>1, ZenonT(60)
  <2>. QED
    BY <2>2, ZenonT(60)
<1>3. /\ pc' = pc /\ index' = index + 1
      /\ pc = s /\ index \in 1..Len(InfoSockets[s])
      /\ f = InfoSockets[s][index].fd
  BY <1>1, ListFacts DEF ForwardFrame, Reading, Visiting, IInv, TypeOK
<1>4. ASSUME NEW t \in Srv
      PROVE  /\ Len(InfoSockets'[t]) = Len(InfoSockets[t]) /\ Len(InfoSockets[t]) \in Nat
             /\ \A k \in 1..Len(InfoSockets[t]) : InfoSockets'[t][k].fd = InfoSockets[t][k].fd
  <2>1. PICK l \in Seq([fd : ClientFd, enable : BOOLEAN]) : l = InfoSockets[t]
    BY DEF IInv, TypeOK, InfoSocket
  <2>2. PICK gone : gone = IF t = s THEN failed ELSE otherFailed
    OBVIOUS
  <2>3. InfoSockets'[t] = DisableClients(l, gone)
    BY <1>2, <2>1, <2>2
  <2>4. /\ Len(DisableClients(l, gone)) = Len(l) /\ Len(l) \in Nat
        /\ \A k \in 1..Len(l) :
              /\ DisableClients(l, gone)[k].fd = l[k].fd
              /\ DisableClients(l, gone)[k].enable => l[k].enable
    <3>1. Len(l) \in Nat
      BY LenProperties
    <3>. QED
      BY <3>1, DisableClientsProperties, Zenon
  <2>. QED
    BY <2>1, <2>3, <2>4
<1>5. ASSUME NEW t \in Srv, NEW k \in Unvisited(t)' PROVE InfoSockets'[t][k].fd \notin served'
  <2>1. k \in Unvisited(t) /\ (t = s => k # index)
    BY <1>3, <1>4, <1>5 DEF Unvisited, Srv
  <2>2. k \in 1..Len(InfoSockets[t])
    BY <2>1, UnvisitedInList DEF IInv
  <2>3. InfoSockets[t][k].fd # f
    BY <1>3, <2>1, <2>2 DEF IInv, DistinctDescriptors
  <2>. QED
    BY <1>1, <1>4, <2>1, <2>2, <2>3 DEF NotYetServed
<1>6. pc' \notin Upcoming("CTRL")
  BY <1>3 DEF Upcoming, Srv
<1>. QED
  BY <1>5, <1>6 DEF NotYetServed

\* The steps of ForwardData.
LEMMA ForwardingUnserved ==
    ASSUME IInv, NotYetServed, NEW s \in Srv, Forwarding(s)
    PROVE  NotYetServed'
<1>1. CASE ForwardRemove(s)
  BY <1>1, RemovedUnserved DEF ForwardRemove
<1>2. CASE ForwardRecvError(s)
  <2>1. PICK f \in ClientFd : /\ Reading(s, f) /\ served' = served \cup {f}
                              /\ RemoveClient(s, index) /\ pc' = pc /\ index' = index
    BY <1>2 DEF ForwardRecvError
  <2>. QED
    BY <2>1, RemovedUnserved DEF Reading
<1>3. CASE ForwardFrame(s)
  BY <1>3, FrameUnserved
<1>4. CASE ForwardIdle(s) \/ ForwardKilled(s) \/ ForwardDone(s)
  <2>1. /\ InfoSockets' = InfoSockets /\ served' = served /\ index \in Nat
        /\ pc = s /\ \A t \in Srv : Len(InfoSockets[t]) \in Nat
    BY <1>4, ListFacts DEF ForwardIdle, ForwardKilled, ForwardDone, Reading, Visiting, lists, IInv,
       TypeOK
  <2>2. \/ pc' = pc /\ index' = index + 1
        \/ pc' = "Exited"
        \/ pc' = Succ(pc) /\ index' = 1
    BY <1>4 DEF ForwardIdle, ForwardKilled, ForwardDone
  <2>3. (\A t \in Srv : Unvisited(t)' \subseteq Unvisited(t)) /\ pc' \notin Upcoming("CTRL")
    BY <2>1, <2>2 DEF Unvisited, Succ, Srv, Upcoming
  <2>. QED
    BY <2>1, <2>3 DEF NotYetServed
<1>. QED
  BY <1>1, <1>2, <1>3, <1>4 DEF Forwarding

\* Guests, spies and vwifi-ctrl change neither the lists nor the loop.
LEMMA QuietUnserved ==
    ASSUME NotYetServed, Environment \/ UNCHANGED vars
    PROVE  NotYetServed' /\ served' = served
<1>1. UNCHANGED <<InfoSockets, pc, index, served>>
  BY Zenon DEF Environment, GuestConnect, GuestSend, GuestClose, GuestAbort, CtrlConnect, vars, lists
<1>. QED
  BY <1>1 DEF NotYetServed, Unvisited

\* A frame is taken from the connection that is visited, and from no other.
LEMMA ForwardingReads ==
    ASSUME IInv, NotYetServed, NEW s \in Srv, Forwarding(s), NEW f \in ClientFd, f \in served
    PROVE  sock'[f] = sock[f]
<1>0. sock \in [ClientFd -> Connection \cup {NoConnection}]
  BY DEF IInv, TypeOK
<1>1. Visiting(s) => InfoSockets[s][index].fd # f
  BY ListFacts DEF Visiting, NotYetServed, Unvisited, Srv, IInv, TypeOK
<1>2. CASE ForwardRemove(s) \/ ForwardRecvError(s)
  <2>1. Visiting(s) /\ RemoveClient(s, index)
    BY <1>2 DEF ForwardRemove, ForwardRecvError, Reading
  <2>. QED
    BY <1>1, <2>1 DEF RemoveClient, CloseFds
<1>3. CASE ForwardFrame(s)
  <2>1. PICK g \in ClientFd : Reading(s, g) /\ sock' = [sock EXCEPT ![g].unread = @ - 1]
    BY <1>3 DEF ForwardFrame
  <2>2. g # f
    BY <1>1, <2>1 DEF Reading
  <2>. QED
    BY <1>0, <2>1, <2>2
<1>4. CASE ForwardIdle(s) \/ ForwardKilled(s) \/ ForwardDone(s)
  BY <1>4 DEF ForwardIdle, ForwardKilled, ForwardDone, kernel
<1>. QED
  BY <1>2, <1>3, <1>4 DEF Forwarding

\* Guests only add to what can be read.
LEMMA EnvironmentReads ==
    ASSUME IInv, Environment, NEW f \in ClientFd
    PROVE  sock'[f].unread >= sock[f].unread
<1>0. sock \in [ClientFd -> Connection \cup {NoConnection}] /\ sock[f].unread \in Nat
  BY DEF IInv, TypeOK, Connection, NoConnection
<1>1. ASSUME NEW g \in ClientFd, GuestSend(g) \/ GuestClose(g)
      PROVE  sock'[f].unread >= sock[f].unread
  <2>1. sock[g] \in Connection
    BY <1>0, <1>1 DEF GuestSend, GuestClose, NoConnection
  <2>2. CASE GuestSend(g)
    <3>1. PICK c : c = [sock[g] EXCEPT !.unread = sock[g].unread + 1]
      OBVIOUS
    <3>2. c.unread = sock[g].unread + 1 /\ sock' = [sock EXCEPT ![g] = c]
      BY <2>1, <2>2, <3>1 DEF GuestSend, Connection
    <3>. QED
      BY <1>0, <3>2
  <2>3. CASE GuestClose(g)
    <3>1. PICK c : c = [sock[g] EXCEPT !.open = FALSE]
      OBVIOUS
    <3>2. c.unread = sock[g].unread /\ sock' = [sock EXCEPT ![g] = c]
      BY <2>1, <2>3, <3>1 DEF GuestClose, Connection
    <3>. QED
      BY <1>0, <3>2
  <2>. QED
    BY <1>1, <2>2, <2>3
<1>2. CASE UNCHANGED sock
  BY <1>0, <1>2
<1>. QED
  BY <1>1, <1>2, Zenon DEF Environment, GuestConnect, GuestAbort, CtrlConnect

\* ForwardData takes at most one frame from a connection in an iteration of the
\* loop, although it erases connections while it runs and descriptors are
\* handed out again: a guest that always has something to say does not keep
\* the server from the others.
THEOREM ReadsOnce == Spec => ReadOnce
<1>1. IInv /\ NotYetServed /\ [Next]_vars => NotYetServed'
  BY BeforeForwarding, ForwardingUnserved, QuietUnserved DEF Next, ServerStep, Exited
<1>2. IInv /\ NotYetServed /\ [Next]_vars
        => [\A f \in ClientFd : f \in served /\ f \in served' => sock'[f].unread >= sock[f].unread]_vars
  <2>. SUFFICES ASSUME IInv, NotYetServed, Next, NEW f \in ClientFd, f \in served, f \in served'
                PROVE  sock'[f].unread >= sock[f].unread
    OBVIOUS
  <2>0. sock[f].unread \in Nat
    BY DEF IInv, TypeOK, Connection, NoConnection
  <2>1. CASE Wait \/ (\E p \in Port : Accepting(p)) \/ Controlling
    BY <2>1, BeforeForwarding
  <2>2. ASSUME NEW s \in Srv, Forwarding(s) PROVE sock'[f].unread >= sock[f].unread
    BY <2>0, <2>2, ForwardingReads
  <2>3. CASE Environment
    BY <2>3, EnvironmentReads
  <2>4. CASE Exited
    BY <2>0, <2>4 DEF Exited, vars, kernel
  <2>. QED
    BY <2>1, <2>2, <2>3, <2>4 DEF Next, ServerStep
<1>. QED
  BY <1>1, <1>2, InitNotYetServed, Inductive, PTL DEF Spec, ReadOnce

=============================================================================
