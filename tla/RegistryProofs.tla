--------------------------- MODULE RegistryProofs ---------------------------
(***************************************************************************)
(* What the lists of the server keep of every guest, for every number of   *)
(* guests and every order, as long as a guest connects again only after    *)
(* the server has removed its old connection (~Takeover): the server knows *)
(* each of them once, gives it back its place, and implements Registry.    *)
(***************************************************************************)
EXTENDS VwifiRegistry, VwifiServerProofs, FiniteSetTheorems

-----------------------------------------------------------------------------
(***************************************************************************)
(* Lists of entries with a cid                                             *)
(***************************************************************************)

\* No two entries of list l have the same cid.
Once(l) == \A j, k \in 1..Len(l) : l[j].cid = l[k].cid => j = k

\* No entry of list l has the cid of an entry of list m.
Apart(l, m) == \A j \in 1..Len(l), k \in 1..Len(m) : l[j].cid # m[k].cid

\* No entry of list l has this cid.
Without(l, cid) == \A j \in 1..Len(l) : l[j].cid # cid

\* The entries of m are some of those of l, as far as their cids go.
Thinned(m, l) ==
    \E h \in [1..Len(m) -> 1..Len(l)] :
        /\ \A i, j \in 1..Len(m) : h[i] = h[j] => i = j
        /\ \A j \in 1..Len(m) : m[j].cid = l[h[j]].cid

\* What some of the entries of a list keep.
LEMMA ThinnedKeeps ==
    ASSUME NEW m, NEW l, Thinned(m, l)
    PROVE  /\ Once(l) => Once(m)
           /\ \A x : Apart(l, x) => Apart(m, x)
           /\ \A x : Apart(x, l) => Apart(x, m)
           /\ \A cid : Without(l, cid) => Without(m, cid)
<1>1. PICK h \in [1..Len(m) -> 1..Len(l)] :
        /\ \A i, j \in 1..Len(m) : h[i] = h[j] => i = j
        /\ \A j \in 1..Len(m) : m[j].cid = l[h[j]].cid
  BY DEF Thinned
<1>2. \A j \in 1..Len(m) : h[j] \in 1..Len(l)
  BY <1>1
<1>3. Once(l) => Once(m)
  BY <1>1, <1>2 DEF Once
<1>4. \A x : Apart(l, x) => Apart(m, x)
  BY <1>1, <1>2 DEF Apart
<1>5. \A x : Apart(x, l) => Apart(x, m)
  BY <1>1, <1>2 DEF Apart
<1>6. \A cid : Without(l, cid) => Without(m, cid)
  BY <1>1, <1>2 DEF Without
<1>. QED
  BY <1>3, <1>4, <1>5, <1>6

\* A list whose entries have kept their cids.
LEMMA SameThinned ==
    ASSUME NEW m, NEW l, Len(m) = Len(l), \A j \in 1..Len(l) : m[j].cid = l[j].cid
    PROVE  Thinned(m, l)
<1>1. PICK h : h = [j \in 1..Len(m) |-> j]
  OBVIOUS
<1>2. /\ h \in [1..Len(m) -> 1..Len(l)]
      /\ \A i, j \in 1..Len(m) : h[i] = h[j] => i = j
      /\ \A j \in 1..Len(m) : m[j].cid = l[h[j]].cid
  BY <1>1
<1>. QED
  BY <1>2 DEF Thinned

\* A list without one of its entries, which was the only one of its cid.
LEMMA RemovedThinned ==
    ASSUME NEW S, NEW l \in Seq(S), NEW k \in 1..Len(l)
    PROVE  Thinned(RemoveAt(l, k), l) /\ (Once(l) => Without(RemoveAt(l, k), l[k].cid))
<1>0. Len(l) \in Nat
  BY LenProperties
<1>1. PICK m : m = RemoveAt(l, k)
  OBVIOUS
<1>2. /\ Len(m) = Len(l) - 1
      /\ \A j \in 1..(Len(l) - 1) : m[j] = IF j < k THEN l[j] ELSE l[j + 1]
  BY <1>1, RemoveAtProperties
<1>3. PICK h : h = [j \in 1..Len(m) |-> IF j < k THEN j ELSE j + 1]
  OBVIOUS
<1>4. \A j \in 1..Len(m) : h[j] \in 1..Len(l) /\ h[j] # k /\ m[j] = l[h[j]]
  BY <1>0, <1>2, <1>3
<1>5. \A i, j \in 1..Len(m) : h[i] = h[j] => i = j
  BY <1>0, <1>2, <1>3
<1>6. h \in [1..Len(m) -> 1..Len(l)]
  BY <1>3, <1>4
<1>7. Thinned(m, l)
  BY <1>4, <1>5, <1>6 DEF Thinned
<1>8. Once(l) => Without(m, l[k].cid)
  BY <1>4 DEF Once, Without
<1>. QED
  BY <1>1, <1>7, <1>8

\* What is left when the first entry is taken.
LEMMA TailThinned ==
    ASSUME NEW S, NEW l \in Seq(S), l # <<>>
    PROVE  Thinned(Tail(l), l) /\ (Once(l) => Without(Tail(l), Head(l).cid))
<1>1. PICK m : m = Tail(l)
  OBVIOUS
<1>2. /\ Len(l) \in Nat \ {0} /\ Len(m) = Len(l) - 1 /\ Head(l) = l[1]
      /\ \A j \in 1..Len(m) : m[j] = l[j + 1]
  BY <1>1
<1>3. PICK h : h = [j \in 1..Len(m) |-> j + 1]
  OBVIOUS
<1>4. \A j \in 1..Len(m) : h[j] \in 1..Len(l) /\ h[j] # 1 /\ m[j] = l[h[j]]
  BY <1>2, <1>3
<1>5. \A i, j \in 1..Len(m) : h[i] = h[j] => i = j
  BY <1>2, <1>3
<1>6. h \in [1..Len(m) -> 1..Len(l)]
  BY <1>3, <1>4
<1>7. Thinned(m, l)
  BY <1>4, <1>5, <1>6 DEF Thinned
<1>8. Once(l) => Without(m, Head(l).cid)
  <2>1. 1 \in 1..Len(l)
    BY <1>2
  <2>. QED
    BY <1>2, <1>4, <2>1 DEF Once, Without
<1>. QED
  BY <1>1, <1>7, <1>8

\* A list with one more entry at its end.
LEMMA AppendOnce ==
    ASSUME NEW S, NEW l \in Seq(S), NEW e \in S
    PROVE  /\ Once(l) /\ Without(l, e.cid) => Once(Append(l, e))
           /\ \A x : Apart(l, x) /\ Without(x, e.cid) => Apart(Append(l, e), x)
           /\ \A x : Apart(x, l) /\ Without(x, e.cid) => Apart(x, Append(l, e))
           /\ \A cid : Without(l, cid) /\ e.cid # cid => Without(Append(l, e), cid)
<1>1. PICK m : m = Append(l, e)
  OBVIOUS
<1>2. /\ Len(l) \in Nat /\ Len(m) = Len(l) + 1 /\ m[Len(l) + 1] = e
      /\ \A j \in 1..Len(l) : m[j] = l[j]
  BY <1>1, AppendProperties, LenProperties
<1>3. \A j \in 1..Len(m) : (j \in 1..Len(l) /\ m[j] = l[j]) \/ (j = Len(m) /\ m[j] = e)
  BY <1>2
<1>4. Once(l) /\ Without(l, e.cid) => Once(m)
  BY <1>3 DEF Once, Without
<1>5. \A x : Apart(l, x) /\ Without(x, e.cid) => Apart(m, x)
  BY <1>3 DEF Apart, Without
<1>6. \A x : Apart(x, l) /\ Without(x, e.cid) => Apart(x, m)
  BY <1>3 DEF Apart, Without
<1>7. \A cid : Without(l, cid) /\ e.cid # cid => Without(m, cid)
  BY <1>3 DEF Without
<1>. QED
  BY <1>1, <1>4, <1>5, <1>6, <1>7

\* Two lists, one behind the other.
LEMMA JoinedOnce ==
    ASSUME NEW S, NEW l \in Seq(S), NEW m \in Seq(S), Once(l), Once(m), Apart(l, m)
    PROVE  Once(l \o m)
<1>1. PICK x : x = l \o m
  OBVIOUS
<1>2. /\ Len(l) \in Nat /\ Len(m) \in Nat /\ Len(x) = Len(l) + Len(m)
      /\ \A j \in 1..(Len(l) + Len(m)) : x[j] = IF j <= Len(l) THEN l[j] ELSE m[j - Len(l)]
  BY <1>1, ConcatProperties, LenProperties
<1>3. ASSUME NEW j \in 1..Len(x)
      PROVE  \/ j <= Len(l) /\ j \in 1..Len(l) /\ x[j] = l[j]
             \/ j > Len(l) /\ j - Len(l) \in 1..Len(m) /\ x[j] = m[j - Len(l)]
  BY <1>2
<1>4. ASSUME NEW j \in 1..Len(x), NEW k \in 1..Len(x), x[j].cid = x[k].cid PROVE j = k
  <2>1. CASE j <= Len(l) /\ k <= Len(l)
    BY <1>2, <1>3, <1>4, <2>1 DEF Once
  <2>2. CASE j > Len(l) /\ k > Len(l)
    <3>1. j - Len(l) \in 1..Len(m) /\ x[j] = m[j - Len(l)]
      BY <1>2, <1>3, <2>2
    <3>2. k - Len(l) \in 1..Len(m) /\ x[k] = m[k - Len(l)]
      BY <1>2, <1>3, <2>2
    <3>3. PICK a \in 1..Len(m), b \in 1..Len(m) :
            a = j - Len(l) /\ b = k - Len(l) /\ x[j] = m[a] /\ x[k] = m[b]
      BY <3>1, <3>2, Zenon
    <3>4. a = b
      BY <1>4, <3>3 DEF Once
    <3>. QED
      BY <1>2, <3>3, <3>4
  <2>3. CASE j <= Len(l) /\ k > Len(l)
    BY <1>2, <1>3, <1>4, <2>3 DEF Apart
  <2>4. CASE j > Len(l) /\ k <= Len(l)
    BY <1>2, <1>3, <1>4, <2>4 DEF Apart
  <2>. QED
    BY <1>2, <2>1, <2>2, <2>3, <2>4
<1>. QED
  BY <1>1, <1>4 DEF Once

\* The last n entries.
LEMMA YoungestThinned ==
    ASSUME NEW S, NEW l \in Seq(S), NEW n \in Nat
    PROVE  Thinned(Youngest(l, n), l)
<1>0. Len(l) \in Nat
  BY LenProperties
<1>1. CASE Len(l) <= n
  BY <1>1, SameThinned DEF Youngest
<1>2. CASE ~(Len(l) <= n)
  <2>1. PICK m : m = SubSeq(l, Len(l) - n + 1, Len(l))
    OBVIOUS
  <2>2. /\ Len(m) = n /\ \A j \in 1..n : m[j] = l[Len(l) - n + j]
    <3>1. \A i \in (Len(l) - n + 1)..Len(l) : l[i] \in S
      BY <1>0, <1>2, LenProperties
    <3>2. Len(l) - n + 1 \in Int /\ Len(l) \in Int
      BY <1>0
    <3>3. /\ Len(m) = IF Len(l) - n + 1 <= Len(l) THEN Len(l) - (Len(l) - n + 1) + 1 ELSE 0
          /\ \A j \in 1..(Len(l) - (Len(l) - n + 1) + 1) : m[j] = l[Len(l) - n + 1 + j - 1]
      BY <2>1, <3>1, <3>2, SubSeqProperties
    <3>. QED
      BY <1>0, <1>2, <3>3
  <2>3. PICK h : h = [j \in 1..Len(m) |-> Len(l) - n + j]
    OBVIOUS
  <2>4. \A j \in 1..Len(m) : h[j] \in 1..Len(l) /\ m[j] = l[h[j]]
    BY <1>0, <1>2, <2>2, <2>3
  <2>5. \A i, j \in 1..Len(m) : h[i] = h[j] => i = j
    BY <1>0, <2>2, <2>3
  <2>6. h \in [1..Len(m) -> 1..Len(l)]
    BY <2>3, <2>4
  <2>7. Thinned(m, l)
    BY <2>4, <2>5, <2>6 DEF Thinned
  <2>. QED
    BY <1>2, <2>1, <2>7 DEF Youngest
<1>. QED
  BY <1>1, <1>2

\* AddInfoWifiDeconnected: one entry more, perhaps the oldest less.
LEMMA SavedOnce ==
    ASSUME NEW S, NEW l \in Seq(S), NEW e \in S, NEW max \in Nat \ {0},
           Once(l), Without(l, e.cid)
    PROVE  /\ Once(AddInfoWifiDeconnected(l, max, e))
           /\ \A x : Apart(x, l) /\ Without(x, e.cid)
                        => Apart(x, AddInfoWifiDeconnected(l, max, e))
<1>1. PICK m \in Seq(S) : /\ AddInfoWifiDeconnected(l, max, e) = Append(m, e)
                          /\ Thinned(m, l)
  <2>1. CASE Len(l) >= max
    <3>1. 1 \in 1..Len(l)
      BY <2>1, LenProperties
    <3>2. RemoveAt(l, 1) \in Seq(S) /\ Thinned(RemoveAt(l, 1), l)
      BY <3>1, RemoveAtProperties, RemovedThinned
    <3>. QED
      BY <2>1, <3>2 DEF AddInfoWifiDeconnected
  <2>2. CASE ~(Len(l) >= max)
    BY <2>2, SameThinned DEF AddInfoWifiDeconnected
  <2>. QED
    BY <2>1, <2>2
<1>2. Once(m) /\ Without(m, e.cid) /\ \A x : Apart(x, l) => Apart(x, m)
  BY <1>1, ThinnedKeeps
<1>. QED
  BY <1>1, <1>2, AppendOnce
-----------------------------------------------------------------------------
(***************************************************************************)
(* The invariant                                                           *)
(***************************************************************************)

\* The lists of server s know each guest once, connected or remembered.
KnownOnce(s) ==
    /\ Once(InfoWifis[s]) /\ Once(InfoWifisDeconnected[s])
    /\ Apart(InfoWifis[s], InfoWifisDeconnected[s])

\* The connections that wait on port p are of guests that are not connected,
\* each once.
WaitOnce(p) == Once(backlog[p]) /\ Apart(backlog[p], InfoWifis[SrvOf(p)])

\* The inductive invariant.  The guests' server has two ports, and nobody waits
\* on both.
RegistryInv ==
    /\ \A s \in Srv : KnownOnce(s)
    /\ \A p \in Port : WaitOnce(p)
    /\ Apart(backlog["VTCP"], backlog["ITCP"])

\* The types of the lists.
LEMMA ListTypes ==
    ASSUME IInv, NEW s \in Srv, NEW p \in Port
    PROVE  /\ InfoWifis[s] \in Seq(InfoWifi) /\ InfoWifisDeconnected[s] \in Seq(InfoWifi)
           /\ backlog[p] \in Seq(Connection) /\ SrvOf(p) \in Srv
           /\ MaxDeconnected[s] \in Nat \ {0}
  BY ConstantsAssumption DEF IInv, TypeOK, SrvOf, Srv

\* It holds when nobody is known.
LEMMA InitRegistry == Init => RegistryInv
<1>. SUFFICES ASSUME Init PROVE RegistryInv
  OBVIOUS
<1>1. /\ \A s \in Srv : Len(InfoWifis[s]) = 0 /\ Len(InfoWifisDeconnected[s]) = 0
      /\ \A p \in Port : Len(backlog[p]) = 0
  BY DEF Init
<1>2. "VTCP" \in Port /\ "ITCP" \in Port
  BY DEF Port
<1>. QED
  BY <1>1, <1>2 DEF RegistryInv, KnownOnce, WaitOnce, Once, Apart

\* Lists that lose entries, or keep their cids.
LEMMA FewerEntries ==
    ASSUME RegistryInv,
           \A s \in Srv : /\ Thinned(InfoWifis'[s], InfoWifis[s])
                          /\ Thinned(InfoWifisDeconnected'[s], InfoWifisDeconnected[s]),
           \A p \in Port : Thinned(backlog'[p], backlog[p])
    PROVE  RegistryInv'
<1>1. ASSUME NEW s \in Srv PROVE KnownOnce(s)'
  <2>1. KnownOnce(s) /\ Thinned(InfoWifis'[s], InfoWifis[s])
        /\ Thinned(InfoWifisDeconnected'[s], InfoWifisDeconnected[s])
    BY DEF RegistryInv
  <2>2. Once(InfoWifis'[s]) /\ Apart(InfoWifis'[s], InfoWifisDeconnected[s])
    BY <2>1, ThinnedKeeps DEF KnownOnce
  <2>3. Once(InfoWifisDeconnected'[s]) /\ Apart(InfoWifis'[s], InfoWifisDeconnected'[s])
    BY <2>1, <2>2, ThinnedKeeps DEF KnownOnce
  <2>. QED
    BY <2>2, <2>3 DEF KnownOnce
<1>2. ASSUME NEW p \in Port PROVE WaitOnce(p)'
  <2>1. WaitOnce(p) /\ Thinned(backlog'[p], backlog[p]) /\ SrvOf(p) \in Srv
        /\ Thinned(InfoWifis'[SrvOf(p)], InfoWifis[SrvOf(p)])
    BY DEF RegistryInv, SrvOf, Srv
  <2>2. Once(backlog'[p]) /\ Apart(backlog'[p], InfoWifis[SrvOf(p)])
    BY <2>1, ThinnedKeeps DEF WaitOnce
  <2>3. Apart(backlog'[p], InfoWifis'[SrvOf(p)])
    BY <2>1, <2>2, ThinnedKeeps
  <2>. QED
    BY <2>2, <2>3 DEF WaitOnce
<1>3. Apart(backlog'["VTCP"], backlog'["ITCP"])
  <2>1. /\ Thinned(backlog'["VTCP"], backlog["VTCP"]) /\ Thinned(backlog'["ITCP"], backlog["ITCP"])
        /\ Apart(backlog["VTCP"], backlog["ITCP"])
    BY DEF RegistryInv, Port
  <2>2. Apart(backlog'["VTCP"], backlog["ITCP"])
    BY <2>1, ThinnedKeeps
  <2>. QED
    BY <2>1, <2>2, ThinnedKeeps
<1>. QED
  BY <1>1, <1>2, <1>3 DEF RegistryInv

\* Lists that stay as they are.
LEMMA SameLists ==
    ASSUME RegistryInv, UNCHANGED <<InfoWifis, InfoWifisDeconnected, backlog>>
    PROVE  RegistryInv'
  BY SameThinned, FewerEntries

\* A guest moves to those that left, or is announced there by an order.
LEMMA OneSaved ==
    ASSUME IInv, RegistryInv, NEW s \in Srv, NEW e \in InfoWifi, backlog' = backlog,
           Without(InfoWifisDeconnected[s], e.cid), Without(InfoWifis'[s], e.cid),
           Thinned(InfoWifis'[s], InfoWifis[s]),
           \A t \in Srv \ {s} : InfoWifis'[t] = InfoWifis[t],
           InfoWifisDeconnected' = [InfoWifisDeconnected EXCEPT ![s] =
               AddInfoWifiDeconnected(InfoWifisDeconnected[s], MaxDeconnected[s], e)]
    PROVE  RegistryInv'
<1>1. /\ InfoWifisDeconnected \in [Srv -> Seq(InfoWifi)]
      /\ MaxDeconnected[s] \in Nat \ {0} /\ KnownOnce(s)
  BY ConstantsAssumption DEF IInv, TypeOK, RegistryInv
<1>2. PICK D \in Seq(InfoWifi) : D = InfoWifisDeconnected[s]
  BY <1>1
<1>3. PICK E : E = AddInfoWifiDeconnected(D, MaxDeconnected[s], e)
  OBVIOUS
<1>4. /\ InfoWifisDeconnected'[s] = E
      /\ \A t \in Srv \ {s} : InfoWifisDeconnected'[t] = InfoWifisDeconnected[t]
  BY <1>1, <1>2, <1>3
<1>5. Once(InfoWifis'[s]) /\ Apart(InfoWifis'[s], D)
  BY <1>1, <1>2, ThinnedKeeps DEF KnownOnce
<1>6. Once(E) /\ Apart(InfoWifis'[s], E)
  BY <1>1, <1>2, <1>3, <1>5, SavedOnce DEF KnownOnce
<1>7. ASSUME NEW t \in Srv PROVE KnownOnce(t)'
  <2>1. CASE t = s
    BY <1>4, <1>5, <1>6, <2>1 DEF KnownOnce
  <2>2. CASE t # s
    BY <1>4, <2>2 DEF KnownOnce, RegistryInv
  <2>. QED
    BY <2>1, <2>2
<1>8. ASSUME NEW p \in Port PROVE WaitOnce(p)'
  <2>1. WaitOnce(p) /\ SrvOf(p) \in Srv
    BY DEF RegistryInv, SrvOf, Srv
  <2>2. CASE SrvOf(p) = s
    BY <2>1, <2>2, ThinnedKeeps DEF WaitOnce
  <2>3. CASE SrvOf(p) # s
    BY <2>1, <2>3 DEF WaitOnce
  <2>. QED
    BY <2>2, <2>3
<1>. QED
  BY <1>7, <1>8 DEF RegistryInv

\* A connection is accepted: the guest is connected, and waits no longer.
LEMMA OneAdmitted ==
    ASSUME IInv, RegistryInv, NEW p \in Port, backlog[p] # <<>>,
           NEW ss, NEW D, NEW coo \in Coo, NEW name \in Names, Admit(p, ss, D, coo, name),
           Thinned(D, InfoWifisDeconnected[SrvOf(p)]), Without(D, Head(backlog[p]).cid)
    PROVE  RegistryInv'
<1>1. PICK s \in Srv : s = SrvOf(p)
  BY DEF SrvOf, Srv
<1>2. /\ InfoWifis \in [Srv -> Seq(InfoWifi)] /\ InfoWifisDeconnected \in [Srv -> Seq(InfoWifi)]
      /\ backlog \in [Port -> Seq(Connection)]
  BY DEF IInv, TypeOK
<1>3. PICK W \in Seq(InfoWifi), B \in Seq(Connection) : W = InfoWifis[s] /\ B = backlog[p]
  BY <1>1, <1>2
<1>4. PICK c \in Guest : c = Head(B).cid
  <2>1. Head(B) \in Connection
    BY <1>3, HeadTailProperties
  <2>. QED
    BY <2>1 DEF Connection
<1>5. PICK e \in InfoWifi : e = [cid |-> c, coo |-> coo, name |-> name] /\ e.cid = c
  <2>1. [cid |-> c, coo |-> coo, name |-> name] \in InfoWifi
    BY DEF InfoWifi
  <2>. QED
    BY <2>1
<1>6. /\ InfoWifis' = [InfoWifis EXCEPT ![s] = Append(W, e)]
      /\ InfoWifisDeconnected' = [InfoWifisDeconnected EXCEPT ![s] = D]
      /\ backlog' = [backlog EXCEPT ![p] = Tail(B)]
  BY <1>1, <1>3, <1>4, <1>5 DEF Admit
<1>7. /\ InfoWifis'[s] = Append(W, e) /\ InfoWifisDeconnected'[s] = D /\ backlog'[p] = Tail(B)
      /\ \A t \in Srv \ {s} : /\ InfoWifis'[t] = InfoWifis[t]
                               /\ InfoWifisDeconnected'[t] = InfoWifisDeconnected[t]
      /\ \A q \in Port \ {p} : backlog'[q] = backlog[q]
  BY <1>2, <1>6, Zenon
<1>8. /\ KnownOnce(s) /\ WaitOnce(p) /\ Once(W) /\ Once(B) /\ Apart(B, W)
      /\ Apart(W, InfoWifisDeconnected[s])
  BY <1>1, <1>3 DEF RegistryInv, KnownOnce, WaitOnce
<1>9. Thinned(Tail(B), B) /\ Without(Tail(B), c) /\ Once(Tail(B)) /\ Apart(Tail(B), W)
  BY <1>3, <1>4, <1>8, TailThinned, ThinnedKeeps
<1>10. Without(W, c)
  <2>1. 1 \in 1..Len(B) /\ Head(B) = B[1]
    BY <1>3
  <2>. QED
    BY <1>4, <1>8, <2>1 DEF Apart, Without
<1>11. Once(Append(W, e)) /\ Apart(Append(W, e), D) /\ Apart(Tail(B), Append(W, e)) /\ Once(D)
  <2>1. Once(D) /\ Apart(W, D) /\ Without(D, c)
    BY <1>1, <1>3, <1>4, <1>8, ThinnedKeeps DEF KnownOnce
  <2>. QED
    BY <1>5, <1>8, <1>9, <1>10, <2>1, AppendOnce
<1>12. ASSUME NEW t \in Srv PROVE KnownOnce(t)'
  <2>1. CASE t = s
    BY <1>7, <1>11, <2>1 DEF KnownOnce
  <2>2. CASE t # s
    BY <1>7, <2>2 DEF KnownOnce, RegistryInv
  <2>. QED
    BY <2>1, <2>2
<1>13. ASSUME NEW q \in Port PROVE WaitOnce(q)'
  <2>1. CASE q = p
    BY <1>1, <1>7, <1>9, <1>11, <2>1 DEF WaitOnce
  <2>2. CASE q # p /\ SrvOf(q) = s
    <3>1. Once(backlog[q]) /\ Apart(backlog[q], W)
      BY <1>3, <2>2 DEF RegistryInv, WaitOnce
    <3>2. Without(backlog[q], c)
      <4>1. Apart(B, backlog[q]) \/ Apart(backlog[q], B)
        BY <1>1, <1>3, <2>2 DEF RegistryInv, Port, SrvOf
      <4>2. 1 \in 1..Len(B) /\ Head(B) = B[1]
        BY <1>3
      <4>. QED
        BY <1>4, <4>1, <4>2 DEF Apart, Without
    <3>3. Apart(backlog[q], Append(W, e))
      BY <1>5, <3>1, <3>2, AppendOnce
    <3>. QED
      BY <1>7, <2>2, <3>1, <3>3 DEF WaitOnce
  <2>3. CASE q # p /\ SrvOf(q) # s
    <3>1. SrvOf(q) \in Srv \ {s}
      BY <2>3 DEF SrvOf, Srv
    <3>. QED
      BY <1>7, <2>3, <3>1 DEF WaitOnce, RegistryInv
  <2>. QED
    BY <2>1, <2>2, <2>3
<1>14. Apart(backlog'["VTCP"], backlog'["ITCP"])
  <2>0. Apart(backlog["VTCP"], backlog["ITCP"]) /\ "VTCP" \in Port /\ "ITCP" \in Port
    BY DEF RegistryInv, Port
  <2>1. CASE p = "VTCP"
    BY <1>3, <1>7, <1>9, <2>0, <2>1, ThinnedKeeps
  <2>2. CASE p = "ITCP"
    BY <1>3, <1>7, <1>9, <2>0, <2>2, ThinnedKeeps
  <2>3. CASE p # "VTCP" /\ p # "ITCP"
    BY <1>7, <2>0, <2>3
  <2>. QED
    BY <2>1, <2>2, <2>3
<1>. QED
  BY <1>12, <1>13, <1>14 DEF RegistryInv
-----------------------------------------------------------------------------
(***************************************************************************)
(* The steps                                                               *)
(***************************************************************************)

\* An entry that changes and keeps its cid.
LEMMA OneChanged ==
    ASSUME NEW L \in [Srv -> Seq(InfoWifi)], NEW s \in Srv, NEW k \in 1..Len(L[s]),
           NEW e \in InfoWifi, e.cid = L[s][k].cid,
           NEW M, M = [L EXCEPT ![s] = [L[s] EXCEPT ![k] = e]]
    PROVE  \A t \in Srv : Len(M[t]) = Len(L[t]) /\ Thinned(M[t], L[t])
<1>1. \A t \in Srv : /\ Len(M[t]) = Len(L[t])
                     /\ \A j \in 1..Len(L[t]) : M[t][j].cid = L[t][j].cid
  BY EntryChanged
<1>. QED
  BY <1>1, SameThinned

\* ChangeCoordinate: a guest that was never seen is announced; the others keep
\* their entries.
LEMMA CoordinateOnce ==
    ASSUME IInv, RegistryInv, ChangeCoordinate
    PROVE  RegistryInv' /\ \A s \in Srv : Len(InfoWifis'[s]) = Len(InfoWifis[s])
<1>. DEFINE o == Head(orders)
            saved == InfoWifisDeconnected["wifi"]
            w == IndexByCID(InfoWifis["wifi"], o.cid)
            d == IndexByCID(saved, o.cid)
<1>0. "wifi" \in Srv
  BY DEF Srv
<1>1. ReceiveOrder({"coordinate"}) /\ backlog' = backlog
  BY DEF ChangeCoordinate, ReceiveOrder
<1>2. o \in Order /\ o.type = "coordinate"
  BY <1>1, OrderFacts DEF ReceiveOrder
<1>3. o.cid \in CID /\ o.coo \in Coo
  BY <1>2 DEF Order
<1>4. /\ InfoWifis["wifi"] \in Seq(InfoWifi) /\ saved \in Seq(InfoWifi)
      /\ InfoWifis \in [Srv -> Seq(InfoWifi)] /\ InfoWifisDeconnected \in [Srv -> Seq(InfoWifi)]
  BY DEF IInv, TypeOK, Srv
<1>5. /\ w # 0 => w \in 1..Len(InfoWifis["wifi"]) /\ InfoWifis["wifi"][w] \in InfoWifi
      /\ d # 0 => d \in 1..Len(saved) /\ saved[d] \in InfoWifi
      /\ w = 0 => Without(InfoWifis["wifi"], o.cid)
      /\ d = 0 => Without(saved, o.cid)
  BY <1>4, IndexByCIDProperties, ElementOfSeq DEF Without
<1>6. \A p \in Port : Thinned(backlog'[p], backlog[p])
  BY <1>1, SameThinned
<1>7. CASE UNCHANGED <<InfoWifis, InfoWifisDeconnected>>
  BY <1>1, <1>7, SameLists
<1>8. CASE /\ w # 0 /\ UNCHANGED InfoWifisDeconnected
           /\ InfoWifis' = [InfoWifis EXCEPT !["wifi"][w].coo = o.coo]
  <2>. DEFINE e == [InfoWifis["wifi"][w] EXCEPT !.coo = o.coo]
  <2>1. e \in InfoWifi /\ e.cid = InfoWifis["wifi"][w].cid
    BY <1>3, <1>5, <1>8 DEF InfoWifi
  <2>2. InfoWifis' = [InfoWifis EXCEPT !["wifi"] = [InfoWifis["wifi"] EXCEPT ![w] = e]]
    BY <1>8
  <2>3. w \in 1..Len(InfoWifis["wifi"])
    BY <1>5, <1>8
  <2>. HIDE DEF e, w
  <2>4. \A t \in Srv : Thinned(InfoWifis'[t], InfoWifis[t])
    BY <1>0, <1>4, <2>1, <2>2, <2>3, OneChanged
  <2>6. \A t \in Srv : Len(InfoWifis'[t]) = Len(InfoWifis[t])
    BY <1>0, <1>4, <2>1, <2>2, <2>3, OneChanged
  <2>5. \A t \in Srv : Thinned(InfoWifisDeconnected'[t], InfoWifisDeconnected[t])
    BY <1>8, SameThinned
  <2>. QED
    BY <1>6, <2>4, <2>5, <2>6, FewerEntries
<1>9. CASE /\ d # 0 /\ UNCHANGED InfoWifis
           /\ InfoWifisDeconnected' = [InfoWifisDeconnected EXCEPT !["wifi"][d].coo = o.coo]
  <2>. DEFINE e == [saved[d] EXCEPT !.coo = o.coo]
  <2>1. e \in InfoWifi /\ e.cid = InfoWifisDeconnected["wifi"][d].cid
    BY <1>3, <1>5, <1>9 DEF InfoWifi
  <2>2. InfoWifisDeconnected' =
            [InfoWifisDeconnected EXCEPT !["wifi"] = [InfoWifisDeconnected["wifi"] EXCEPT ![d] = e]]
    BY <1>9
  <2>3. d \in 1..Len(InfoWifisDeconnected["wifi"])
    BY <1>5, <1>9
  <2>. HIDE DEF e, d
  <2>4. \A t \in Srv : Thinned(InfoWifisDeconnected'[t], InfoWifisDeconnected[t])
    BY <1>0, <1>4, <2>1, <2>2, <2>3, OneChanged
  <2>5. \A t \in Srv : Thinned(InfoWifis'[t], InfoWifis[t])
    BY <1>9, SameThinned
  <2>. QED
    BY <1>6, <1>9, <2>4, <2>5, FewerEntries
<1>10. CASE /\ o.cid >= TCID_GUEST_MIN /\ w = 0 /\ d = 0 /\ UNCHANGED InfoWifis
            /\ InfoWifisDeconnected' = [InfoWifisDeconnected EXCEPT !["wifi"] =
                   AddInfoWifiDeconnected(saved, MaxDeconnected["wifi"],
                       [cid |-> o.cid, coo |-> o.coo, name |-> DefaultName])]
  <2>1. PICK e \in InfoWifi : /\ e = [cid |-> o.cid, coo |-> o.coo, name |-> DefaultName]
                              /\ e.cid = o.cid
    <3>1. [cid |-> o.cid, coo |-> o.coo, name |-> DefaultName] \in InfoWifi
      BY <1>3, <1>10, ConstantsAssumption DEF InfoWifi, Guest
    <3>. QED
      BY <3>1
  <2>2. InfoWifisDeconnected' = [InfoWifisDeconnected EXCEPT !["wifi"] =
            AddInfoWifiDeconnected(InfoWifisDeconnected["wifi"], MaxDeconnected["wifi"], e)]
    BY <1>10, <2>1
  <2>3. Without(InfoWifisDeconnected["wifi"], e.cid) /\ Without(InfoWifis'["wifi"], e.cid)
    BY <1>5, <1>10, <2>1
  <2>4. Thinned(InfoWifis'["wifi"], InfoWifis["wifi"])
    BY <1>10, SameThinned
  <2>. HIDE DEF o, saved, w, d
  <2>5. RegistryInv'
    BY <1>0, <1>1, <1>10, <2>2, <2>3, <2>4, OneSaved
  <2>. QED
    BY <1>10, <2>5
<1>. QED
  BY <1>7, <1>8, <1>9, <1>10 DEF ChangeCoordinate

\* SetName: the entries keep their cids.
LEMMA NameOnce ==
    ASSUME IInv, RegistryInv, SetName
    PROVE  RegistryInv' /\ \A s \in Srv : Len(InfoWifis'[s]) = Len(InfoWifis[s])
<1>. DEFINE o == Head(orders)
<1>1. ReceiveOrder({"name"}) /\ backlog' = backlog
  BY DEF SetName, ReceiveOrder
<1>2. o \in Order /\ o.type = "name"
  BY <1>1, OrderFacts DEF ReceiveOrder
<1>3. o.cid \in CID /\ o.name \in Names
  BY <1>2 DEF Order
<1>4. InfoWifis \in [Srv -> Seq(InfoWifi)] /\ InfoWifisDeconnected \in [Srv -> Seq(InfoWifi)]
  BY DEF IInv, TypeOK
<1>5. ASSUME NEW L \in [Srv -> Seq(InfoWifi)], NEW s \in Srv, NEW k, k = IndexByCID(L[s], o.cid),
             k # 0, NEW M, M = [L EXCEPT ![s][k].name = o.name]
      PROVE  \A t \in Srv : Len(M[t]) = Len(L[t]) /\ Thinned(M[t], L[t])
  <2>1. L[s] \in Seq(InfoWifi)
    OBVIOUS
  <2>2. k \in 1..Len(L[s]) /\ L[s][k] \in InfoWifi
    BY <1>5, <2>1, IndexByCIDProperties, ElementOfSeq
  <2>3. PICK e \in InfoWifi : e = [L[s][k] EXCEPT !.name = o.name] /\ e.cid = L[s][k].cid
    <3>1. /\ [L[s][k] EXCEPT !.name = o.name] \in InfoWifi
          /\ [L[s][k] EXCEPT !.name = o.name].cid = L[s][k].cid
      BY <1>3, <2>2 DEF InfoWifi
    <3>. QED
      BY <3>1
  <2>4. M = [L EXCEPT ![s] = [L[s] EXCEPT ![k] = e]]
    BY <1>5, <2>3
  <2>. HIDE DEF o
  <2>. QED
    <3>1. \A t \in Srv : Thinned(M[t], L[t])
      BY <2>2, <2>3, <2>4, OneChanged
    <3>2. \A t \in Srv : Len(M[t]) = Len(L[t])
      BY <2>2, <2>3, <2>4, OneChanged
    <3>. QED
      BY <3>1, <3>2
<1>6. /\ \A s \in Srv : Len(InfoWifis'[s]) = Len(InfoWifis[s]) /\ Thinned(InfoWifis'[s], InfoWifis[s])
      /\ \A s \in Srv : Thinned(InfoWifisDeconnected'[s], InfoWifisDeconnected[s])
  <2>0. "wifi" \in Srv /\ "spy" \in Srv
    BY DEF Srv
  <2>1. \/ InfoWifis' = InfoWifis
        \/ \E s \in Srv : \E k : /\ k = IndexByCID(InfoWifis[s], o.cid) /\ k # 0
                                 /\ InfoWifis' = [InfoWifis EXCEPT ![s][k].name = o.name]
    BY <2>0 DEF SetName
  <2>2. \/ InfoWifisDeconnected' = InfoWifisDeconnected
        \/ \E k : /\ k = IndexByCID(InfoWifisDeconnected["wifi"], o.cid) /\ k # 0
                  /\ InfoWifisDeconnected' =
                         [InfoWifisDeconnected EXCEPT !["wifi"][k].name = o.name]
    BY DEF SetName
  <2>3. \A L \in [Srv -> Seq(InfoWifi)] : \A s \in Srv : Len(L[s]) = Len(L[s]) /\ Thinned(L[s], L[s])
    BY SameThinned
  <2>. HIDE DEF o
  <2>4. \A s \in Srv : Len(InfoWifis'[s]) = Len(InfoWifis[s]) /\ Thinned(InfoWifis'[s], InfoWifis[s])
    BY <1>4, <1>5, <2>1, <2>3
  <2>5. \A s \in Srv : Thinned(InfoWifisDeconnected'[s], InfoWifisDeconnected[s])
    BY <1>4, <1>5, <2>0, <2>2, <2>3
  <2>. QED
    BY <2>4, <2>5
<1>7. \A p \in Port : Thinned(backlog'[p], backlog[p])
  BY <1>1, SameThinned
<1>. QED
  BY <1>6, <1>7, FewerEntries

\* CloseAllClient: all guests leave at once; nobody is connected.
LEMMA CloseAllOnce ==
    ASSUME IInv, RegistryInv, CloseAllClient
    PROVE  RegistryInv' /\ \A s \in Srv : Len(InfoWifis'[s]) = 0
<1>1. backlog' = backlog /\ InfoWifis' = [s \in Srv |-> <<>>]
  BY DEF CloseAllClient, ReceiveOrder
<1>2. \A s \in Srv : Len(InfoWifis'[s]) = 0
  BY <1>1
<1>3. ASSUME NEW s \in Srv PROVE KnownOnce(s)'
  <2>1. PICK W \in Seq(InfoWifi), D \in Seq(InfoWifi) :
           W = InfoWifis[s] /\ D = InfoWifisDeconnected[s]
    BY DEF IInv, TypeOK
  <2>2. Once(D \o W)
    <3>1. Once(D) /\ Once(W) /\ Apart(D, W)
      BY <2>1 DEF RegistryInv, KnownOnce, Apart
    <3>. QED
      BY <3>1, JoinedOnce
  <2>3. PICK A \in Seq(InfoWifi) : A = D \o W
    BY ConcatProperties
  <2>4. InfoWifisDeconnected'[s] = Youngest(A, MaxDeconnected[s]) /\ MaxDeconnected[s] \in Nat
    BY <2>1, <2>3, ConstantsAssumption DEF CloseAllClient, AddAllDeconnected
  <2>5. Once(InfoWifisDeconnected'[s])
    BY <2>2, <2>3, <2>4, YoungestThinned, ThinnedKeeps
  <2>. QED
    BY <1>2, <2>5 DEF KnownOnce, Once, Apart
<1>4. ASSUME NEW p \in Port PROVE WaitOnce(p)'
  <2>1. SrvOf(p) \in Srv /\ Once(backlog[p])
    BY DEF SrvOf, Srv, RegistryInv, WaitOnce
  <2>. QED
    BY <1>1, <1>2, <2>1 DEF WaitOnce, Apart
<1>. QED
  BY <1>1, <1>2, <1>3, <1>4 DEF RegistryInv

\* RemoveClient: one guest leaves and is remembered.
LEMMA RemoveOnce ==
    ASSUME IInv, RegistryInv, NEW s \in Srv, Visiting(s), RemoveClient(s, index), backlog' = backlog
    PROVE  RegistryInv' /\ \A t \in Srv : Len(InfoWifis'[t]) <= Len(InfoWifis[t])
<1>1. /\ index \in 1..Len(InfoWifis[s])
      /\ InfoWifis \in [Srv -> Seq(InfoWifi)]
  BY ListFacts DEF Visiting, IInv, TypeOK, Aligned
<1>2. PICK W \in Seq(InfoWifi) : W = InfoWifis[s]
  BY <1>1
<1>3. PICK e \in InfoWifi : e = W[index]
  BY <1>1, <1>2, ElementOfSeq
<1>4. /\ InfoWifis' = [InfoWifis EXCEPT ![s] = RemoveAt(W, index)]
      /\ InfoWifisDeconnected' = [InfoWifisDeconnected EXCEPT ![s] =
             AddInfoWifiDeconnected(InfoWifisDeconnected[s], MaxDeconnected[s], e)]
  BY <1>2, <1>3 DEF RemoveClient
<1>5. InfoWifis'[s] = RemoveAt(W, index) /\ \A t \in Srv \ {s} : InfoWifis'[t] = InfoWifis[t]
  BY <1>1, <1>4
<1>6. Once(W) /\ Apart(W, InfoWifisDeconnected[s])
  BY <1>2 DEF RegistryInv, KnownOnce
<1>7. /\ Thinned(RemoveAt(W, index), W) /\ Without(RemoveAt(W, index), e.cid)
      /\ Len(RemoveAt(W, index)) = Len(W) - 1 /\ Len(W) \in Nat
  BY <1>1, <1>2, <1>3, <1>6, RemovedThinned, RemoveAtProperties
<1>8. Without(InfoWifisDeconnected[s], e.cid)
  BY <1>1, <1>2, <1>3, <1>6 DEF Apart, Without
<1>9. RegistryInv'
  BY <1>2, <1>4, <1>5, <1>7, <1>8, OneSaved
<1>10. \A t \in Srv : Len(InfoWifis[t]) \in Nat
  BY <1>1, LenProperties
<1>. QED
  BY <1>2, <1>5, <1>7, <1>9, <1>10

-----------------------------------------------------------------------------
(***************************************************************************)
(* The place of a guest that connects                                      *)
(***************************************************************************)

\* The search from the front and the last entry agree on a list that has a
\* guest once.
LEMMA OnlyEntry ==
    ASSUME NEW S, NEW l \in Seq(S), NEW cid
    PROVE  /\ cid \in Cids(l) <=> IndexByCID(l, cid) # 0
           /\ Once(l) /\ IndexByCID(l, cid) # 0 => LastEntry(l, cid) = l[IndexByCID(l, cid)]
<1>1. PICK i : i = IndexByCID(l, cid)
  OBVIOUS
<1>2. /\ i # 0 => i \in 1..Len(l) /\ l[i].cid = cid
      /\ i = 0 => \A k \in 1..Len(l) : l[k].cid # cid
  BY <1>1, IndexByCIDProperties
<1>3. cid \in Cids(l) <=> i # 0
  BY <1>2 DEF Cids
<1>4. ASSUME Once(l), i # 0 PROVE LastEntry(l, cid) = l[i]
  <2>1. {k \in 1..Len(l) : l[k].cid = cid} = {i}
    BY <1>2, <1>4 DEF Once
  <2>2. Max({i}) = i
    BY <1>2, <1>4, LenProperties DEF Max
  <2>. QED
    BY <2>1, <2>2 DEF LastEntry
<1>. QED
  BY <1>1, <1>3, <1>4

\* A guest that connects gets what the server held for it last.
Restored ==
    \A s \in Srv : Len(InfoWifis'[s]) > Len(InfoWifis[s]) =>
        LET new == InfoWifis'[s][Len(InfoWifis'[s])]
        IN  new = Latest(s, new.cid)

\* Nobody connects in a step that makes no list of connected guests longer.
LEMMA NobodyConnects ==
    ASSUME IInv, \A s \in Srv : Len(InfoWifis'[s]) <= Len(InfoWifis[s]),
           \A s \in Srv : Len(InfoWifis'[s]) \in Nat
    PROVE  Restored
<1>1. \A s \in Srv : Len(InfoWifis[s]) \in Nat
  BY ListFacts DEF IInv
<1>2. \A s \in Srv : ~(Len(InfoWifis'[s]) > Len(InfoWifis[s]))
  BY <1>1
<1>. QED
  BY <1>2, Zenon DEF Restored

\* The entry of a connection that is accepted is the one Accept made.
LEMMA AdmittedPlace ==
    ASSUME IInv, NEW p \in Port, backlog[p] # <<>>,
           NEW ss, NEW D, NEW coo \in Coo, NEW name \in Names, Admit(p, ss, D, coo, name),
           Latest(SrvOf(p), Head(backlog[p]).cid)
               = [cid |-> Head(backlog[p]).cid, coo |-> coo, name |-> name]
    PROVE  Restored
<1>1. PICK s \in Srv : s = SrvOf(p)
  BY DEF SrvOf, Srv
<1>2. InfoWifis \in [Srv -> Seq(InfoWifi)] /\ backlog \in [Port -> Seq(Connection)]
  BY DEF IInv, TypeOK
<1>3. PICK W \in Seq(InfoWifi) : W = InfoWifis[s]
  BY <1>2
<1>4. PICK c \in Guest : c = Head(backlog[p]).cid
  <2>1. Head(backlog[p]) \in Connection
    BY <1>2, HeadTailProperties
  <2>. QED
    BY <2>1 DEF Connection
<1>5. PICK e \in InfoWifi : e = [cid |-> c, coo |-> coo, name |-> name] /\ e.cid = c
  <2>1. [cid |-> c, coo |-> coo, name |-> name] \in InfoWifi
    BY DEF InfoWifi
  <2>. QED
    BY <2>1
<1>6. InfoWifis' = [InfoWifis EXCEPT ![s] = Append(W, e)]
  BY <1>1, <1>3, <1>4, <1>5 DEF Admit
<1>7. InfoWifis'[s] = Append(W, e) /\ \A t \in Srv \ {s} : InfoWifis'[t] = InfoWifis[t]
  BY <1>2, <1>6, Zenon
<1>8. Len(Append(W, e)) = Len(W) + 1 /\ Append(W, e)[Len(W) + 1] = e
  BY AppendProperties
<1>9. Latest(s, e.cid) = e
  BY <1>1, <1>4, <1>5
<1>10. InfoWifis'[s][Len(InfoWifis'[s])] = e
  BY <1>7, <1>8
<1>11. ASSUME NEW t \in Srv, Len(InfoWifis'[t]) > Len(InfoWifis[t])
       PROVE  InfoWifis'[t][Len(InfoWifis'[t])] = Latest(t, InfoWifis'[t][Len(InfoWifis'[t])].cid)
  <2>1. CASE t = s
    BY <1>9, <1>10, <2>1, Zenon
  <2>2. CASE t # s
    <3>1. Len(InfoWifis[t]) \in Nat
      BY ListFacts DEF IInv
    <3>. QED
      BY <1>7, <1>11, <2>2, <3>1
  <2>. QED
    BY <2>1, <2>2
<1>. QED
  BY <1>11, Zenon DEF Restored

\* The guest whose connection waits is not connected.
LEMMA WaitingUnknown ==
    ASSUME IInv, RegistryInv, NEW p \in Port, Incoming(p)
    PROVE  /\ backlog[p] # <<>> /\ SrvOf(p) \in Srv
           /\ Without(InfoWifis[SrvOf(p)], Head(backlog[p]).cid)
<1>1. backlog[p] # <<>>
  BY DEF Incoming, IInv, AcceptNeverBlocks, Upcoming, Port
<1>2. SrvOf(p) \in Srv /\ Apart(backlog[p], InfoWifis[SrvOf(p)])
  BY DEF SrvOf, Srv, RegistryInv, WaitOnce
<1>3. PICK B \in Seq(Connection) : B = backlog[p]
  BY DEF IInv, TypeOK
<1>4. 1 \in 1..Len(B) /\ Head(B) = B[1]
  BY <1>1, <1>3
<1>. QED
  BY <1>1, <1>2, <1>3, <1>4 DEF Apart, Without

\* AcceptReturning: the entry moves from those that left to the connected.
LEMMA ReturningOnce ==
    ASSUME IInv, RegistryInv, NEW p \in Port, AcceptReturning(p)
    PROVE  RegistryInv' /\ Restored
<1>1. PICK s, c : s \in Srv /\ s = SrvOf(p) /\ c = Head(backlog[p]).cid
  BY DEF SrvOf, Srv
<1>2. PICK D \in Seq(InfoWifi), W \in Seq(InfoWifi) : D = InfoWifisDeconnected[s] /\ W = InfoWifis[s]
  BY <1>1 DEF IInv, TypeOK
<1>3. PICK d : d = IndexByCID(D, c)
  OBVIOUS
<1>4. /\ Incoming(p) /\ d # 0
      /\ Admit(p, InfoSockets[s], RemoveAt(D, d), D[d].coo, D[d].name)
  BY <1>1, <1>2, <1>3 DEF AcceptReturning
<1>5. d \in 1..Len(D) /\ D[d] \in InfoWifi /\ D[d].cid = c
  BY <1>3, <1>4, IndexByCIDProperties, ElementOfSeq
<1>6. backlog[p] # <<>> /\ Without(W, c) /\ Once(D)
  BY <1>1, <1>2, <1>4, WaitingUnknown DEF RegistryInv, KnownOnce
<1>7. Thinned(RemoveAt(D, d), D) /\ Without(RemoveAt(D, d), c)
  BY <1>5, <1>6, RemovedThinned
<1>8. D[d].coo \in Coo /\ D[d].name \in Names /\ D[d] = [cid |-> c, coo |-> D[d].coo, name |-> D[d].name]
  BY <1>5 DEF InfoWifi
<1>9. RegistryInv'
  BY <1>1, <1>2, <1>4, <1>6, <1>7, <1>8, OneAdmitted
<1>10. Latest(s, c) = D[d]
  <2>1. c \notin Cids(W)
    BY <1>6 DEF Without, Cids
  <2>2. c \in Cids(D) /\ LastEntry(D, c) = D[d]
    BY <1>3, <1>4, <1>6, OnlyEntry
  <2>. QED
    BY <1>2, <2>1, <2>2, Zenon DEF Latest
<1>11. Restored
  BY <1>1, <1>4, <1>6, <1>8, <1>10, AdmittedPlace
<1>. QED
  BY <1>9, <1>11

\* AcceptNew: the server knows nothing of the guest.
LEMMA NewOnce ==
    ASSUME IInv, RegistryInv, NEW p \in Port, AcceptNew(p)
    PROVE  RegistryInv' /\ Restored
<1>1. PICK s, c : s \in Srv /\ s = SrvOf(p) /\ c = Head(backlog[p]).cid
  BY DEF SrvOf, Srv
<1>2. PICK D \in Seq(InfoWifi), W \in Seq(InfoWifi) : D = InfoWifisDeconnected[s] /\ W = InfoWifis[s]
  BY <1>1 DEF IInv, TypeOK
<1>3. /\ Incoming(p) /\ IndexByCID(D, c) = 0
      /\ Admit(p, InfoSockets[s], D, DefaultCoo, DefaultName)
  BY <1>1, <1>2 DEF AcceptNew
<1>4. backlog[p] # <<>> /\ Without(W, c)
  BY <1>1, <1>2, <1>3, WaitingUnknown
<1>5. Thinned(D, D) /\ Without(D, c) /\ DefaultCoo \in Coo /\ DefaultName \in Names
  BY <1>3, IndexByCIDProperties, SameThinned, ConstantsAssumption DEF Without
<1>6. RegistryInv'
  BY <1>1, <1>2, <1>3, <1>4, <1>5, OneAdmitted
<1>7. Latest(s, c) = [cid |-> c, coo |-> DefaultCoo, name |-> DefaultName]
  <2>1. c \notin Cids(W) /\ c \notin Cids(D)
    BY <1>4, <1>5 DEF Without, Cids
  <2>. QED
    BY <1>2, <2>1, Zenon DEF Latest
<1>8. Restored
  BY <1>1, <1>3, <1>4, <1>5, <1>7, AdmittedPlace
<1>. QED
  BY <1>6, <1>8

\* AcceptTakeover: not of a guest that waits for its own removal.
LEMMA NoTakeover ==
    ASSUME IInv, RegistryInv, NEW p \in Port
    PROVE  ~AcceptTakeover(p)
<1>. SUFFICES ASSUME AcceptTakeover(p) PROVE FALSE
  OBVIOUS
<1>1. PICK s, c : s \in Srv /\ s = SrvOf(p) /\ c = Head(backlog[p]).cid
  BY DEF SrvOf, Srv
<1>2. PICK W \in Seq(InfoWifi) : W = InfoWifis[s]
  BY <1>1 DEF IInv, TypeOK
<1>3. Incoming(p) /\ EnabledIndexByCID(InfoSockets[s], W, c) # 0
  BY <1>1, <1>2 DEF AcceptTakeover
<1>4. \E k \in 1..Len(W) : W[k].cid = c
  BY <1>3, EnabledIndexProperties
<1>. QED
  BY <1>1, <1>2, <1>3, <1>4, WaitingUnknown DEF Without
-----------------------------------------------------------------------------
(***************************************************************************)
(* Guests that connect                                                     *)
(***************************************************************************)

\* The next connection of a guest whose last one the server has removed.
LEMMA ConnectOnce ==
    ASSUME IInv, RegistryInv, ~Takeover, NEW cid \in Guest, NEW p \in Port, GuestConnect(cid, p)
    PROVE  RegistryInv'
<1>1. PICK s \in Srv : s = SrvOf(p)
  BY DEF SrvOf, Srv
<1>2. /\ InfoWifis \in [Srv -> Seq(InfoWifi)] /\ backlog \in [Port -> Seq(Connection)]
  BY DEF IInv, TypeOK
<1>3. PICK W \in Seq(InfoWifi), B \in Seq(Connection) : W = InfoWifis[s] /\ B = backlog[p]
  BY <1>1, <1>2
<1>4. PICK e \in Connection : /\ e = [cid |-> cid, port |-> p, open |-> TRUE, unread |-> 0]
                              /\ e.cid = cid
  <2>1. [cid |-> cid, port |-> p, open |-> TRUE, unread |-> 0] \in Connection
    BY DEF Connection
  <2>. QED
    BY <2>1
<1>5. backlog' = [backlog EXCEPT ![p] = Append(B, e)] /\ ~Present(s, cid)
  BY <1>1, <1>3, <1>4 DEF GuestConnect
<1>6. backlog'[p] = Append(B, e) /\ \A q \in Port \ {p} : backlog'[q] = backlog[q]
  BY <1>2, <1>5, Zenon
<1>7. UNCHANGED <<InfoWifis, InfoWifisDeconnected>>
  BY DEF GuestConnect, lists
<1>8. /\ Without(W, cid)
      /\ \A q \in Port : SrvOf(q) = s => Without(backlog[q], cid)
  BY <1>3, <1>5, IndexByCIDProperties DEF Present, Without
<1>9. Without(B, cid) /\ Once(B) /\ Apart(B, W)
  BY <1>1, <1>3, <1>8 DEF RegistryInv, WaitOnce
<1>10. Once(Append(B, e)) /\ Apart(Append(B, e), W)
  BY <1>4, <1>8, <1>9, AppendOnce
<1>11. ASSUME NEW q \in Port PROVE WaitOnce(q)'
  <2>1. CASE q = p
    BY <1>1, <1>3, <1>6, <1>7, <1>10, <2>1 DEF WaitOnce
  <2>2. CASE q # p
    BY <1>6, <1>7, <2>2 DEF WaitOnce, RegistryInv
  <2>. QED
    BY <2>1, <2>2
<1>12. \A t \in Srv : KnownOnce(t)'
  BY <1>7 DEF KnownOnce, RegistryInv
<1>13. Apart(backlog'["VTCP"], backlog'["ITCP"])
  <2>0. Apart(backlog["VTCP"], backlog["ITCP"]) /\ "VTCP" \in Port /\ "ITCP" \in Port
    BY DEF RegistryInv, Port
  <2>1. CASE p = "VTCP"
    <3>1. Without(backlog["ITCP"], cid)
      BY <1>1, <1>8, <2>0, <2>1 DEF SrvOf
    <3>2. PICK x : x = backlog["ITCP"]
      OBVIOUS
    <3>3. Apart(B, x) /\ Without(x, e.cid) /\ backlog'["ITCP"] = x
      BY <1>3, <1>4, <1>6, <2>0, <2>1, <3>1, <3>2
    <3>4. Apart(Append(B, e), x)
      BY <3>3, AppendOnce
    <3>. QED
      BY <1>6, <2>1, <3>3, <3>4
  <2>2. CASE p = "ITCP"
    <3>1. Without(backlog["VTCP"], cid)
      BY <1>1, <1>8, <2>0, <2>2 DEF SrvOf
    <3>2. PICK x : x = backlog["VTCP"]
      OBVIOUS
    <3>3. Apart(x, B) /\ Without(x, e.cid) /\ backlog'["VTCP"] = x
      BY <1>3, <1>4, <1>6, <2>0, <2>2, <3>1, <3>2
    <3>4. Apart(x, Append(B, e))
      BY <3>3, AppendOnce
    <3>. QED
      BY <1>6, <2>2, <3>3, <3>4
  <2>3. CASE p # "VTCP" /\ p # "ITCP"
    BY <1>6, <2>0, <2>3
  <2>. QED
    BY <2>1, <2>2, <2>3
<1>. QED
  BY <1>11, <1>12, <1>13 DEF RegistryInv

\* A guest that gives up while it waits still waits, for accept to find it gone.
LEMMA AbortOnce ==
    ASSUME IInv, RegistryInv, NEW p \in Port, GuestAbort(p)
    PROVE  RegistryInv'
<1>1. backlog \in [Port -> Seq(Connection)] /\ UNCHANGED <<InfoWifis, InfoWifisDeconnected>>
  BY DEF IInv, TypeOK, GuestAbort, lists
<1>2. PICK k \in 1..Len(backlog[p]) : backlog' = [backlog EXCEPT ![p][k].open = FALSE]
  BY DEF GuestAbort
<1>3. PICK B \in Seq(Connection) : B = backlog[p]
  BY <1>1
<1>4. B[k] \in Connection
  BY <1>2, <1>3, ElementOfSeq
<1>5. PICK e \in Connection : e = [B[k] EXCEPT !.open = FALSE] /\ e.cid = B[k].cid
  <2>1. /\ [B[k] EXCEPT !.open = FALSE] \in Connection
        /\ [B[k] EXCEPT !.open = FALSE].cid = B[k].cid
    BY <1>4 DEF Connection
  <2>. QED
    BY <2>1
<1>6. PICK C : C = [B EXCEPT ![k] = e]
  OBVIOUS
<1>7. backlog'[p] = C /\ \A q \in Port \ {p} : backlog'[q] = backlog[q]
  <2>1. backlog' = [backlog EXCEPT ![p] = C]
    BY <1>2, <1>3, <1>5, <1>6
  <2>. QED
    BY <1>1, <2>1, Zenon
<1>8. Len(C) = Len(B) /\ \A j \in 1..Len(B) : C[j] = IF j = k THEN e ELSE B[j]
  BY <1>2, <1>3, <1>6, ExceptSeq
<1>9. Thinned(C, B)
  <2>1. \A j \in 1..Len(B) : C[j].cid = B[j].cid
    BY <1>5, <1>8
  <2>. QED
    BY <1>8, <2>1, SameThinned
<1>10. \A q \in Port : Thinned(backlog'[q], backlog[q])
  BY <1>3, <1>7, <1>9, SameThinned
<1>. QED
  BY <1>1, <1>10, SameThinned, FewerEntries

-----------------------------------------------------------------------------
(***************************************************************************)
(* The theorems                                                            *)
(***************************************************************************)

\* The steps that leave the lists alone.
LEMMA QuietSteps ==
    ASSUME \/ Wait \/ UNCHANGED vars \/ NoOrder \/ Answer \/ AnswerKilled \/ ChangePacketLoss
           \/ SetScale
           \/ \E p \in Port : AcceptNothing(p) \/ AcceptFails(p)
           \/ \E s \in Srv : ForwardIdle(s) \/ ForwardFrame(s) \/ ForwardKilled(s) \/ ForwardDone(s)
           \/ \E f \in ClientFd : GuestSend(f) \/ GuestClose(f)
           \/ \E o \in Order : CtrlConnect(o)
    PROVE  UNCHANGED <<InfoWifis, InfoWifisDeconnected, backlog>>
<1>1. CASE Wait \/ UNCHANGED vars
  BY <1>1 DEF Wait, vars, lists, kernel
<1>2. CASE NoOrder \/ Answer \/ AnswerKilled
  BY <1>2 DEF NoOrder, Answer, AnswerKilled, ReceiveOrder, lists, kernel
<1>3. CASE ChangePacketLoss \/ SetScale
  BY <1>3 DEF ChangePacketLoss, SetScale, ReceiveOrder, lists
<1>4. CASE \E p \in Port : AcceptNothing(p) \/ AcceptFails(p)
  BY <1>4 DEF AcceptNothing, AcceptFails, lists, kernel
<1>5. CASE \E s \in Srv : ForwardIdle(s) \/ ForwardKilled(s) \/ ForwardDone(s)
  BY <1>5, Zenon DEF ForwardIdle, ForwardKilled, ForwardDone, lists, kernel
<1>6. CASE \E s \in Srv : ForwardFrame(s)
  BY <1>6, Zenon DEF ForwardFrame
<1>7. CASE \E f \in ClientFd : GuestSend(f) \/ GuestClose(f)
  BY <1>7 DEF GuestSend, GuestClose, lists
<1>8. CASE \E o \in Order : CtrlConnect(o)
  BY <1>8 DEF CtrlConnect, lists
<1>. QED
  BY <1>1, <1>2, <1>3, <1>4, <1>5, <1>6, <1>7, <1>8

\* Every step keeps RegistryInv, and gives a guest that connects its place.
LEMMA NextRegistry ==
    ASSUME ~Takeover, IInv, RegistryInv, [Next]_vars
    PROVE  RegistryInv' /\ Restored
<1>0. IInv' /\ \A s \in Srv : Len(InfoWifis[s]) \in Nat /\ Len(InfoWifis'[s]) \in Nat
  <2>1. IInv' /\ TypeOK /\ TypeOK'
    BY NextIInv DEF IInv
  <2>. QED
    BY <2>1, LenProperties DEF TypeOK
<1>1. ASSUME RegistryInv', \A s \in Srv : Len(InfoWifis'[s]) <= Len(InfoWifis[s])
      PROVE  RegistryInv' /\ Restored
  BY <1>0, <1>1, NobodyConnects
<1>2. CASE UNCHANGED <<InfoWifis, InfoWifisDeconnected, backlog>>
  BY <1>0, <1>1, <1>2, SameLists
<1>3. ASSUME NEW p \in Port, Accepting(p) PROVE RegistryInv' /\ Restored
  <2>1. CASE AcceptNothing(p) \/ AcceptFails(p)
    BY <1>2, <2>1, QuietSteps
  <2>. QED
    BY <1>3, <2>1, ReturningOnce, NewOnce, NoTakeover DEF Accepting
<1>4. CASE Controlling
  <2>1. CASE NoOrder \/ Answer \/ AnswerKilled \/ ChangePacketLoss \/ SetScale
    BY <1>2, <2>1, QuietSteps
  <2>2. CASE ChangeCoordinate
    BY <1>0, <1>1, <2>2, CoordinateOnce
  <2>3. CASE SetName
    BY <1>0, <1>1, <2>3, NameOnce
  <2>4. CASE CloseAllClient
    BY <1>0, <1>1, <2>4, CloseAllOnce
  <2>. QED
    BY <1>4, <2>1, <2>2, <2>3, <2>4 DEF Controlling
<1>5. ASSUME NEW s \in Srv, Forwarding(s) PROVE RegistryInv' /\ Restored
  <2>1. CASE ForwardIdle(s) \/ ForwardFrame(s) \/ ForwardKilled(s) \/ ForwardDone(s)
    BY <1>2, <2>1, QuietSteps
  <2>2. CASE ForwardRemove(s) \/ ForwardRecvError(s)
    <3>1. Visiting(s) /\ RemoveClient(s, index) /\ backlog' = backlog
      BY <2>2 DEF ForwardRemove, ForwardRecvError, Reading
    <3>. QED
      BY <1>1, <3>1, RemoveOnce
  <2>. QED
    BY <1>5, <2>1, <2>2 DEF Forwarding
<1>6. CASE Environment
  <2>1. ASSUME NEW cid \in Guest, NEW p \in Port, GuestConnect(cid, p) PROVE RegistryInv' /\ Restored
    <3>1. InfoWifis' = InfoWifis
      BY <2>1 DEF GuestConnect, lists
    <3>. QED
      BY <1>0, <1>1, <2>1, <3>1, ConnectOnce
  <2>2. ASSUME NEW p \in Port, GuestAbort(p) PROVE RegistryInv' /\ Restored
    <3>1. InfoWifis' = InfoWifis
      BY <2>2 DEF GuestAbort, lists
    <3>. QED
      BY <1>0, <1>1, <2>2, <3>1, AbortOnce
  <2>3. CASE \/ \E f \in ClientFd : GuestSend(f) \/ GuestClose(f)
             \/ \E o \in Order : CtrlConnect(o)
    BY <1>2, <2>3, QuietSteps
  <2>. QED
    BY <1>6, <2>1, <2>2, <2>3 DEF Environment
<1>7. CASE Wait \/ UNCHANGED vars
  BY <1>2, <1>7, QuietSteps
<1>. QED
  BY <1>3, <1>4, <1>5, <1>6, <1>7 DEF Next, ServerStep, Exited

\* The server knows every guest once, connected or remembered, whatever orders
\* come for guests that are away, wait or were never seen, and however full the
\* list of those that left is.
THEOREM OneEntry ==
    ASSUME ~Takeover
    PROVE  Spec => []OneEntryPerGuest
<1>1. IInv /\ RegistryInv /\ [Next]_vars => RegistryInv'
  BY NextRegistry
<1>2. ASSUME IInv, RegistryInv PROVE OneEntryPerGuest
  <2>1. ASSUME NEW s \in Srv PROVE Once(InfoWifis[s] \o InfoWifisDeconnected[s])
    <3>1. InfoWifis[s] \in Seq(InfoWifi) /\ InfoWifisDeconnected[s] \in Seq(InfoWifi)
      BY <1>2 DEF IInv, TypeOK
    <3>2. /\ Once(InfoWifis[s]) /\ Once(InfoWifisDeconnected[s])
          /\ Apart(InfoWifis[s], InfoWifisDeconnected[s])
      BY <1>2 DEF RegistryInv, KnownOnce
    <3>. QED
      BY <3>1, <3>2, JoinedOnce
  <2>. QED
    BY <2>1, Zenon DEF OneEntryPerGuest, Once
<1>. QED
  BY <1>1, <1>2, InitRegistry, Inductive, PTL DEF Spec

\* A guest that connects gets the position and the name the server held for it
\* last, those an order gave it while it was away included.
THEOREM PlaceRestored ==
    ASSUME ~Takeover
    PROVE  Spec => PlaceSurvivesReconnect
<1>1. IInv /\ RegistryInv /\ [Next]_vars => RegistryInv'
  BY NextRegistry
<1>2. IInv /\ RegistryInv /\ [Next]_vars => [Restored]_vars
  BY NextRegistry
<1>3. IInv /\ RegistryInv /\ [Next]_vars
        => [\A s \in Srv : Len(InfoWifis'[s]) > Len(InfoWifis[s]) =>
               LET new == InfoWifis'[s][Len(InfoWifis'[s])]
               IN  new = Latest(s, new.cid)]_vars
  BY <1>2, Zenon DEF Restored
<1>. QED
  BY <1>1, <1>3, InitRegistry, Inductive, PTL DEF Spec, PlaceSurvivesReconnect

-----------------------------------------------------------------------------
(***************************************************************************)
(* The values the lists hold                                               *)
(*                                                                         *)
(* What the registry sees of the two lists of the guests' server: cids in  *)
(* their order, and the position and the name of every guest.              *)
(***************************************************************************)

\* The cids of a list, in its order.
CidsInOrder(l) == [k \in 1..Len(l) |-> l[k].cid]

\* What the registry remembers of an entry.
Value(e) == [coo |-> e.coo, name |-> e.name]

\* The value of every guest in the two lists W (connected) and D (remembered).
Recorded(W, D) ==
    [c \in Cids(W) \cup Cids(D) |->
        Value(IF c \in Cids(W) THEN LastEntry(W, c)
              ELSE IF c \in Cids(D) THEN LastEntry(D, c)
              ELSE [cid |-> c, coo |-> DefaultCoo, name |-> DefaultName])]

\* The lists of a server that knows every guest once.
Proper(W, D) == W \in Seq(InfoWifi) /\ D \in Seq(InfoWifi) /\ Once(W) /\ Once(D) /\ Apart(W, D)

\* The list of cids of a list.
LEMMA CidsOfList ==
    ASSUME NEW l \in Seq(InfoWifi)
    PROVE  /\ CidsInOrder(l) \in Seq(Guest) /\ Len(CidsInOrder(l)) = Len(l)
           /\ \A k \in 1..Len(l) : CidsInOrder(l)[k] = l[k].cid /\ l[k].cid \in Guest
           /\ ToSet(CidsInOrder(l)) = Cids(l)
<1>1. Len(l) \in Nat /\ \A k \in 1..Len(l) : l[k].cid \in Guest
  <2>1. \A k \in 1..Len(l) : l[k] \in InfoWifi
    BY ElementOfSeq
  <2>. QED
    BY <2>1, LenProperties DEF InfoWifi
<1>2. PICK x : x = CidsInOrder(l)
  OBVIOUS
<1>3. x \in [1..Len(l) -> Guest] /\ \A k \in 1..Len(l) : x[k] = l[k].cid
  BY <1>1, <1>2 DEF CidsInOrder
<1>4. x \in Seq(Guest) /\ Len(x) = Len(l)
  BY <1>1, <1>3, SeqDef, LenProperties
<1>5. ToSet(x) = Cids(l)
  BY <1>3 DEF ToSet, Cids
<1>. QED
  BY <1>1, <1>2, <1>3, <1>4, <1>5

\* m gives every entry of list l its value.
Holds(m, l) == \A k \in 1..Len(l) : m[l[k].cid] = Value(l[k])

\* The value of a guest is that of its only entry.
LEMMA RecordedValues ==
    ASSUME NEW W, NEW D, Proper(W, D)
    PROVE  Holds(Recorded(W, D), W) /\ Holds(Recorded(W, D), D)
<1>. DEFINE Latest1(c) == IF c \in Cids(W) THEN LastEntry(W, c)
                          ELSE IF c \in Cids(D) THEN LastEntry(D, c)
                          ELSE [cid |-> c, coo |-> DefaultCoo, name |-> DefaultName]
<1>0. Recorded(W, D) = [c \in Cids(W) \cup Cids(D) |-> Value(Latest1(c))]
  BY DEF Recorded
<1>1. ASSUME NEW k \in 1..Len(W) PROVE W[k].cid \in Cids(W) /\ Latest1(W[k].cid) = W[k]
  <2>1. W[k].cid \in Cids(W)
    BY DEF Cids
  <2>2. PICK i : i = IndexByCID(W, W[k].cid)
    OBVIOUS
  <2>3. i # 0 /\ LastEntry(W, W[k].cid) = W[i] /\ i \in 1..Len(W) /\ W[i].cid = W[k].cid
    BY <2>1, <2>2, OnlyEntry, IndexByCIDProperties DEF Proper
  <2>4. i = k
    BY <2>3 DEF Proper, Once
  <2>. QED
    BY <2>1, <2>3, <2>4
<1>2. ASSUME NEW k \in 1..Len(D) PROVE D[k].cid \in Cids(D) /\ Latest1(D[k].cid) = D[k]
  <2>1. D[k].cid \in Cids(D) /\ D[k].cid \notin Cids(W)
    BY DEF Cids, Proper, Apart
  <2>2. PICK i : i = IndexByCID(D, D[k].cid)
    OBVIOUS
  <2>3. i # 0 /\ LastEntry(D, D[k].cid) = D[i] /\ i \in 1..Len(D) /\ D[i].cid = D[k].cid
    BY <2>1, <2>2, OnlyEntry, IndexByCIDProperties DEF Proper
  <2>4. i = k
    BY <2>3 DEF Proper, Once
  <2>. QED
    BY <2>1, <2>3, <2>4
<1>. HIDE DEF Latest1
<1>. QED
  BY <1>0, <1>1, <1>2 DEF Holds

\* e is an entry of one of the two lists.
EntryOf(e, W, D) == (\E k \in 1..Len(W) : e = W[k]) \/ (\E k \in 1..Len(D) : e = D[k])

\* The entries of l are entries of W or D, or new ones with value d.
Grown(l, W, D, d) ==
    \A j \in 1..Len(l) : \/ EntryOf(l[j], W, D)
                         \/ l[j].cid \notin Cids(W) \cup Cids(D) /\ Value(l[j]) = d

\* Of the values m of the guests of K, those of the guests of L, a new one with d.
Kept(m, K, L, d) == [c \in L |-> IF c \in K THEN m[c] ELSE d]

\* The values of lists that have grown out of two others.
LEMMA RecordedKept ==
    ASSUME NEW W, NEW D, Proper(W, D), NEW X, NEW E, Proper(X, E), NEW d,
           Grown(X, W, D, d), Grown(E, W, D, d)
    PROVE  Recorded(X, E) = Kept(Recorded(W, D), Cids(W) \cup Cids(D), Cids(X) \cup Cids(E), d)
<1>1. PICK m, n : m = Recorded(W, D) /\ n = Recorded(X, E)
  OBVIOUS
<1>2. Holds(m, W) /\ Holds(m, D) /\ Holds(n, X) /\ Holds(n, E)
  BY <1>1, RecordedValues
<1>4. ASSUME NEW e, EntryOf(e, W, D)
      PROVE  e.cid \in Cids(W) \cup Cids(D) /\ m[e.cid] = Value(e)
  BY <1>2, <1>4 DEF EntryOf, Cids, Holds
<1>5. ASSUME NEW c \in Cids(X) \cup Cids(E)
      PROVE  n[c] = IF c \in Cids(W) \cup Cids(D) THEN m[c] ELSE d
  <2>1. PICK e : /\ c = e.cid /\ n[c] = Value(e)
                 /\ \/ EntryOf(e, W, D)
                    \/ e.cid \notin Cids(W) \cup Cids(D) /\ Value(e) = d
    <3>1. CASE c \in Cids(X)
      <4>1. PICK j \in 1..Len(X) : c = X[j].cid
        BY <3>1 DEF Cids
      <4>. QED
        BY <1>2, <4>1 DEF Grown, Holds
    <3>2. CASE c \in Cids(E)
      <4>1. PICK j \in 1..Len(E) : c = E[j].cid
        BY <3>2 DEF Cids
      <4>. QED
        BY <1>2, <4>1 DEF Grown, Holds
    <3>. QED
      BY <3>1, <3>2
  <2>. QED
    BY <1>4, <2>1
<1>6. n = [c \in Cids(X) \cup Cids(E) |-> n[c]]
  BY <1>1 DEF Recorded
<1>. QED
  BY <1>1, <1>5, <1>6 DEF Kept

\* A full list that loses its oldest entry first is the youngest of all.
LEMMA AddedYoungest ==
    ASSUME NEW l \in Seq(InfoWifi), NEW e \in InfoWifi, NEW max \in Nat \ {0}, Len(l) <= max
    PROVE  AddInfoWifiDeconnected(l, max, e) = Youngest(Append(l, e), max)
<1>1. PICK a \in Seq(InfoWifi) : a = Append(l, e)
  BY AppendProperties
<1>2. /\ Len(l) \in Nat /\ Len(a) = Len(l) + 1 /\ a[Len(l) + 1] = e
      /\ \A j \in 1..Len(l) : a[j] = l[j]
  BY <1>1, AppendProperties, LenProperties
<1>3. CASE Len(l) < max
  <2>1. ~(Len(l) >= max) /\ Len(a) <= max
    BY <1>2, <1>3
  <2>. QED
    BY <1>1, <2>1, Zenon DEF AddInfoWifiDeconnected, Youngest
<1>4. CASE Len(l) = max
  <2>0. 1 \in 1..Len(l) /\ max = Len(l)
    BY <1>2, <1>4
  <2>1. PICK r \in Seq(InfoWifi) : r = RemoveAt(l, 1)
    BY <2>0, RemoveAtProperties
  <2>2. Len(r) = Len(l) - 1 /\ \A j \in 1..(Len(l) - 1) : r[j] = l[j + 1]
    <3>1. \A j \in 1..(Len(l) - 1) : r[j] = IF j < 1 THEN l[j] ELSE l[j + 1]
      BY <2>0, <2>1, RemoveAtProperties
    <3>2. Len(r) = Len(l) - 1
      BY <2>0, <2>1, RemoveAtProperties
    <3>. QED
      BY <3>1, <3>2
  <2>3. PICK b \in Seq(InfoWifi) : b = Append(r, e)
    BY AppendProperties
  <2>4. /\ Len(b) = Len(l) /\ b[Len(l)] = e /\ \A j \in 1..(Len(l) - 1) : b[j] = l[j + 1]
    BY <1>2, <2>2, <2>3, AppendProperties
  <2>5. PICK y \in Seq(InfoWifi) : y = SubSeq(a, 2, Len(l) + 1)
    <3>1. \A i \in 2..(Len(l) + 1) : a[i] \in InfoWifi
      BY <1>2, ElementOfSeq
    <3>2. 2 \in Int /\ Len(l) + 1 \in Int
      BY <1>2
    <3>3. SubSeq(a, 2, Len(l) + 1) \in Seq(InfoWifi)
      BY <3>1, <3>2, SubSeqProperties
    <3>. QED
      BY <3>3
  <2>6. Len(y) = Len(l) /\ \A j \in 1..Len(l) : y[j] = a[j + 1]
    <3>1. \A i \in 2..(Len(l) + 1) : a[i] \in InfoWifi
      BY <1>2, ElementOfSeq
    <3>2. 2 \in Int /\ Len(l) + 1 \in Int
      BY <1>2
    <3>3. /\ Len(y) = IF 2 <= Len(l) + 1 THEN (Len(l) + 1) - 2 + 1 ELSE 0
          /\ \A j \in 1..((Len(l) + 1) - 2 + 1) : y[j] = a[2 + j - 1]
      BY <2>5, <3>1, <3>2, SubSeqProperties
    <3>. QED
      BY <1>2, <2>0, <3>3
  <2>7. b = y
    <3>1. \A j \in 1..Len(b) : b[j] = y[j]
      BY <1>2, <2>4, <2>6
    <3>. QED
      BY <2>4, <2>6, <3>1, SeqEqual
  <2>8. AddInfoWifiDeconnected(l, max, e) = b
    BY <1>2, <2>0, <2>1, <2>3 DEF AddInfoWifiDeconnected
  <2>9. Youngest(a, max) = y
    <3>1. ~(Len(a) <= max) /\ Len(a) - max + 1 = 2 /\ Len(a) = Len(l) + 1
      BY <1>2, <2>0
    <3>. QED
      BY <2>5, <3>1 DEF Youngest
  <2>. QED
    BY <1>1, <2>7, <2>8, <2>9
<1>. QED
  BY <1>2, <1>3, <1>4

\* The cids of the youngest entries are the youngest cids.
LEMMA CidsYoungest ==
    ASSUME NEW l \in Seq(InfoWifi), NEW n \in Nat
    PROVE  /\ CidsInOrder(Youngest(l, n)) = Youngest(CidsInOrder(l), n)
           /\ Youngest(l, n) \in Seq(InfoWifi) /\ Len(Youngest(l, n)) <= n
<1>0. Len(l) \in Nat
  BY LenProperties
<1>1. PICK c \in Seq(Guest) : c = CidsInOrder(l)
  BY CidsOfList
<1>2. Len(c) = Len(l) /\ \A k \in 1..Len(l) : c[k] = l[k].cid
  BY <1>1, CidsOfList
<1>3. CASE Len(l) <= n
  BY <1>1, <1>2, <1>3 DEF Youngest
<1>4. CASE ~(Len(l) <= n)
  <2>0. /\ Len(l) - n + 1 \in Int /\ Len(l) \in Int
        /\ Len(l) - n + 1 <= Len(l) + 1
        /\ \A i \in (Len(l) - n + 1)..Len(l) : i \in 1..Len(l)
    BY <1>0, <1>4
  <2>1. PICK y : y = SubSeq(l, Len(l) - n + 1, Len(l))
    OBVIOUS
  <2>2. y \in Seq(InfoWifi) /\ Len(y) = n /\ \A j \in 1..n : y[j] = l[Len(l) - n + j]
    <3>1. \A i \in (Len(l) - n + 1)..Len(l) : l[i] \in InfoWifi
      BY <2>0, ElementOfSeq
    <3>2. /\ y \in Seq(InfoWifi)
          /\ Len(y) = IF Len(l) - n + 1 <= Len(l) THEN Len(l) - (Len(l) - n + 1) + 1 ELSE 0
          /\ \A j \in 1..(Len(l) - (Len(l) - n + 1) + 1) : y[j] = l[Len(l) - n + 1 + j - 1]
      BY <2>0, <2>1, <3>1, SubSeqProperties
    <3>. QED
      BY <1>0, <1>4, <3>2
  <2>3. PICK z : z = SubSeq(c, Len(l) - n + 1, Len(l))
    OBVIOUS
  <2>4. z \in Seq(Guest) /\ Len(z) = n /\ \A j \in 1..n : z[j] = c[Len(l) - n + j]
    <3>1. \A i \in (Len(l) - n + 1)..Len(l) : c[i] \in Guest
      BY <1>2, <2>0, ElementOfSeq
    <3>2. /\ z \in Seq(Guest)
          /\ Len(z) = IF Len(l) - n + 1 <= Len(l) THEN Len(l) - (Len(l) - n + 1) + 1 ELSE 0
          /\ \A j \in 1..(Len(l) - (Len(l) - n + 1) + 1) : z[j] = c[Len(l) - n + 1 + j - 1]
      BY <2>0, <2>3, <3>1, SubSeqProperties
    <3>. QED
      BY <1>0, <1>4, <3>2
  <2>5. PICK x \in Seq(Guest) : x = CidsInOrder(y)
    BY <2>2, CidsOfList
  <2>6. Len(x) = n /\ \A j \in 1..n : x[j] = y[j].cid
    BY <2>2, <2>5, CidsOfList
  <2>7. x = z
    <3>1. \A j \in 1..n : Len(l) - n + j \in 1..Len(l)
      BY <1>0, <1>4
    <3>2. \A j \in 1..Len(x) : x[j] = z[j]
      BY <1>2, <2>2, <2>4, <2>6, <3>1
    <3>. QED
      BY <2>4, <2>6, <3>2, SeqEqual
  <2>8. Youngest(l, n) = y /\ Youngest(c, n) = z
    BY <1>2, <1>4, <2>1, <2>3 DEF Youngest
  <2>9. Len(y) <= n
    BY <2>2
  <2>. QED
    BY <1>1, <2>2, <2>5, <2>7, <2>8, <2>9, Zenon
<1>. QED
  BY <1>3, <1>4

\* The cids of two lists, one behind the other.
LEMMA CidsJoined ==
    ASSUME NEW l \in Seq(InfoWifi), NEW m \in Seq(InfoWifi)
    PROVE  CidsInOrder(l \o m) = CidsInOrder(l) \o CidsInOrder(m)
<1>1. PICK a \in Seq(InfoWifi) : a = l \o m
  BY ConcatProperties
<1>2. /\ Len(l) \in Nat /\ Len(m) \in Nat /\ Len(a) = Len(l) + Len(m)
      /\ \A j \in 1..(Len(l) + Len(m)) : a[j] = IF j <= Len(l) THEN l[j] ELSE m[j - Len(l)]
  BY <1>1, ConcatProperties, LenProperties
<1>3. PICK x \in Seq(Guest), y \in Seq(Guest), z \in Seq(Guest) :
         x = CidsInOrder(l) /\ y = CidsInOrder(m) /\ z = CidsInOrder(a)
  BY CidsOfList
<1>4. /\ Len(x) = Len(l) /\ \A k \in 1..Len(l) : x[k] = l[k].cid
      /\ Len(y) = Len(m) /\ \A k \in 1..Len(m) : y[k] = m[k].cid
      /\ Len(z) = Len(a) /\ \A k \in 1..Len(a) : z[k] = a[k].cid
  <2>1. Len(x) = Len(l) /\ \A k \in 1..Len(l) : x[k] = l[k].cid
    BY <1>3, CidsOfList
  <2>2. Len(y) = Len(m) /\ \A k \in 1..Len(m) : y[k] = m[k].cid
    BY <1>3, CidsOfList
  <2>3. Len(z) = Len(a) /\ \A k \in 1..Len(a) : z[k] = a[k].cid
    BY <1>3, CidsOfList
  <2>. QED
    BY <2>1, <2>2, <2>3
<1>5. PICK w \in Seq(Guest) : w = x \o y
  BY ConcatProperties
<1>6. /\ Len(w) = Len(x) + Len(y)
      /\ \A j \in 1..(Len(x) + Len(y)) : w[j] = IF j <= Len(x) THEN x[j] ELSE y[j - Len(x)]
  BY <1>5, ConcatProperties
<1>7. ASSUME NEW j \in 1..Len(z) PROVE z[j] = w[j]
  <2>0. j \in 1..(Len(l) + Len(m)) /\ z[j] = a[j].cid
    BY <1>2, <1>4
  <2>1. CASE j <= Len(l)
    <3>1. j \in 1..Len(l) /\ a[j] = l[j] /\ w[j] = x[j]
      BY <1>2, <1>4, <1>6, <2>0, <2>1
    <3>. QED
      BY <1>4, <2>0, <3>1
  <2>2. CASE ~(j <= Len(l))
    <3>1. PICK i \in 1..Len(m) : i = j - Len(l)
      BY <1>2, <2>0, <2>2
    <3>2. a[j] = m[i] /\ w[j] = y[i]
      BY <1>2, <1>4, <1>6, <2>0, <2>2, <3>1
    <3>. QED
      BY <1>4, <2>0, <3>2
  <2>. QED
    BY <2>1, <2>2
<1>8. z = w
  BY <1>2, <1>4, <1>6, <1>7, SeqEqual
<1>. QED
  BY <1>1, <1>3, <1>5, <1>8

\* The cids of a list without one of its entries.
LEMMA CidsRemoved ==
    ASSUME NEW l \in Seq(InfoWifi), NEW k \in 1..Len(l), Once(l)
    PROVE  /\ CidsInOrder(RemoveAt(l, k)) = RemoveAt(CidsInOrder(l), k)
           /\ Cids(RemoveAt(l, k)) = Cids(l) \ {l[k].cid}
<1>0. Len(l) \in Nat
  BY LenProperties
<1>1. PICK r \in Seq(InfoWifi) : r = RemoveAt(l, k)
  BY RemoveAtProperties
<1>2. /\ Len(r) = Len(l) - 1
      /\ \A j \in 1..(Len(l) - 1) : r[j] = IF j < k THEN l[j] ELSE l[j + 1]
  BY <1>1, RemoveAtProperties
<1>3. PICK x \in Seq(Guest), z \in Seq(Guest) : x = CidsInOrder(l) /\ z = CidsInOrder(r)
  BY CidsOfList
<1>4. /\ Len(x) = Len(l) /\ \A j \in 1..Len(l) : x[j] = l[j].cid
      /\ Len(z) = Len(r) /\ \A j \in 1..Len(r) : z[j] = r[j].cid
  <2>1. Len(x) = Len(l) /\ \A j \in 1..Len(l) : x[j] = l[j].cid
    BY <1>3, CidsOfList
  <2>2. Len(z) = Len(r) /\ \A j \in 1..Len(r) : z[j] = r[j].cid
    BY <1>3, CidsOfList
  <2>. QED
    BY <2>1, <2>2
<1>5. k \in 1..Len(x)
  BY <1>4
<1>6. PICK w \in Seq(Guest) : w = RemoveAt(x, k)
  BY <1>5, RemoveAtProperties
<1>7. /\ Len(w) = Len(x) - 1
      /\ \A j \in 1..(Len(x) - 1) : w[j] = IF j < k THEN x[j] ELSE x[j + 1]
  BY <1>5, <1>6, RemoveAtProperties
<1>8. ASSUME NEW j \in 1..Len(z) PROVE z[j] = w[j]
  <2>0. j \in 1..(Len(l) - 1) /\ z[j] = r[j].cid /\ j \in 1..Len(l) /\ j + 1 \in 1..Len(l)
    BY <1>0, <1>2, <1>4
  <2>1. CASE j < k
    BY <1>2, <1>4, <1>7, <2>0, <2>1
  <2>2. CASE ~(j < k)
    BY <1>2, <1>4, <1>7, <2>0, <2>2
  <2>. QED
    BY <2>1, <2>2
<1>9. z = w
  BY <1>2, <1>4, <1>7, <1>8, SeqEqual
<1>10. ASSUME NEW c \in Cids(r) PROVE c \in Cids(l) /\ c # l[k].cid
  <2>1. PICK j \in 1..Len(r) : c = r[j].cid
    BY <1>10 DEF Cids
  <2>2. PICK i \in 1..Len(l) : i # k /\ r[j] = l[i]
    <3>1. j \in 1..(Len(l) - 1) /\ j \in 1..Len(l) /\ j + 1 \in 1..Len(l)
      BY <1>0, <1>2
    <3>2. CASE j < k
      BY <1>2, <3>1, <3>2
    <3>3. CASE ~(j < k)
      <4>1. r[j] = l[j + 1] /\ j + 1 # k
        BY <1>2, <3>1, <3>3
      <4>. QED
        BY <3>1, <4>1
    <3>. QED
      BY <3>2, <3>3
  <2>. QED
    BY <2>1, <2>2 DEF Cids, Once
<1>11. ASSUME NEW c \in Cids(l), c # l[k].cid PROVE c \in Cids(r)
  <2>1. PICK i \in 1..Len(l) : c = l[i].cid /\ i # k
    BY <1>11 DEF Cids
  <2>2. PICK j \in 1..Len(r) : r[j] = l[i]
    <3>1. CASE i < k
      <4>1. i \in 1..Len(r) /\ i \in 1..(Len(l) - 1)
        BY <1>0, <1>2, <3>1
      <4>2. r[i] = l[i]
        BY <1>2, <3>1, <4>1
      <4>. QED
        BY <4>1, <4>2
    <3>2. CASE i > k
      <4>1. i - 1 \in 1..Len(r) /\ ~(i - 1 < k) /\ (i - 1) + 1 = i
        BY <1>0, <1>2, <3>2
      <4>. QED
        BY <1>2, <4>1
    <3>. QED
      BY <2>1, <3>1, <3>2
  <2>. QED
    BY <2>1, <2>2 DEF Cids
<1>. QED
  BY <1>1, <1>3, <1>6, <1>9, <1>10, <1>11

\* The cids of a list with one more entry.
LEMMA CidsAppended ==
    ASSUME NEW l \in Seq(InfoWifi), NEW e \in InfoWifi
    PROVE  /\ Cids(Append(l, e)) = Cids(l) \cup {e.cid}
           /\ \A j \in 1..Len(Append(l, e)) :
                 (\E k \in 1..Len(l) : Append(l, e)[j] = l[k]) \/ Append(l, e)[j] = e
<1>1. PICK a : a = Append(l, e)
  OBVIOUS
<1>2. /\ Len(l) \in Nat /\ Len(a) = Len(l) + 1 /\ a[Len(l) + 1] = e
      /\ \A j \in 1..Len(l) : a[j] = l[j]
  BY <1>1, AppendProperties, LenProperties
<1>3. \A j \in 1..Len(a) : (j \in 1..Len(l) /\ a[j] = l[j]) \/ a[j] = e
  BY <1>2
<1>4. e.cid \in Cids(a) /\ Cids(l) \subseteq Cids(a)
  <2>1. Len(l) + 1 \in 1..Len(a) /\ \A j \in 1..Len(l) : j \in 1..Len(a)
    BY <1>2
  <2>. QED
    BY <1>2, <2>1 DEF Cids
<1>5. Cids(a) \subseteq Cids(l) \cup {e.cid}
  BY <1>3 DEF Cids
<1>. QED
  BY <1>1, <1>3, <1>4, <1>5

\* The order in which the guests of a list leave, if all do.
LEMMA LeavingOrder ==
    ASSUME NEW l \in Seq(InfoWifi), Once(l)
    PROVE  CidsInOrder(l) \in SetToSeqs(Cids(l))
<1>1. PICK x \in Seq(Guest) : x = CidsInOrder(l)
  BY CidsOfList
<1>2. Len(x) = Len(l) /\ \A k \in 1..Len(l) : x[k] = l[k].cid
  BY <1>1, CidsOfList
<1>3. PICK n \in Nat : n = Len(l)
  BY LenProperties
<1>4. /\ x \in [1..n -> Cids(l)]
      /\ \A i, j \in 1..n : x[i] = x[j] => i = j
      /\ \A c \in Cids(l) : \E i \in 1..n : x[i] = c
  <2>1. x = [k \in 1..n |-> l[k].cid]
    BY <1>1, <1>3 DEF CidsInOrder
  <2>. QED
    BY <1>2, <1>3, <2>1 DEF Cids, Once
<1>5. ExistsBijection(1..n, Cids(l))
  BY <1>4 DEF ExistsBijection, Bijection, Injection, Surjection, IsInjective
<1>6. Cardinality(Cids(l)) = n
  BY <1>5, FS_CountingElements
<1>. QED
  BY <1>1, <1>4, <1>6 DEF SetToSeqs

\* The entries of m are entries of l.
From(m, l) == \A j \in 1..Len(m) : \E k \in 1..Len(l) : m[j] = l[k]

\* Erasing entries makes none.
LEMMA RemovedFrom ==
    ASSUME NEW l \in Seq(InfoWifi), NEW k \in 1..Len(l)
    PROVE  From(RemoveAt(l, k), l)
<1>0. Len(l) \in Nat
  BY LenProperties
<1>1. PICK r : r = RemoveAt(l, k)
  OBVIOUS
<1>2. /\ Len(r) = Len(l) - 1
      /\ \A j \in 1..(Len(l) - 1) : r[j] = IF j < k THEN l[j] ELSE l[j + 1]
  BY <1>1, RemoveAtProperties
<1>3. ASSUME NEW j \in 1..Len(r) PROVE \E i \in 1..Len(l) : r[j] = l[i]
  <2>1. j \in 1..(Len(l) - 1) /\ j \in 1..Len(l) /\ j + 1 \in 1..Len(l)
    BY <1>0, <1>2
  <2>. QED
    BY <1>2, <2>1
<1>. QED
  BY <1>1, <1>3 DEF From

\* Nor does keeping the youngest ones.
LEMMA YoungestFrom ==
    ASSUME NEW l \in Seq(InfoWifi), NEW n \in Nat
    PROVE  From(Youngest(l, n), l)
<1>0. Len(l) \in Nat
  BY LenProperties
<1>1. CASE Len(l) <= n
  BY <1>1 DEF Youngest, From
<1>2. CASE ~(Len(l) <= n)
  <2>1. PICK y : y = SubSeq(l, Len(l) - n + 1, Len(l))
    OBVIOUS
  <2>2. Len(y) = n /\ \A j \in 1..n : y[j] = l[Len(l) - n + j]
    <3>1. \A i \in (Len(l) - n + 1)..Len(l) : l[i] \in InfoWifi
      BY <1>0, <1>2, ElementOfSeq
    <3>2. Len(l) - n + 1 \in Int /\ Len(l) \in Int
      BY <1>0
    <3>3. /\ Len(y) = IF Len(l) - n + 1 <= Len(l) THEN Len(l) - (Len(l) - n + 1) + 1 ELSE 0
          /\ \A j \in 1..(Len(l) - (Len(l) - n + 1) + 1) : y[j] = l[Len(l) - n + 1 + j - 1]
      BY <2>1, <3>1, <3>2, SubSeqProperties
    <3>. QED
      BY <1>0, <1>2, <3>3
  <2>3. \A j \in 1..n : Len(l) - n + j \in 1..Len(l)
    BY <1>0, <1>2
  <2>4. From(y, l)
    BY <2>2, <2>3 DEF From
  <2>. QED
    BY <1>2, <2>1, <2>4 DEF Youngest
<1>. QED
  BY <1>1, <1>2

\* What AddInfoWifiDeconnected does to the absent guests: the abstract list
\* gets one more and stays within its capacity.
LEMMA SavedCids ==
    ASSUME NEW l \in Seq(InfoWifi), NEW e \in InfoWifi, NEW max \in Nat \ {0}, Len(l) <= max
    PROVE  /\ CidsInOrder(AddInfoWifiDeconnected(l, max, e))
                  = Youngest(CidsInOrder(l) \o <<e.cid>>, max)
           /\ Len(AddInfoWifiDeconnected(l, max, e)) <= max
           /\ \A j \in 1..Len(AddInfoWifiDeconnected(l, max, e)) :
                 \/ \E k \in 1..Len(l) : AddInfoWifiDeconnected(l, max, e)[j] = l[k]
                 \/ AddInfoWifiDeconnected(l, max, e)[j] = e
<1>1. PICK a \in Seq(InfoWifi) : a = Append(l, e)
  BY AppendProperties
<1>2. PICK y : y = Youngest(a, max)
  OBVIOUS
<1>3. AddInfoWifiDeconnected(l, max, e) = y
  BY <1>1, <1>2, AddedYoungest
<1>4. CidsInOrder(y) = Youngest(CidsInOrder(a), max) /\ Len(y) <= max /\ From(y, a)
  BY <1>2, CidsYoungest, YoungestFrom
<1>5. CidsInOrder(a) = CidsInOrder(l) \o <<e.cid>>
  <2>1. <<e>> \in Seq(InfoWifi) /\ a = l \o <<e>>
    BY <1>1
  <2>2. CidsInOrder(<<e>>) = <<e.cid>>
    BY DEF CidsInOrder
  <2>. QED
    BY <2>1, <2>2, CidsJoined
<1>6. \A j \in 1..Len(a) : (\E k \in 1..Len(l) : a[j] = l[k]) \/ a[j] = e
  BY <1>1, CidsAppended
<1>7. \A j \in 1..Len(y) : (\E k \in 1..Len(l) : y[j] = l[k]) \/ y[j] = e
  BY <1>4, <1>6 DEF From
<1>. QED
  BY <1>3, <1>4, <1>5, <1>7, Zenon

-----------------------------------------------------------------------------
(***************************************************************************)
(* The refinement                                                          *)
(***************************************************************************)

-----------------------------------------------------------------------------
(***************************************************************************)
(* The steps of the registry                                               *)
(*                                                                         *)
(* Each way the code changes the two lists, as a step of Registry under the *)
(* refinement mapping of VwifiRegistry.                                    *)
(***************************************************************************)

\* The list of the absent guests is never longer than the registry allows.
WithinCapacity == Len(InfoWifisDeconnected["wifi"]) <= MaxDeconnected["wifi"]

\* The invariant the refinement rests on.
MapInv == IInv /\ RegistryInv /\ WithinCapacity

\* The operators that Registry takes from the library are those of this module.
LEMMA SameOperators ==
    /\ \A s : Abstract!ToSet(s) = ToSet(s)
    /\ \A s, k : Abstract!RemoveAt(s, k) = RemoveAt(s, k)
    /\ \A S : Abstract!SetToSeqs(S) = SetToSeqs(S)
<1>1. \A s : Abstract!ToSet(s) = ToSet(s)
  BY DEF Abstract!ToSet, ToSet
<1>2. \A s, k : Abstract!RemoveAt(s, k) = RemoveAt(s, k)
  BY DEF Abstract!RemoveAt, RemoveAt
<1>3. \A S : Abstract!Cardinality(S) = Cardinality(S)
  BY DEF Abstract!Cardinality, Cardinality
<1>4. \A S : Abstract!SetToSeqs(S) = SetToSeqs(S)
  BY <1>3 DEF Abstract!SetToSeqs, SetToSeqs
<1>. QED
  BY <1>1, <1>2, <1>4

\* The refinement mapping in terms of the lists.
LEMMA Mapped ==
    ASSUME NEW W, NEW D, Proper(W, D)
    PROVE  /\ W = InfoWifis["wifi"] /\ D = InfoWifisDeconnected["wifi"] =>
                /\ online = Cids(W) /\ departed = CidsInOrder(D) /\ memory = Recorded(W, D)
                /\ ToSet(departed) = Cids(D)
           /\ W = InfoWifis'["wifi"] /\ D = InfoWifisDeconnected'["wifi"] =>
                /\ online' = Cids(W) /\ departed' = CidsInOrder(D) /\ memory' = Recorded(W, D)
                /\ ToSet(departed') = Cids(D)
<1>1. ToSet(CidsInOrder(D)) = Cids(D)
  BY CidsOfList DEF Proper
<1>2. ASSUME W = InfoWifis["wifi"], D = InfoWifisDeconnected["wifi"]
      PROVE  /\ online = Cids(W) /\ departed = CidsInOrder(D) /\ memory = Recorded(W, D)
             /\ ToSet(departed) = Cids(D)
  <2>1. online = Cids(W) /\ departed = CidsInOrder(D)
    BY <1>2 DEF online, departed, CidsInOrder
  <2>2. memory = Recorded(W, D)
    BY <1>1, <1>2, <2>1, Zenon DEF memory, Recorded, Value, Latest
  <2>. QED
    BY <1>1, <2>1, <2>2
<1>3. ASSUME W = InfoWifis'["wifi"], D = InfoWifisDeconnected'["wifi"]
      PROVE  /\ online' = Cids(W) /\ departed' = CidsInOrder(D) /\ memory' = Recorded(W, D)
             /\ ToSet(departed') = Cids(D)
  <2>1. online' = Cids(W) /\ departed' = CidsInOrder(D)
    BY <1>3 DEF online, departed, CidsInOrder
  <2>2. memory' = Recorded(W, D)
    BY <1>1, <1>3, <2>1, Zenon DEF memory, Recorded, Value, Latest
  <2>. QED
    BY <1>1, <2>1, <2>2
<1>. QED
  BY <1>2, <1>3

\* The lists of the guests' server are proper.
LEMMA ProperLists ==
    ASSUME IInv, RegistryInv
    PROVE  Proper(InfoWifis["wifi"], InfoWifisDeconnected["wifi"])
  BY DEF IInv, TypeOK, RegistryInv, KnownOnce, Proper, Srv

\* W and D are the lists of the guests' server.
Before(W, D) == W = InfoWifis["wifi"] /\ D = InfoWifisDeconnected["wifi"] /\ Proper(W, D)

\* X and E are those lists after the step.
After(X, E) == X = InfoWifis'["wifi"] /\ E = InfoWifisDeconnected'["wifi"] /\ Proper(X, E)

\* The memory after a step that makes no entry but new ones with value d.
LEMMA MemoryKept ==
    ASSUME NEW W, NEW D, Before(W, D), NEW X, NEW E, After(X, E), NEW d,
           Grown(X, W, D, d), Grown(E, W, D, d)
    PROVE  memory' = Abstract!Keep(Cids(X) \cup Cids(E), d)
<1>0. Proper(W, D) /\ Proper(X, E)
  BY DEF Before, After
<1>1. memory' = Recorded(X, E) /\ memory = Recorded(W, D) /\ Abstract!Known = Cids(W) \cup Cids(D)
  BY Mapped, SameOperators DEF Before, After, Abstract!Known
<1>2. Recorded(X, E) = Kept(Recorded(W, D), Cids(W) \cup Cids(D), Cids(X) \cup Cids(E), d)
  BY <1>0, RecordedKept
<1>. QED
  BY <1>1, <1>2, Zenon DEF Abstract!Keep, Kept

\* A guest leaves.
LEMMA LeaveStep ==
    ASSUME NEW W, NEW D, Before(W, D), NEW X, NEW E, After(X, E), NEW k \in 1..Len(W),
           NEW max \in Nat \ {0}, max = MaxDeconnected["wifi"], Len(D) <= max,
           X = RemoveAt(W, k), E = AddInfoWifiDeconnected(D, max, W[k])
    PROVE  W[k].cid \in Guest /\ Abstract!Leave(W[k].cid) /\ Len(E) <= max
<1>0. W \in Seq(InfoWifi) /\ D \in Seq(InfoWifi) /\ Once(W)
  BY DEF Before, Proper
<1>1. PICK e \in InfoWifi : e = W[k]
  BY <1>0, ElementOfSeq
<1>2. e.cid \in Guest /\ e.cid \in Cids(W)
  BY <1>1 DEF InfoWifi, Cids
<1>3. /\ online = Cids(W) /\ online' = Cids(X) /\ departed = CidsInOrder(D)
      /\ departed' = CidsInOrder(E) /\ ToSet(departed') = Cids(E)
  BY Mapped DEF Before, After
<1>4. Cids(X) = Cids(W) \ {e.cid} /\ From(X, W)
  BY <1>0, <1>1, CidsRemoved, RemovedFrom
<1>5. /\ CidsInOrder(E) = Youngest(CidsInOrder(D) \o <<e.cid>>, max) /\ Len(E) <= max
      /\ \A j \in 1..Len(E) : (\E i \in 1..Len(D) : E[j] = D[i]) \/ E[j] = e
  BY <1>0, <1>1, SavedCids
<1>6. departed' = Abstract!Remembered(<<e.cid>>)
  BY <1>3, <1>5, Zenon DEF Abstract!Remembered, Youngest
<1>7. memory' = Abstract!Keep(Cids(X) \cup Cids(E), [coo |-> DefaultCoo, name |-> DefaultName])
  <2>1. \A j \in 1..Len(X) : EntryOf(X[j], W, D)
    BY <1>4 DEF From, EntryOf
  <2>2. \A j \in 1..Len(E) : EntryOf(E[j], W, D)
    BY <1>1, <1>5 DEF EntryOf
  <2>. QED
    BY <2>1, <2>2, MemoryKept DEF Grown
<1>8. Abstract!Leave(e.cid)
  BY <1>2, <1>3, <1>4, <1>6, <1>7, SameOperators, Zenon DEF Abstract!Leave
<1>. QED
  BY <1>1, <1>2, <1>5, <1>8

\* All guests leave.
LEMMA LeaveAllStep ==
    ASSUME NEW W, NEW D, Before(W, D), NEW X, NEW E, After(X, E),
           NEW max \in Nat \ {0}, max = MaxDeconnected["wifi"],
           X = <<>>, E = AddAllDeconnected(D, max, W)
    PROVE  Abstract!LeaveAll /\ Len(E) <= max
<1>0. W \in Seq(InfoWifi) /\ D \in Seq(InfoWifi) /\ Once(W)
  BY DEF Before, Proper
<1>1. PICK a \in Seq(InfoWifi) : a = D \o W
  BY <1>0, ConcatProperties
<1>2. E = Youngest(a, max)
  BY <1>1 DEF AddAllDeconnected
<1>3. /\ online = Cids(W) /\ online' = Cids(X) /\ departed = CidsInOrder(D)
      /\ departed' = CidsInOrder(E) /\ ToSet(departed') = Cids(E)
  BY Mapped DEF Before, After
<1>4. Cids(X) = {} /\ Len(X) = 0
  BY DEF Cids
<1>5. CidsInOrder(E) = Youngest(CidsInOrder(a), max) /\ Len(E) <= max /\ From(E, a)
  BY <1>2, CidsYoungest, YoungestFrom
<1>6. CidsInOrder(a) = CidsInOrder(D) \o CidsInOrder(W)
  BY <1>0, <1>1, CidsJoined
<1>7. departed' = Abstract!Remembered(CidsInOrder(W))
  BY <1>3, <1>5, <1>6, Zenon DEF Abstract!Remembered, Youngest
<1>8. \A j \in 1..Len(a) : EntryOf(a[j], W, D)
  <2>1. /\ Len(D) \in Nat /\ Len(W) \in Nat /\ Len(a) = Len(D) + Len(W)
        /\ \A j \in 1..(Len(D) + Len(W)) : a[j] = IF j <= Len(D) THEN D[j] ELSE W[j - Len(D)]
    BY <1>0, <1>1, ConcatProperties, LenProperties
  <2>2. ASSUME NEW j \in 1..Len(a) PROVE EntryOf(a[j], W, D)
    <3>1. CASE j <= Len(D)
      <4>1. j \in 1..Len(D) /\ a[j] = D[j]
        BY <2>1, <3>1
      <4>. QED
        BY <4>1 DEF EntryOf
    <3>2. CASE ~(j <= Len(D))
      <4>1. j - Len(D) \in 1..Len(W) /\ a[j] = W[j - Len(D)]
        BY <2>1, <3>2
      <4>. QED
        BY <4>1 DEF EntryOf
    <3>. QED
      BY <3>1, <3>2
  <2>. QED
    BY <2>2
<1>9. memory' = Abstract!Keep(Cids(X) \cup Cids(E), [coo |-> DefaultCoo, name |-> DefaultName])
  <2>1. \A j \in 1..Len(E) : EntryOf(E[j], W, D)
    BY <1>5, <1>8 DEF From
  <2>. QED
    BY <1>4, <2>1, MemoryKept DEF Grown
<1>10. Cids(X) \cup Cids(E) = ToSet(departed')
  BY <1>3, <1>4
<1>11. CidsInOrder(W) \in SetToSeqs(online)
  BY <1>0, <1>3, LeavingOrder
<1>12. online' = {} /\ memory' = Abstract!Keep(ToSet(departed'), [coo |-> DefaultCoo, name |-> DefaultName])
  BY <1>3, <1>4, <1>9, <1>10
<1>13. Abstract!LeaveAll
  BY <1>7, <1>11, <1>12, SameOperators, Zenon DEF Abstract!LeaveAll
<1>. QED
  BY <1>5, <1>13

\* A guest comes back.
LEMMA ReturnStep ==
    ASSUME NEW W, NEW D, Before(W, D), NEW X, NEW E, After(X, E), NEW k \in 1..Len(D),
           X = Append(W, D[k]), E = RemoveAt(D, k)
    PROVE  D[k].cid \in Guest /\ Abstract!Join(D[k].cid) /\ Len(E) <= Len(D)
<1>0. W \in Seq(InfoWifi) /\ D \in Seq(InfoWifi) /\ Once(D) /\ Apart(W, D) /\ Len(D) \in Nat
  BY LenProperties DEF Before, Proper
<1>1. PICK e \in InfoWifi : e = D[k]
  BY <1>0, ElementOfSeq
<1>2. e.cid \in Guest /\ e.cid \in Cids(D) /\ e.cid \notin Cids(W)
  BY <1>0, <1>1 DEF InfoWifi, Cids, Apart
<1>3. /\ online = Cids(W) /\ online' = Cids(X) /\ departed = CidsInOrder(D)
      /\ departed' = CidsInOrder(E) /\ ToSet(departed) = Cids(D)
  BY Mapped DEF Before, After
<1>4. /\ CidsInOrder(E) = RemoveAt(CidsInOrder(D), k) /\ Cids(E) = Cids(D) \ {e.cid}
      /\ From(E, D) /\ Len(E) <= Len(D)
  <2>1. Len(E) = Len(D) - 1
    BY <1>0, RemoveAtProperties
  <2>. QED
    BY <1>0, <1>1, <2>1, CidsRemoved, RemovedFrom
<1>5. /\ Cids(X) = Cids(W) \cup {e.cid}
      /\ \A j \in 1..Len(X) : (\E i \in 1..Len(W) : X[j] = W[i]) \/ X[j] = e
  BY <1>0, <1>1, CidsAppended
<1>6. \E i \in 1..Len(departed) : departed[i] = e.cid /\ departed' = RemoveAt(departed, i)
  <2>1. k \in 1..Len(CidsInOrder(D)) /\ CidsInOrder(D)[k] = e.cid
    BY <1>0, <1>1, CidsOfList
  <2>. QED
    BY <1>3, <1>4, <2>1, Zenon
<1>7. memory' = Abstract!Keep(Cids(X) \cup Cids(E), [coo |-> DefaultCoo, name |-> DefaultName])
  <2>1. \A j \in 1..Len(X) : EntryOf(X[j], W, D)
    BY <1>1, <1>5 DEF EntryOf
  <2>2. \A j \in 1..Len(E) : EntryOf(E[j], W, D)
    BY <1>4 DEF From, EntryOf
  <2>. QED
    BY <2>1, <2>2, MemoryKept DEF Grown
<1>8. Cids(X) \cup Cids(E) = Abstract!Known \cup {e.cid}
  BY <1>2, <1>3, <1>4, <1>5, SameOperators DEF Abstract!Known
<1>9. Abstract!Join(e.cid)
  BY <1>2, <1>3, <1>5, <1>6, <1>7, <1>8, SameOperators, Zenon DEF Abstract!Join
<1>. QED
  BY <1>1, <1>2, <1>4, <1>9

\* A guest connects that the server does not know.
LEMMA JoinStep ==
    ASSUME NEW W, NEW D, Before(W, D), NEW X, NEW E, After(X, E), NEW e \in InfoWifi,
           e.cid \notin Cids(W) \cup Cids(D),
           Value(e) = [coo |-> DefaultCoo, name |-> DefaultName],
           X = Append(W, e), E = D
    PROVE  e.cid \in Guest /\ Abstract!Join(e.cid)
<1>0. W \in Seq(InfoWifi) /\ D \in Seq(InfoWifi) /\ e.cid \in Guest
  BY DEF Before, Proper, InfoWifi
<1>1. /\ online = Cids(W) /\ online' = Cids(X) /\ departed' = departed
      /\ ToSet(departed) = Cids(D)
  <2>1. online = Cids(W) /\ departed = CidsInOrder(D) /\ ToSet(departed) = Cids(D)
    BY Mapped DEF Before
  <2>2. online' = Cids(X) /\ departed' = CidsInOrder(E)
    BY Mapped DEF After
  <2>. QED
    BY <2>1, <2>2
<1>2. /\ Cids(X) = Cids(W) \cup {e.cid}
      /\ \A j \in 1..Len(X) : (\E i \in 1..Len(W) : X[j] = W[i]) \/ X[j] = e
  BY <1>0, CidsAppended
<1>3. memory' = Abstract!Keep(Cids(X) \cup Cids(E), [coo |-> DefaultCoo, name |-> DefaultName])
  <2>0. PICK d : d = [coo |-> DefaultCoo, name |-> DefaultName] /\ Value(e) = d
    OBVIOUS
  <2>1. Grown(X, W, D, d)
    BY <1>2, <2>0, Zenon DEF Grown, EntryOf
  <2>2. Grown(E, W, D, d)
    BY DEF Grown, EntryOf
  <2>3. memory' = Abstract!Keep(Cids(X) \cup Cids(E), d)
    BY <2>1, <2>2, MemoryKept
  <2>. QED
    BY <2>0, <2>3
<1>4. Cids(X) \cup Cids(E) = Abstract!Known \cup {e.cid}
  BY <1>1, <1>2, SameOperators DEF Abstract!Known
<1>5. e.cid \notin ToSet(departed) /\ e.cid \notin online
  BY <1>1
<1>6. Abstract!Join(e.cid)
  BY <1>1, <1>2, <1>3, <1>4, <1>5, SameOperators, Zenon DEF Abstract!Join
<1>. QED
  BY <1>0, <1>6

\* The operator places a guest that was never seen.
LEMMA AnnounceStep ==
    ASSUME NEW W, NEW D, Before(W, D), NEW X, NEW E, After(X, E), NEW e \in InfoWifi,
           NEW max \in Nat \ {0}, max = MaxDeconnected["wifi"], Len(D) <= max,
           e.cid \notin Cids(W) \cup Cids(D), X = W, E = AddInfoWifiDeconnected(D, max, e)
    PROVE  /\ e.cid \in Guest /\ Value(e) \in [coo : Coo, name : Names]
           /\ Abstract!Announce(e.cid, Value(e)) /\ Len(E) <= max
<1>0. /\ W \in Seq(InfoWifi) /\ D \in Seq(InfoWifi) /\ e.cid \in Guest
      /\ Value(e) \in [coo : Coo, name : Names]
  BY DEF Before, Proper, InfoWifi, Value
<1>1. /\ online = Cids(W) /\ departed = CidsInOrder(D) /\ ToSet(departed) = Cids(D)
  BY Mapped DEF Before
<1>2. online' = Cids(X) /\ departed' = CidsInOrder(E) /\ ToSet(departed') = Cids(E)
  BY Mapped DEF After
<1>3. /\ CidsInOrder(E) = Youngest(CidsInOrder(D) \o <<e.cid>>, max) /\ Len(E) <= max
      /\ \A j \in 1..Len(E) : (\E i \in 1..Len(D) : E[j] = D[i]) \/ E[j] = e
  BY <1>0, SavedCids
<1>4. departed' = Abstract!Remembered(<<e.cid>>)
  BY <1>1, <1>2, <1>3, Zenon DEF Abstract!Remembered, Youngest
<1>5. PICK d : d = Value(e)
  OBVIOUS
<1>6. memory' = Abstract!Keep(Cids(X) \cup Cids(E), d)
  <2>1. Grown(X, W, D, d)
    BY DEF Grown, EntryOf
  <2>2. Grown(E, W, D, d)
    BY <1>3, <1>5, Zenon DEF Grown, EntryOf
  <2>. QED
    BY <2>1, <2>2, MemoryKept
<1>7. e.cid \notin Abstract!Known
  BY <1>1, SameOperators DEF Abstract!Known
<1>8. Abstract!Announce(e.cid, d)
  BY <1>1, <1>2, <1>4, <1>6, <1>7, SameOperators, Zenon DEF Abstract!Announce
<1>. QED
  BY <1>0, <1>3, <1>5, <1>8

\* The entries of l are entries of W or D, but for that of c, which has value d.
Altered(l, W, D, c, d) ==
    \A j \in 1..Len(l) : \/ EntryOf(l[j], W, D) /\ l[j].cid # c
                         \/ l[j].cid = c /\ Value(l[j]) = d

\* The operator gives a guest a new value.
LEMMA UpdateStep ==
    ASSUME NEW W, NEW D, Before(W, D), NEW X, NEW E, After(X, E), NEW c, NEW d,
           c \in Cids(W) \cup Cids(D), Cids(X) = Cids(W), CidsInOrder(E) = CidsInOrder(D),
           Altered(X, W, D, c, d), Altered(E, W, D, c, d)
    PROVE  Abstract!Update(c, d)
<1>0. Proper(W, D) /\ Proper(X, E)
  BY DEF Before, After
<1>1. /\ online = Cids(W) /\ departed = CidsInOrder(D) /\ ToSet(departed) = Cids(D)
      /\ memory = Recorded(W, D)
  BY Mapped DEF Before
<1>2. /\ online' = Cids(X) /\ departed' = CidsInOrder(E) /\ ToSet(departed') = Cids(E)
      /\ memory' = Recorded(X, E)
  BY Mapped DEF After
<1>3. Cids(X) \cup Cids(E) = Cids(W) \cup Cids(D)
  BY <1>1, <1>2
<1>4. PICK m, n : m = Recorded(W, D) /\ n = Recorded(X, E)
  OBVIOUS
<1>5. Holds(m, W) /\ Holds(m, D) /\ Holds(n, X) /\ Holds(n, E)
  BY <1>0, <1>4, RecordedValues
<1>6. ASSUME NEW b \in Cids(X) \cup Cids(E) PROVE n[b] = IF b = c THEN d ELSE m[b]
  <2>1. PICK e : /\ b = e.cid /\ n[b] = Value(e)
                 /\ \/ EntryOf(e, W, D) /\ e.cid # c
                    \/ e.cid = c /\ Value(e) = d
    <3>1. CASE b \in Cids(X)
      <4>1. PICK j \in 1..Len(X) : b = X[j].cid
        BY <3>1 DEF Cids
      <4>. QED
        BY <1>5, <4>1 DEF Altered, Holds
    <3>2. CASE b \in Cids(E)
      <4>1. PICK j \in 1..Len(E) : b = E[j].cid
        BY <3>2 DEF Cids
      <4>. QED
        BY <1>5, <4>1 DEF Altered, Holds
    <3>. QED
      BY <3>1, <3>2
  <2>2. EntryOf(e, W, D) => m[e.cid] = Value(e)
    BY <1>5 DEF EntryOf, Holds
  <2>. QED
    BY <2>1, <2>2
<1>7. /\ n = [b \in Cids(X) \cup Cids(E) |-> n[b]]
      /\ m = [b \in Cids(W) \cup Cids(D) |-> m[b]]
  BY <1>4 DEF Recorded
<1>8. n = [m EXCEPT ![c] = d]
  BY <1>3, <1>6, <1>7
<1>9. c \in Abstract!Known /\ memory' = [memory EXCEPT ![c] = d]
  BY <1>1, <1>2, <1>4, <1>8, SameOperators DEF Abstract!Known
<1>. QED
  BY <1>1, <1>2, <1>9 DEF Abstract!Update

\* m is list l with entry e in the place of the one that had its cid.
OneNew(m, l, e) == \A j \in 1..Len(l) : (m[j] = l[j] /\ l[j].cid # e.cid) \/ m[j] = e

\* Replacing an entry by one with its cid keeps the cids and their order.
LEMMA ChangedList ==
    ASSUME NEW l \in Seq(InfoWifi), Once(l), NEW k \in 1..Len(l), NEW e \in InfoWifi,
           e.cid = l[k].cid, NEW m, m = [l EXCEPT ![k] = e]
    PROVE  /\ m \in Seq(InfoWifi) /\ Len(m) = Len(l)
           /\ CidsInOrder(m) = CidsInOrder(l) /\ Cids(m) = Cids(l) /\ e.cid \in Cids(l)
           /\ OneNew(m, l, e)
<1>1. m \in Seq(InfoWifi) /\ Len(m) = Len(l) /\ \A j \in 1..Len(l) : m[j] = IF j = k THEN e ELSE l[j]
  BY ExceptSeq
<1>2. \A j \in 1..Len(l) : m[j].cid = l[j].cid
  BY <1>1
<1>3. Cids(m) = Cids(l) /\ e.cid \in Cids(l)
  BY <1>1, <1>2 DEF Cids
<1>4. CidsInOrder(m) = CidsInOrder(l)
  BY <1>1, <1>2 DEF CidsInOrder
<1>5. OneNew(m, l, e)
  BY <1>1 DEF Once, OneNew
<1>. QED
  BY <1>1, <1>3, <1>4, <1>5

\* A connected guest gets a new value.
LEMMA OnlineUpdate ==
    ASSUME NEW W, NEW D, Before(W, D), NEW X, NEW E, After(X, E), NEW k \in 1..Len(W),
           NEW e \in InfoWifi, e.cid = W[k].cid, X = [W EXCEPT ![k] = e], E = D
    PROVE  /\ e.cid \in Guest /\ Value(e) \in [coo : Coo, name : Names]
           /\ Abstract!Update(e.cid, Value(e))
<1>0. /\ W \in Seq(InfoWifi) /\ Once(W) /\ Apart(W, D)
      /\ e.cid \in Guest /\ Value(e) \in [coo : Coo, name : Names]
  BY DEF Before, Proper, InfoWifi, Value
<1>1. /\ Cids(X) = Cids(W) /\ e.cid \in Cids(W) /\ Len(X) = Len(W)
      /\ OneNew(X, W, e)
  BY <1>0, ChangedList
<1>2. PICK c, d : c = e.cid /\ d = Value(e)
  OBVIOUS
<1>3. Altered(X, W, D, c, d)
  BY <1>1, <1>2 DEF Altered, EntryOf, OneNew
<1>4. Altered(E, W, D, c, d)
  BY <1>0, <1>2 DEF Altered, EntryOf, Apart
<1>5. c \in Cids(W) \cup Cids(D)
  BY <1>1, <1>2
<1>6. Abstract!Update(c, d)
  BY <1>1, <1>3, <1>4, <1>5, UpdateStep
<1>. QED
  BY <1>0, <1>2, <1>6

\* A guest that is absent gets a new value.
LEMMA AbsentUpdate ==
    ASSUME NEW W, NEW D, Before(W, D), NEW X, NEW E, After(X, E), NEW k \in 1..Len(D),
           NEW e \in InfoWifi, e.cid = D[k].cid, X = W, E = [D EXCEPT ![k] = e]
    PROVE  /\ e.cid \in Guest /\ Value(e) \in [coo : Coo, name : Names]
           /\ Abstract!Update(e.cid, Value(e)) /\ Len(E) = Len(D)
<1>0. /\ D \in Seq(InfoWifi) /\ Once(D) /\ Apart(W, D)
      /\ e.cid \in Guest /\ Value(e) \in [coo : Coo, name : Names]
  BY DEF Before, Proper, InfoWifi, Value
<1>1. /\ CidsInOrder(E) = CidsInOrder(D) /\ e.cid \in Cids(D) /\ Len(E) = Len(D)
      /\ OneNew(E, D, e)
  BY <1>0, ChangedList
<1>2. PICK c, d : c = e.cid /\ d = Value(e)
  OBVIOUS
<1>3. Altered(E, W, D, c, d)
  BY <1>1, <1>2 DEF Altered, EntryOf, OneNew
<1>4. Altered(X, W, D, c, d)
  BY <1>0, <1>2 DEF Altered, EntryOf, Apart
<1>5. c \in Cids(W) \cup Cids(D)
  BY <1>1, <1>2
<1>6. Abstract!Update(c, d)
  BY <1>1, <1>3, <1>4, <1>5, UpdateStep
<1>. QED
  BY <1>0, <1>1, <1>2, <1>6

-----------------------------------------------------------------------------
(***************************************************************************)
(* The steps of the server as steps of the registry                        *)
(***************************************************************************)

-----------------------------------------------------------------------------
(***************************************************************************)
(* The server implements the registry                                      *)
(***************************************************************************)

\* A step of the registry, or none.
RegistryStep == Abstract!Next \/ UNCHANGED <<online, departed, memory>>

\* The lists of the guests' server stay as they are.
LEMMA NothingMaps ==
    ASSUME NEW W, NEW D, Before(W, D), NEW X, NEW E, After(X, E), X = W, E = D, WithinCapacity
    PROVE  RegistryStep /\ WithinCapacity'
<1>1. online = Cids(W) /\ departed = CidsInOrder(D) /\ memory = Recorded(W, D)
  BY Mapped DEF Before
<1>2. online' = Cids(X) /\ departed' = CidsInOrder(E) /\ memory' = Recorded(X, E)
  BY Mapped DEF After
<1>3. UNCHANGED <<online, departed, memory>>
  BY <1>1, <1>2
<1>4. WithinCapacity'
  BY DEF WithinCapacity, Before, After
<1>. QED
  BY <1>3, <1>4 DEF RegistryStep

\* The lists after an accepted connection.
LEMMA AdmittedLists ==
    ASSUME IInv, NEW p \in Port, NEW ss, NEW L, NEW coo, NEW name, Admit(p, ss, L, coo, name),
           NEW W, NEW D, Before(W, D), NEW X, NEW E, After(X, E)
    PROVE  /\ SrvOf(p) = "wifi" =>
                 /\ X = Append(W, [cid |-> Head(backlog[p]).cid, coo |-> coo, name |-> name])
                 /\ E = L
           /\ SrvOf(p) # "wifi" => X = W /\ E = D
<1>1. /\ InfoWifis \in [Srv -> Seq(InfoWifi)] /\ InfoWifisDeconnected \in [Srv -> Seq(InfoWifi)]
      /\ "wifi" \in Srv /\ SrvOf(p) \in Srv
  BY DEF IInv, TypeOK, Srv, SrvOf
<1>2. PICK e : e = [cid |-> Head(backlog[p]).cid, coo |-> coo, name |-> name]
  OBVIOUS
<1>3. /\ InfoWifis' = [InfoWifis EXCEPT ![SrvOf(p)] = Append(InfoWifis[SrvOf(p)], e)]
      /\ InfoWifisDeconnected' = [InfoWifisDeconnected EXCEPT ![SrvOf(p)] = L]
  BY <1>2 DEF Admit
<1>4. SrvOf(p) = "wifi" => X = Append(W, e) /\ E = L
  BY <1>1, <1>3, Zenon DEF Before, After
<1>5. SrvOf(p) # "wifi" => X = W /\ E = D
  BY <1>1, <1>3, Zenon DEF Before, After
<1>. QED
  BY <1>2, <1>4, <1>5

\* AcceptReturning: on a port of the guests, one of them comes back.
LEMMA ReturningMaps ==
    ASSUME MapInv, NEW p \in Port, AcceptReturning(p),
           NEW W, NEW D, Before(W, D), NEW X, NEW E, After(X, E)
    PROVE  RegistryStep /\ WithinCapacity'
<1>0. IInv /\ RegistryInv /\ WithinCapacity
  BY DEF MapInv
<1>1. CASE SrvOf(p) # "wifi"
  <2>1. PICK ss, L, coo, name : Admit(p, ss, L, coo, name)
    BY DEF AcceptReturning
  <2>2. X = W /\ E = D
    BY <1>0, <1>1, <2>1, AdmittedLists
  <2>. QED
    BY <1>0, <2>2, NothingMaps
<1>2. CASE SrvOf(p) = "wifi"
  <2>1. PICK c : c = Head(backlog[p]).cid
    OBVIOUS
  <2>2. D \in Seq(InfoWifi) /\ D = InfoWifisDeconnected["wifi"] /\ Len(D) \in Nat
    BY LenProperties DEF Before, Proper
  <2>3. PICK d : d = IndexByCID(D, c)
    OBVIOUS
  <2>4. d # 0 /\ Admit(p, InfoSockets["wifi"], RemoveAt(D, d), D[d].coo, D[d].name)
    BY <1>2, <2>1, <2>2, <2>3 DEF AcceptReturning
  <2>5. d \in 1..Len(D) /\ D[d] \in InfoWifi /\ D[d].cid = c
    BY <2>2, <2>3, <2>4, IndexByCIDProperties, ElementOfSeq
  <2>6. D[d] = [cid |-> c, coo |-> D[d].coo, name |-> D[d].name]
    BY <2>5 DEF InfoWifi
  <2>7. X = Append(W, D[d]) /\ E = RemoveAt(D, d)
    BY <1>0, <1>2, <2>1, <2>4, <2>6, AdmittedLists
  <2>8. D[d].cid \in Guest /\ Abstract!Join(D[d].cid) /\ Len(E) <= Len(D) /\ Len(E) \in Nat
    <3>1. Len(E) \in Nat
      BY LenProperties DEF After, Proper
    <3>. QED
      BY <2>5, <2>7, <3>1, ReturnStep
  <2>9. RegistryStep
    BY <2>8 DEF RegistryStep, Abstract!Next
  <2>10. WithinCapacity'
    <3>1. MaxDeconnected["wifi"] \in Nat
      BY ConstantsAssumption DEF Srv
    <3>. QED
      BY <1>0, <2>2, <2>8, <3>1 DEF WithinCapacity, After
  <2>. QED
    BY <2>9, <2>10
<1>. QED
  BY <1>1, <1>2

\* AcceptNew: on a port of the guests, one joins that was not known.
LEMMA NewMaps ==
    ASSUME MapInv, NEW p \in Port, AcceptNew(p),
           NEW W, NEW D, Before(W, D), NEW X, NEW E, After(X, E)
    PROVE  RegistryStep /\ WithinCapacity'
<1>0. IInv /\ RegistryInv /\ WithinCapacity
  BY DEF MapInv
<1>1. CASE SrvOf(p) # "wifi"
  <2>1. PICK ss, L, coo, name : Admit(p, ss, L, coo, name)
    BY DEF AcceptNew
  <2>2. X = W /\ E = D
    BY <1>0, <1>1, <2>1, AdmittedLists
  <2>. QED
    BY <1>0, <2>2, NothingMaps
<1>2. CASE SrvOf(p) = "wifi"
  <2>1. PICK c : c = Head(backlog[p]).cid
    OBVIOUS
  <2>2. /\ D \in Seq(InfoWifi) /\ D = InfoWifisDeconnected["wifi"] /\ W = InfoWifis["wifi"]
        /\ E = InfoWifisDeconnected'["wifi"]
    BY DEF Before, After, Proper
  <2>3. /\ Incoming(p) /\ IndexByCID(D, c) = 0
        /\ Admit(p, InfoSockets["wifi"], D, DefaultCoo, DefaultName)
    BY <1>2, <2>1, <2>2 DEF AcceptNew
  <2>4. backlog[p] # <<>> /\ Without(W, c)
    BY <1>0, <1>2, <2>1, <2>2, <2>3, WaitingUnknown
  <2>5. c \notin Cids(W) \cup Cids(D)
    <3>1. \A k \in 1..Len(D) : D[k].cid # c
      BY <2>2, <2>3, IndexByCIDProperties
    <3>. QED
      BY <2>4, <3>1 DEF Without, Cids
  <2>6. c \in Guest
    <3>1. Head(backlog[p]) \in Connection
      BY <1>0, <2>4, HeadTailProperties DEF IInv, TypeOK
    <3>. QED
      BY <2>1, <3>1 DEF Connection
  <2>7. PICK e \in InfoWifi : /\ e = [cid |-> c, coo |-> DefaultCoo, name |-> DefaultName]
                              /\ e.cid = c
                              /\ Value(e) = [coo |-> DefaultCoo, name |-> DefaultName]
    <3>1. [cid |-> c, coo |-> DefaultCoo, name |-> DefaultName] \in InfoWifi
      BY <2>6, ConstantsAssumption DEF InfoWifi
    <3>. QED
      BY <3>1 DEF Value
  <2>8. X = Append(W, e) /\ E = D
    BY <1>0, <1>2, <2>1, <2>3, <2>7, AdmittedLists
  <2>9. e.cid \in Guest /\ Abstract!Join(e.cid)
    BY <2>5, <2>7, <2>8, JoinStep
  <2>10. RegistryStep
    BY <2>9 DEF RegistryStep, Abstract!Next
  <2>11. WithinCapacity'
    BY <1>0, <2>2, <2>8 DEF WithinCapacity
  <2>. QED
    BY <2>10, <2>11
<1>. QED
  BY <1>1, <1>2

\* A guest is removed.
LEMMA RemoveMaps ==
    ASSUME MapInv, NEW s \in Srv, Visiting(s), RemoveClient(s, index),
           NEW W, NEW D, Before(W, D), NEW X, NEW E, After(X, E)
    PROVE  RegistryStep /\ WithinCapacity'
<1>0. IInv /\ RegistryInv /\ WithinCapacity
  BY DEF MapInv
<1>1. /\ InfoWifis \in [Srv -> Seq(InfoWifi)] /\ InfoWifisDeconnected \in [Srv -> Seq(InfoWifi)]
      /\ index \in 1..Len(InfoWifis[s]) /\ "wifi" \in Srv
  BY <1>0, ListFacts DEF Visiting, IInv, TypeOK, Aligned, Srv
<1>2. PICK w, a : /\ w = RemoveAt(InfoWifis[s], index)
                  /\ a = AddInfoWifiDeconnected(InfoWifisDeconnected[s], MaxDeconnected[s],
                             InfoWifis[s][index])
  OBVIOUS
<1>3. /\ InfoWifis' = [InfoWifis EXCEPT ![s] = w]
      /\ InfoWifisDeconnected' = [InfoWifisDeconnected EXCEPT ![s] = a]
  BY <1>2 DEF RemoveClient
<1>4. CASE s # "wifi"
  <2>1. X = W /\ E = D
    BY <1>1, <1>3, <1>4, Zenon DEF Before, After
  <2>. QED
    BY <1>0, <2>1, NothingMaps
<1>5. CASE s = "wifi"
  <2>1. X = w /\ E = a
    BY <1>1, <1>3, <1>5, Zenon DEF After
  <2>2. W = InfoWifis["wifi"] /\ D = InfoWifisDeconnected["wifi"] /\ E = InfoWifisDeconnected'["wifi"]
    BY DEF Before, After
  <2>3. PICK max \in Nat \ {0} : max = MaxDeconnected["wifi"]
    BY <1>1, ConstantsAssumption
  <2>4. /\ index \in 1..Len(W) /\ X = RemoveAt(W, index)
        /\ E = AddInfoWifiDeconnected(D, max, W[index]) /\ Len(D) <= max
    BY <1>0, <1>1, <1>2, <1>5, <2>1, <2>2, <2>3 DEF WithinCapacity
  <2>5. PICK k \in 1..Len(W) : k = index
    BY <2>4
  <2>6. W[k].cid \in Guest /\ Abstract!Leave(W[k].cid) /\ Len(E) <= max
    BY <2>3, <2>4, <2>5, LeaveStep
  <2>7. RegistryStep
    BY <2>6 DEF RegistryStep, Abstract!Next
  <2>8. WithinCapacity'
    BY <2>2, <2>3, <2>6 DEF WithinCapacity
  <2>. QED
    BY <2>7, <2>8
<1>. QED
  BY <1>4, <1>5

\* All guests are removed.
LEMMA CloseAllMaps ==
    ASSUME MapInv, CloseAllClient, NEW W, NEW D, Before(W, D), NEW X, NEW E, After(X, E)
    PROVE  RegistryStep /\ WithinCapacity'
<1>1. W = InfoWifis["wifi"] /\ D = InfoWifisDeconnected["wifi"] /\ E = InfoWifisDeconnected'["wifi"]
  BY DEF Before, After
<1>2. PICK max \in Nat \ {0} : max = MaxDeconnected["wifi"]
  BY ConstantsAssumption DEF Srv
<1>3. X = <<>> /\ E = AddAllDeconnected(D, max, W)
  BY <1>1, <1>2 DEF CloseAllClient, After, Srv
<1>4. Abstract!LeaveAll /\ Len(E) <= max
  BY <1>2, <1>3, LeaveAllStep
<1>5. RegistryStep
  BY <1>4 DEF RegistryStep, Abstract!Next
<1>6. WithinCapacity'
  BY <1>1, <1>2, <1>4 DEF WithinCapacity
<1>. QED
  BY <1>5, <1>6

\* An order changes the entry of a connected guest.
LEMMA OnlineMaps ==
    ASSUME WithinCapacity, NEW W, NEW D, Before(W, D), NEW X, NEW E, After(X, E),
           NEW k \in 1..Len(W), NEW e \in InfoWifi, e.cid = W[k].cid, X = [W EXCEPT ![k] = e], E = D
    PROVE  RegistryStep /\ WithinCapacity'
<1>1. PICK c \in Guest, d \in [coo : Coo, name : Names] : Abstract!Update(c, d)
  BY OnlineUpdate
<1>2. RegistryStep
  BY <1>1 DEF RegistryStep, Abstract!Next
<1>3. WithinCapacity'
  BY DEF WithinCapacity, Before, After
<1>. QED
  BY <1>2, <1>3

\* An order changes the entry of a guest that is absent.
LEMMA AbsentMaps ==
    ASSUME WithinCapacity, NEW W, NEW D, Before(W, D), NEW X, NEW E, After(X, E),
           NEW k \in 1..Len(D), NEW e \in InfoWifi, e.cid = D[k].cid, X = W, E = [D EXCEPT ![k] = e]
    PROVE  RegistryStep /\ WithinCapacity'
<1>0. Len(E) = Len(D)
  BY AbsentUpdate
<1>1. PICK c \in Guest, d \in [coo : Coo, name : Names] : Abstract!Update(c, d)
  BY AbsentUpdate
<1>2. RegistryStep
  BY <1>1 DEF RegistryStep, Abstract!Next
<1>3. Len(InfoWifisDeconnected'["wifi"]) = Len(InfoWifisDeconnected["wifi"])
  BY <1>0 DEF Before, After
<1>4. WithinCapacity'
  BY <1>3 DEF WithinCapacity
<1>. QED
  BY <1>2, <1>4

\* ChangeCoordinate: the guest is connected, absent, or announced by the order.
LEMMA CoordinateMaps ==
    ASSUME MapInv, ChangeCoordinate, NEW W, NEW D, Before(W, D), NEW X, NEW E, After(X, E)
    PROVE  RegistryStep /\ WithinCapacity'
<1>0. IInv /\ RegistryInv /\ WithinCapacity
  BY DEF MapInv
<1>1. /\ InfoWifis \in [Srv -> Seq(InfoWifi)] /\ InfoWifisDeconnected \in [Srv -> Seq(InfoWifi)]
      /\ W = InfoWifis["wifi"] /\ D = InfoWifisDeconnected["wifi"]
      /\ W \in Seq(InfoWifi) /\ D \in Seq(InfoWifi)
      /\ X = InfoWifis'["wifi"] /\ E = InfoWifisDeconnected'["wifi"]
  BY <1>0 DEF IInv, TypeOK, Before, After, Proper
<1>2. PICK o : o = Head(orders)
  OBVIOUS
<1>3. o.cid \in CID /\ o.coo \in Coo
  <2>1. ReceiveOrder({"coordinate"})
    BY DEF ChangeCoordinate
  <2>2. o \in Order /\ o.type = "coordinate"
    BY <1>0, <1>2, <2>1, OrderFacts DEF ReceiveOrder
  <2>. QED
    BY <2>2 DEF Order
<1>4. PICK w, d : w = IndexByCID(W, o.cid) /\ d = IndexByCID(D, o.cid)
  OBVIOUS
<1>5. /\ w # 0 => w \in 1..Len(W) /\ W[w] \in InfoWifi
      /\ d # 0 => d \in 1..Len(D) /\ D[d] \in InfoWifi
      /\ w = 0 => o.cid \notin Cids(W)
      /\ d = 0 => o.cid \notin Cids(D)
  <2>1. /\ w # 0 => w \in 1..Len(W)
        /\ d # 0 => d \in 1..Len(D)
        /\ w = 0 => \A k \in 1..Len(W) : W[k].cid # o.cid
        /\ d = 0 => \A k \in 1..Len(D) : D[k].cid # o.cid
    BY <1>1, <1>4, IndexByCIDProperties
  <2>. QED
    BY <1>1, <2>1, ElementOfSeq DEF Cids
<1>6. CASE UNCHANGED <<InfoWifis, InfoWifisDeconnected>>
  BY <1>0, <1>1, <1>6, NothingMaps
<1>7. CASE /\ w # 0 /\ UNCHANGED InfoWifisDeconnected
           /\ InfoWifis' = [InfoWifis EXCEPT !["wifi"][w].coo = o.coo]
  <2>1. PICK e \in InfoWifi : e = [W[w] EXCEPT !.coo = o.coo] /\ e.cid = W[w].cid
    <3>1. /\ [W[w] EXCEPT !.coo = o.coo] \in InfoWifi
          /\ [W[w] EXCEPT !.coo = o.coo].cid = W[w].cid
      BY <1>3, <1>5, <1>7 DEF InfoWifi
    <3>. QED
      BY <3>1
  <2>2. PICK l : l = [W EXCEPT ![w] = e] /\ InfoWifis' = [InfoWifis EXCEPT !["wifi"] = l]
    BY <1>1, <1>7, <2>1
  <2>3. X = l
    BY <1>1, <2>2, Zenon DEF Srv
  <2>4. E = D /\ w \in 1..Len(W)
    BY <1>1, <1>5, <1>7
  <2>5. PICK k \in 1..Len(W) : e.cid = W[k].cid /\ X = [W EXCEPT ![k] = e]
    BY <2>1, <2>2, <2>3, <2>4, Zenon
  <2>. QED
    BY <1>0, <2>4, <2>5, OnlineMaps
<1>8. CASE /\ d # 0 /\ UNCHANGED InfoWifis
           /\ InfoWifisDeconnected' = [InfoWifisDeconnected EXCEPT !["wifi"][d].coo = o.coo]
  <2>1. PICK e \in InfoWifi : e = [D[d] EXCEPT !.coo = o.coo] /\ e.cid = D[d].cid
    <3>1. /\ [D[d] EXCEPT !.coo = o.coo] \in InfoWifi
          /\ [D[d] EXCEPT !.coo = o.coo].cid = D[d].cid
      BY <1>3, <1>5, <1>8 DEF InfoWifi
    <3>. QED
      BY <3>1
  <2>2. PICK l : /\ l = [D EXCEPT ![d] = e]
                 /\ InfoWifisDeconnected' = [InfoWifisDeconnected EXCEPT !["wifi"] = l]
    BY <1>1, <1>8, <2>1
  <2>3. E = l
    BY <1>1, <2>2, Zenon DEF Srv
  <2>4. X = W /\ d \in 1..Len(D)
    BY <1>1, <1>5, <1>8
  <2>5. PICK k \in 1..Len(D) : e.cid = D[k].cid /\ E = [D EXCEPT ![k] = e]
    BY <2>1, <2>2, <2>3, <2>4, Zenon
  <2>. QED
    BY <1>0, <2>4, <2>5, AbsentMaps
<1>9. CASE /\ o.cid >= TCID_GUEST_MIN /\ w = 0 /\ d = 0 /\ UNCHANGED InfoWifis
           /\ InfoWifisDeconnected' = [InfoWifisDeconnected EXCEPT !["wifi"] =
                  AddInfoWifiDeconnected(D, MaxDeconnected["wifi"],
                      [cid |-> o.cid, coo |-> o.coo, name |-> DefaultName])]
  <2>1. PICK e \in InfoWifi : /\ e = [cid |-> o.cid, coo |-> o.coo, name |-> DefaultName]
                              /\ e.cid = o.cid
    <3>1. [cid |-> o.cid, coo |-> o.coo, name |-> DefaultName] \in InfoWifi
      BY <1>3, <1>9, ConstantsAssumption DEF InfoWifi, Guest
    <3>. QED
      BY <3>1
  <2>2. PICK max \in Nat \ {0} : max = MaxDeconnected["wifi"]
    BY ConstantsAssumption DEF Srv
  <2>3. PICK a : a = AddInfoWifiDeconnected(D, max, e)
    OBVIOUS
  <2>4. InfoWifisDeconnected' = [InfoWifisDeconnected EXCEPT !["wifi"] = a] /\ "wifi" \in Srv
    BY <1>9, <2>1, <2>2, <2>3 DEF Srv
  <2>5. E = AddInfoWifiDeconnected(D, max, e) /\ X = W
    BY <1>1, <1>9, <2>3, <2>4, Zenon
  <2>6. e.cid \notin Cids(W) \cup Cids(D) /\ Len(D) <= max
    BY <1>0, <1>1, <1>5, <1>9, <2>1, <2>2 DEF WithinCapacity
  <2>7. /\ e.cid \in Guest /\ Value(e) \in [coo : Coo, name : Names]
        /\ Abstract!Announce(e.cid, Value(e)) /\ Len(E) <= max
    BY <2>2, <2>5, <2>6, AnnounceStep
  <2>8. RegistryStep
    <3>1. PICK c \in Guest, v \in [coo : Coo, name : Names] : Abstract!Announce(c, v)
      BY <2>7
    <3>. QED
      BY <3>1 DEF RegistryStep, Abstract!Next
  <2>9. WithinCapacity'
    BY <1>1, <2>2, <2>7 DEF WithinCapacity
  <2>. QED
    BY <2>8, <2>9
<1>. QED
  BY <1>1, <1>2, <1>4, <1>6, <1>7, <1>8, <1>9 DEF ChangeCoordinate

\* SetName; the name of a spy is not one of a guest.
LEMMA NameMaps ==
    ASSUME MapInv, SetName, NEW W, NEW D, Before(W, D), NEW X, NEW E, After(X, E)
    PROVE  RegistryStep /\ WithinCapacity'
<1>0. IInv /\ RegistryInv /\ WithinCapacity
  BY DEF MapInv
<1>1. /\ InfoWifis \in [Srv -> Seq(InfoWifi)] /\ InfoWifisDeconnected \in [Srv -> Seq(InfoWifi)]
      /\ W = InfoWifis["wifi"] /\ D = InfoWifisDeconnected["wifi"]
      /\ W \in Seq(InfoWifi) /\ D \in Seq(InfoWifi)
      /\ X = InfoWifis'["wifi"] /\ E = InfoWifisDeconnected'["wifi"]
  BY <1>0 DEF IInv, TypeOK, Before, After, Proper
<1>2. PICK o : o = Head(orders)
  OBVIOUS
<1>3. o.cid \in CID /\ o.name \in Names
  <2>1. ReceiveOrder({"name"})
    BY DEF SetName
  <2>2. o \in Order /\ o.type = "name"
    BY <1>0, <1>2, <2>1, OrderFacts DEF ReceiveOrder
  <2>. QED
    BY <2>2 DEF Order
<1>4. PICK w, d, y : /\ w = IndexByCID(W, o.cid) /\ d = IndexByCID(D, o.cid)
                     /\ y = IndexByCID(InfoWifis["spy"], o.cid)
  OBVIOUS
<1>5. /\ w # 0 => w \in 1..Len(W) /\ W[w] \in InfoWifi
      /\ d # 0 => d \in 1..Len(D) /\ D[d] \in InfoWifi
  BY <1>1, <1>4, IndexByCIDProperties, ElementOfSeq
<1>6. CASE UNCHANGED <<InfoWifis, InfoWifisDeconnected>>
  BY <1>0, <1>1, <1>6, NothingMaps
<1>7. CASE /\ w # 0 /\ UNCHANGED InfoWifisDeconnected
           /\ InfoWifis' = [InfoWifis EXCEPT !["wifi"][w].name = o.name]
  <2>1. PICK e \in InfoWifi : e = [W[w] EXCEPT !.name = o.name] /\ e.cid = W[w].cid
    <3>1. /\ [W[w] EXCEPT !.name = o.name] \in InfoWifi
          /\ [W[w] EXCEPT !.name = o.name].cid = W[w].cid
      BY <1>3, <1>5, <1>7 DEF InfoWifi
    <3>. QED
      BY <3>1
  <2>2. PICK l : l = [W EXCEPT ![w] = e] /\ InfoWifis' = [InfoWifis EXCEPT !["wifi"] = l]
    BY <1>1, <1>7, <2>1
  <2>3. X = l
    BY <1>1, <2>2, Zenon DEF Srv
  <2>4. E = D /\ w \in 1..Len(W)
    BY <1>1, <1>5, <1>7
  <2>5. PICK k \in 1..Len(W) : e.cid = W[k].cid /\ X = [W EXCEPT ![k] = e]
    BY <2>1, <2>2, <2>3, <2>4, Zenon
  <2>. QED
    BY <1>0, <2>4, <2>5, OnlineMaps
<1>8. CASE /\ d # 0 /\ UNCHANGED InfoWifis
           /\ InfoWifisDeconnected' = [InfoWifisDeconnected EXCEPT !["wifi"][d].name = o.name]
  <2>1. PICK e \in InfoWifi : e = [D[d] EXCEPT !.name = o.name] /\ e.cid = D[d].cid
    <3>1. /\ [D[d] EXCEPT !.name = o.name] \in InfoWifi
          /\ [D[d] EXCEPT !.name = o.name].cid = D[d].cid
      BY <1>3, <1>5, <1>8 DEF InfoWifi
    <3>. QED
      BY <3>1
  <2>2. PICK l : /\ l = [D EXCEPT ![d] = e]
                 /\ InfoWifisDeconnected' = [InfoWifisDeconnected EXCEPT !["wifi"] = l]
    BY <1>1, <1>8, <2>1
  <2>3. E = l
    BY <1>1, <2>2, Zenon DEF Srv
  <2>4. X = W /\ d \in 1..Len(D)
    BY <1>1, <1>5, <1>8
  <2>5. PICK k \in 1..Len(D) : e.cid = D[k].cid /\ E = [D EXCEPT ![k] = e]
    BY <2>1, <2>2, <2>3, <2>4, Zenon
  <2>. QED
    BY <1>0, <2>4, <2>5, AbsentMaps
<1>9. CASE /\ UNCHANGED InfoWifisDeconnected
           /\ InfoWifis' = [InfoWifis EXCEPT !["spy"][y].name = o.name]
  <2>1. PICK l : InfoWifis' = [InfoWifis EXCEPT !["spy"] = l]
    BY <1>9
  <2>2. "wifi" \in Srv /\ "spy" # "wifi"
    BY DEF Srv
  <2>3. X = W /\ E = D
    BY <1>1, <1>9, <2>1, <2>2
  <2>. QED
    BY <1>0, <2>3, NothingMaps
<1>. QED
  BY <1>1, <1>2, <1>4, <1>6, <1>7, <1>8, <1>9 DEF SetName

\* Every step of the server is one of the registry, or none.
LEMMA NextMaps ==
    ASSUME ~Takeover, MapInv, [Next]_vars
    PROVE  MapInv' /\ RegistryStep
<1>0. IInv /\ RegistryInv /\ WithinCapacity
  BY DEF MapInv
<1>1. IInv' /\ RegistryInv'
  BY <1>0, NextIInv, NextRegistry
<1>2. PICK W, D : Before(W, D)
  BY <1>0, ProperLists DEF Before
<1>3. PICK X, E : After(X, E)
  <2>1. Proper(InfoWifis'["wifi"], InfoWifisDeconnected'["wifi"])
    BY <1>1 DEF IInv, TypeOK, RegistryInv, KnownOnce, Proper, Srv
  <2>. QED
    BY <2>1 DEF After
<1>4. CASE UNCHANGED <<InfoWifis, InfoWifisDeconnected>>
  <2>1. X = W /\ E = D
    BY <1>2, <1>3, <1>4 DEF Before, After
  <2>2. RegistryStep /\ WithinCapacity'
    BY <1>0, <1>2, <1>3, <2>1, NothingMaps
  <2>. QED
    BY <1>1, <2>2 DEF MapInv
<1>5. ASSUME NEW p \in Port, Accepting(p) PROVE MapInv' /\ RegistryStep
  <2>1. CASE AcceptNothing(p) \/ AcceptFails(p)
    BY <1>4, <2>1, QuietSteps
  <2>2. CASE AcceptReturning(p) \/ AcceptNew(p)
    <3>1. RegistryStep /\ WithinCapacity'
      BY <1>2, <1>3, <2>2, ReturningMaps, NewMaps
    <3>. QED
      BY <1>1, <3>1 DEF MapInv
  <2>. QED
    BY <1>0, <1>5, <2>1, <2>2, NoTakeover DEF Accepting
<1>6. CASE Controlling
  <2>1. CASE NoOrder \/ Answer \/ AnswerKilled \/ ChangePacketLoss \/ SetScale
    BY <1>4, <2>1, QuietSteps
  <2>2. CASE ChangeCoordinate \/ SetName \/ CloseAllClient
    <3>1. RegistryStep /\ WithinCapacity'
      BY <1>2, <1>3, <2>2, CoordinateMaps, NameMaps, CloseAllMaps
    <3>. QED
      BY <1>1, <3>1 DEF MapInv
  <2>. QED
    BY <1>6, <2>1, <2>2 DEF Controlling
<1>7. ASSUME NEW s \in Srv, Forwarding(s) PROVE MapInv' /\ RegistryStep
  <2>1. CASE ForwardIdle(s) \/ ForwardFrame(s) \/ ForwardKilled(s) \/ ForwardDone(s)
    BY <1>4, <2>1, QuietSteps
  <2>2. CASE ForwardRemove(s) \/ ForwardRecvError(s)
    <3>1. Visiting(s) /\ RemoveClient(s, index)
      BY <2>2 DEF ForwardRemove, ForwardRecvError, Reading
    <3>2. RegistryStep /\ WithinCapacity'
      BY <1>2, <1>3, <3>1, RemoveMaps
    <3>. QED
      BY <1>1, <3>2 DEF MapInv
  <2>. QED
    BY <1>7, <2>1, <2>2 DEF Forwarding
<1>8. CASE Environment
  <2>1. UNCHANGED lists
    BY <1>8, Zenon DEF Environment, GuestConnect, GuestSend, GuestClose, GuestAbort, CtrlConnect
  <2>. QED
    BY <1>4, <2>1 DEF lists
<1>9. CASE Wait \/ UNCHANGED vars
  BY <1>4, <1>9, QuietSteps
<1>. QED
  BY <1>5, <1>6, <1>7, <1>8, <1>9 DEF Next, ServerStep, Exited

\* The server starts as the registry does.
LEMMA InitMaps == Init => MapInv /\ Abstract!Init
<1>. SUFFICES ASSUME Init PROVE MapInv /\ Abstract!Init
  OBVIOUS
<1>1. IInv /\ RegistryInv
  BY InitIInv, InitRegistry
<1>2. InfoWifis["wifi"] = <<>> /\ InfoWifisDeconnected["wifi"] = <<>>
  BY DEF Init, Srv
<1>3. WithinCapacity
  <2>1. MaxDeconnected["wifi"] \in Nat
    BY ConstantsAssumption DEF Srv
  <2>. QED
    BY <1>2, <2>1 DEF WithinCapacity
<1>4. online = {} /\ departed = <<>>
  BY <1>2 DEF online, departed, Cids
<1>5. memory = <<>>
  <2>1. ToSet(departed) = {}
    BY <1>4 DEF ToSet
  <2>2. online \cup ToSet(departed) = {}
    BY <1>4, <2>1
  <2>3. memory = [c \in {} |-> [coo |-> Latest("wifi", c).coo, name |-> Latest("wifi", c).name]]
    BY <2>2, Zenon DEF memory
  <2>. QED
    BY <2>3
<1>. QED
  BY <1>1, <1>3, <1>4, <1>5 DEF MapInv, Abstract!Init

\* The lists, the descriptors and the loop of the server implement the
\* registry: whatever the order of connections, removals and orders, a guest
\* has one position and one name, keeps them while it is away, and loses them
\* only when more guests than MaxDeconnected are away and it left first.
THEOREM RegistryImplemented ==
    ASSUME ~Takeover
    PROVE  Spec => ImplementsRegistry
<1>1. Init => MapInv /\ Abstract!Init
  BY InitMaps
<1>2. MapInv /\ [Next]_vars => MapInv'
  BY NextMaps
<1>3. MapInv /\ [Next]_vars => [Abstract!Next]_<<online, departed, memory>>
  BY NextMaps DEF RegistryStep
<1>. QED
  BY <1>1, <1>2, <1>3, PTL DEF Spec, ImplementsRegistry, Abstract!Spec
=============================================================================
