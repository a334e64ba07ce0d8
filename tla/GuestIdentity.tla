--------------------------- MODULE GuestIdentity ---------------------------
(***************************************************************************)
(* The cid of a guest.  On vsock the kernel gives every guest its own; for *)
(* a TCP connection it is a hash of the address of the guest (hash_ipaddr, *)
(* tools.cc), to which the option -u adds the port.  The lists of the      *)
(* server are keyed by it: two guests with one cid are one guest to them.  *)
(*                                                                         *)
(* An address is its four octets in the order they are written; sin_addr   *)
(* holds the first of them in its lowest byte on a little-endian machine.  *)
(***************************************************************************)
EXTENDS Integers, TLAPS

Octet == {n \in Nat : n < 256}

Address == [1..4 -> Octet]

\* What HashUsesPort (-u) adds: sin_port, with its bytes in the order of the
\* network; without the option 0.
Port == {n \in Nat : n < 65536}

TCID_GUEST_MIN == 3

hash_ipaddr(address, port) ==
    address[4] * 256 + address[3] * 256 + address[2] * 256 + address[1] + port

\* _Accept: a TCID is an u32.
Cid(address, port) == hash_ipaddr(address, port) % 4294967296

-----------------------------------------------------------------------------
\* The octets of an address, as bounds.
LEMMA Octets ==
    ASSUME NEW a \in Address
    PROVE  /\ a[1] \in Nat /\ a[2] \in Nat /\ a[3] \in Nat /\ a[4] \in Nat
           /\ a[1] < 256 /\ a[2] < 256 /\ a[3] < 256 /\ a[4] < 256
BY DEF Address, Octet

\* A small number is what is left of it in an u32.
LEMMA SmallModulo == ASSUME NEW n \in Nat, n < 300000 PROVE n % 4294967296 = n
BY SMT

\* The sum of hash_ipaddr is small.
LEMMA SmallSum ==
    ASSUME NEW w \in Nat, NEW x \in Nat, NEW y \in Nat, NEW z \in Nat, NEW p \in Nat,
           w < 256, x < 256, y < 256, z < 256, p < 65536
    PROVE  /\ z * 256 + y * 256 + x * 256 + w + p \in Nat
           /\ z * 256 + y * 256 + x * 256 + w + p < 300000
BY SMT

\* The u32 loses nothing of the hash.
LEMMA HashFits ==
    ASSUME NEW a \in Address, NEW p \in Port
    PROVE  Cid(a, p) = hash_ipaddr(a, p)
<1>1. /\ a[1] \in Nat /\ a[2] \in Nat /\ a[3] \in Nat /\ a[4] \in Nat
      /\ a[1] < 256 /\ a[2] < 256 /\ a[3] < 256 /\ a[4] < 256
    BY Octets
<1>2. hash_ipaddr(a, p) \in Nat /\ hash_ipaddr(a, p) < 300000
    BY <1>1, SmallSum DEF hash_ipaddr, Port
<1> QED BY <1>2, SmallModulo DEF Cid

\* Guests whose addresses differ in the last octet only, as in one /24 network,
\* have different cids, although the hash adds up three of the octets.
THEOREM NeighboursDiffer ==
    ASSUME NEW a \in Address, NEW b \in Address,
           \A i \in 1..3 : a[i] = b[i],
           Cid(a, 0) = Cid(b, 0)
    PROVE  a = b
<1>1. hash_ipaddr(a, 0) = hash_ipaddr(b, 0)
    <2>1. 0 \in Port
        BY SMT DEF Port
    <2> QED BY <2>1, HashFits, SMT
<1>2. a[1] = b[1] /\ a[2] = b[2] /\ a[3] = b[3]
    BY SMT
<1>3. a[1] \in Nat /\ a[2] \in Nat /\ a[3] \in Nat /\ a[4] \in Nat /\ b[4] \in Nat
    BY Octets
<1>4. a[4] = b[4]
    <2>1. a[4] * 256 + a[3] * 256 + a[2] * 256 + a[1] + 0
            = b[4] * 256 + a[3] * 256 + a[2] * 256 + a[1] + 0
        BY <1>1, <1>2, ZenonT(40) DEF hash_ipaddr
    <2>2. PICK w \in Nat, x \in Nat, y \in Nat, z \in Nat, v \in Nat :
              w = a[1] /\ x = a[2] /\ y = a[3] /\ z = a[4] /\ v = b[4]
        BY <1>3, Zenon
    <2>3. z * 256 + y * 256 + x * 256 + w + 0 = v * 256 + y * 256 + x * 256 + w + 0
        BY <2>1, <2>2, ZenonT(40)
    <2>4. z = v
        BY <2>3, SMT
    <2> QED BY <2>2, <2>4, Zenon
<1> QED BY <1>2, <1>4, SMT DEF Address

\* With -u, the guests behind one address (a router that translates addresses) have
\* different cids when their ports differ, which is what the option is for.
THEOREM PortsTellApart ==
    ASSUME NEW a \in Address, NEW p \in Port, NEW q \in Port,
           Cid(a, p) = Cid(a, q)
    PROVE  p = q
<1>1. hash_ipaddr(a, p) = hash_ipaddr(a, q)
    BY HashFits, SMT
<1>2. /\ a[1] \in Nat /\ a[2] \in Nat /\ a[3] \in Nat /\ a[4] \in Nat
      /\ a[1] < 256 /\ a[2] < 256 /\ a[3] < 256 /\ a[4] < 256
    BY Octets
<1> QED BY <1>1, <1>2, SMT DEF hash_ipaddr, Port

\* The cid of every address but those of 0.0.0.0 and n.0.0.0 is one that the
\* assertion of CInfoWifi::SetCid allows.
THEOREM CidIsAllowed ==
    ASSUME NEW a \in Address, NEW p \in Port,
           a[2] # 0 \/ a[3] # 0 \/ a[4] # 0
    PROVE  Cid(a, p) >= TCID_GUEST_MIN
<1>1. /\ a[1] \in Nat /\ a[2] \in Nat /\ a[3] \in Nat /\ a[4] \in Nat
      /\ a[1] < 256 /\ a[2] < 256 /\ a[3] < 256 /\ a[4] < 256
    BY Octets
<1>2. hash_ipaddr(a, p) \in Nat /\ hash_ipaddr(a, p) >= 256
    <2>1. p \in Nat /\ p < 65536
        BY DEF Port
    <2>2. PICK w \in Nat, x \in Nat, y \in Nat, z \in Nat :
              w = a[1] /\ x = a[2] /\ y = a[3] /\ z = a[4]
        BY <1>1, Zenon
    <2>3. x # 0 \/ y # 0 \/ z # 0
        BY <2>2, Zenon
    <2>4. z * 256 + y * 256 + x * 256 + w + p \in Nat /\ z * 256 + y * 256 + x * 256 + w + p >= 256
        BY <2>1, <2>3, SMT
    <2> QED BY <2>2, <2>4, Zenon DEF hash_ipaddr
<1>3. Cid(a, p) = hash_ipaddr(a, p)
    BY HashFits
<1> QED BY <1>2, <1>3, SMT DEF TCID_GUEST_MIN

\* Across networks the hash does not tell guests apart: 10.0.0.2 and 10.0.1.1 are
\* one guest to the server.
THEOREM NetworksCollide ==
    Cid(<<10, 0, 0, 2>>, 0) = Cid(<<10, 0, 1, 1>>, 0)
BY SMT DEF Cid, hash_ipaddr

=============================================================================
