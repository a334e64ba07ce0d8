---------------------------- MODULE RadioMedium ----------------------------
(***************************************************************************)
(* What a frame loses on its way through the air: the level at which       *)
(* SendAllOtherClients sends it to a guest, and whether it is lost.        *)
(*                                                                         *)
(* Attenuation() is a logarithm in floating point; here it is any integer, *)
(* and the theorems hold whichever it returns.  The distance it is given   *)
(* is the root of a sum that CCoordinate computes in 32 bits with a sign.  *)
(***************************************************************************)
EXTENDS Integers, TLAPS

\* TPower is an s8.
TPower_MIN == -128
TPower_MAX == -10

TPower == -128..127

BoundedPower(power) ==
    IF power < TPower_MIN THEN TPower_MIN
    ELSE IF power > TPower_MAX THEN TPower_MAX ELSE power

SignalLevel(power, attenuation) == BoundedPower(power - attenuation)

\* rand() % 53 + 40
Alea == 40..92

PacketIsLost(signalLevel, alea) == ~(alea > -signalLevel)

Place == [X : Int, Y : Int, Z : Int]

\* What sqrt() is applied to in DistanceWith.
DistanceSquared(a, b) ==
    (a.X - b.X) * (a.X - b.X) + (a.Y - b.Y) * (a.Y - b.Y) + (a.Z - b.Z) * (a.Z - b.Z)

INT32_MAX == 2147483647

\* The places differ by at most d in every coordinate.
Within(d, a, b) ==
    /\ -d <= a.X - b.X /\ a.X - b.X <= d
    /\ -d <= a.Y - b.Y /\ a.Y - b.Y <= d
    /\ -d <= a.Z - b.Z /\ a.Z - b.Z <= d

-----------------------------------------------------------------------------
\* The level that is sent as one byte of type TPower is never cut by the
\* conversion: it is between TPower_MIN and TPower_MAX for every attenuation.
THEOREM LevelIsPower ==
    ASSUME NEW power \in TPower, NEW attenuation \in Int
    PROVE  /\ SignalLevel(power, attenuation) \in TPower
           /\ SignalLevel(power, attenuation) <= TPower_MAX
BY SMT DEF TPower, SignalLevel, BoundedPower, TPower_MIN, TPower_MAX

\* A frame that is lost for a guest is lost for one with more attenuation, for
\* the same number rand() returns: bounding the level does not turn this round.
THEOREM FartherLosesMore ==
    ASSUME NEW power \in TPower, NEW near \in Int, NEW far \in Int, near <= far,
           NEW alea \in Alea,
           PacketIsLost(SignalLevel(power, near), alea)
    PROVE  PacketIsLost(SignalLevel(power, far), alea)
BY SMT DEF TPower, Alea, PacketIsLost, SignalLevel, BoundedPower, TPower_MIN, TPower_MAX

\* Where the range of a signal lies: above -40 no frame is lost, whatever rand()
\* returns, at -92 and below every one is, and in between it may be either.
THEOREM RangeOfSignal ==
    ASSUME NEW level \in TPower
    PROVE  /\ level > -40 <=> \A alea \in Alea : ~PacketIsLost(level, alea)
           /\ level <= -92 <=> \A alea \in Alea : PacketIsLost(level, alea)
<1>1. 40 \in Alea /\ 92 \in Alea
    BY SMT DEF Alea
<1>2. level \in Int
    BY SMT DEF TPower
<1>3. \A alea \in Alea : alea \in Int /\ 40 <= alea /\ alea <= 92
    BY SMT DEF Alea
<1> QED BY <1>1, <1>2, <1>3, SMT DEF PacketIsLost

-----------------------------------------------------------------------------
\* A square of a bounded number.
LEMMA SquareBound ==
    ASSUME NEW d \in Nat, NEW n \in Int, -d <= n, n <= d
    PROVE  n * n \in Nat /\ n * n <= d * d
<1>1. CASE n >= 0
    <2>1. n * n <= n * d
        BY <1>1, SMT
    <2>2. n * d <= d * d
        BY <1>1, SMT
    <2> QED BY <1>1, <2>1, <2>2, SMT
<1>2. CASE n < 0
    <2> DEFINE m == -n
    <2>1. m \in Nat /\ m <= d /\ n * n = m * m
        BY <1>2, SMT
    <2> HIDE DEF m
    <2>2. m * m <= m * d /\ m * d <= d * d /\ m * m \in Nat
        BY <2>1, SMT
    <2> QED BY <2>1, <2>2, SMT
<1> QED BY <1>1, <1>2, SMT

\* The distance of two guests is computed without overflow when no coordinate
\* differs by more than 26754 (26755 in all three is too much for an s32).
THEOREM DistanceFits ==
    ASSUME NEW a \in Place, NEW b \in Place, Within(26754, a, b)
    PROVE  DistanceSquared(a, b) \in Nat /\ DistanceSquared(a, b) <= INT32_MAX
<1>1. PICK x \in Int, y \in Int, z \in Int :
          x = a.X - b.X /\ y = a.Y - b.Y /\ z = a.Z - b.Z
    BY SMT DEF Place
<1>2. /\ -26754 <= x /\ x <= 26754
      /\ -26754 <= y /\ y <= 26754
      /\ -26754 <= z /\ z <= 26754
    BY <1>1, SMT DEF Within
<1>3. 26754 \in Nat /\ 26754 * 26754 = 715776516
    BY SMT
<1>4. /\ x * x \in Nat /\ x * x <= 715776516
      /\ y * y \in Nat /\ y * y <= 715776516
      /\ z * z \in Nat /\ z * z <= 715776516
    BY <1>2, <1>3, SquareBound, SMT
<1>5. x * x + y * y + z * z \in Nat /\ x * x + y * y + z * z <= 2147483647
    BY <1>4, SMT
<1>6. DistanceSquared(a, b) = x * x + y * y + z * z
    BY <1>1, SMT DEF DistanceSquared
<1> QED BY <1>5, <1>6, SMT DEF INT32_MAX

\* And with overflow, which C++ leaves undefined, already for two guests that are
\* 46341 apart on one axis; the order set takes every s32 for a coordinate.
THEOREM DistanceOverflows ==
    ASSUME NEW a \in Place, NEW b \in Place, a.X = b.X + 46341, a.Y = b.Y, a.Z = b.Z
    PROVE  DistanceSquared(a, b) > INT32_MAX
<1>1. a.X - b.X = 46341 /\ a.Y - b.Y = 0 /\ a.Z - b.Z = 0
    BY SMT DEF Place
<1>2. DistanceSquared(a, b) = 46341 * 46341 + 0 * 0 + 0 * 0
    BY <1>1, SMT DEF DistanceSquared
<1> QED BY <1>2, SMT DEF INT32_MAX

=============================================================================
