------------------------------ MODULE Registry ------------------------------
(***************************************************************************)
(* What the guests' CWifiServer promises to whoever places guests with     *)
(* vwifi-ctrl, without connections, descriptors or lists: the server       *)
(* remembers one value (position and name) per guest.  It keeps the value  *)
(* of a guest that leaves and gives it back when the guest returns; it     *)
(* forgets a guest only when more than Capacity absent guests would have   *)
(* to be remembered, and then the one that left first.                     *)
(***************************************************************************)
EXTENDS Naturals, Sequences, SequencesExt

CONSTANTS Guest, Data, Default, Capacity

VARIABLES online,    \* the guests that are connected
          departed,  \* the absent guests that are remembered, first to leave first
          memory     \* the value of every guest online or departed

Known == online \cup ToSet(departed)

\* The memory when only the guests of K are remembered, a new one with d.
Keep(K, d) == [c \in K |-> IF c \in Known THEN memory[c] ELSE d]

\* The guests that stay when guests leave in this order.
Remembered(leaving) ==
    LET all == departed \o leaving
    IN  IF Len(all) <= Capacity THEN all ELSE SubSeq(all, Len(all) - Capacity + 1, Len(all))

Init == online = {} /\ departed = <<>> /\ memory = <<>>

Join(c) ==
    /\ c \notin online
    /\ online' = online \cup {c}
    /\ \/ c \notin ToSet(departed) /\ UNCHANGED departed
       \/ \E k \in 1..Len(departed) : departed[k] = c /\ departed' = RemoveAt(departed, k)
    /\ memory' = Keep(Known \cup {c}, Default)

Leave(c) ==
    /\ c \in online
    /\ online' = online \ {c}
    /\ departed' = Remembered(<<c>>)
    /\ memory' = Keep(online' \cup ToSet(departed'), Default)

LeaveAll ==
    \E leaving \in SetToSeqs(online) :
        /\ online' = {}
        /\ departed' = Remembered(leaving)
        /\ memory' = Keep(ToSet(departed'), Default)

\* The operator gives a guest a new value.
Update(c, d) ==
    /\ c \in Known
    /\ memory' = [memory EXCEPT ![c] = d]
    /\ UNCHANGED <<online, departed>>

\* The operator gives a value to a guest that was never seen.
Announce(c, d) ==
    /\ c \notin Known
    /\ departed' = Remembered(<<c>>)
    /\ memory' = Keep(online \cup ToSet(departed'), d)
    /\ UNCHANGED online

Next ==
    \/ \E c \in Guest : Join(c) \/ Leave(c)
    \/ LeaveAll
    \/ \E c \in Guest, d \in Data : Update(c, d) \/ Announce(c, d)

Spec == Init /\ [][Next]_<<online, departed, memory>>

=============================================================================
