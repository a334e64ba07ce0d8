----------------------------- MODULE FrameMedium -----------------------------
(***************************************************************************)
(* What the sockets between the guests and the server promise together:    *)
(* frames may be lost, but one that arrives is a frame that another guest  *)
(* has transmitted, whole, not longer than the MTU, once, and after the    *)
(* frames of the same guest that were transmitted before it.               *)
(***************************************************************************)
EXTENDS Integers, Sequences

CONSTANTS Guests, MTU, Sizes

VARIABLES
    frames,  \* the frames transmitted so far, [from, len]
    got      \* for each guest, the numbers of those it has received

Init ==
    /\ frames = <<>>
    /\ got = [g \in Guests |-> {}]

Transmit(g) ==
    /\ \E s \in Sizes : frames' = Append(frames, [from |-> g, len |-> s])
    /\ UNCHANGED got

Receive(g, k) ==
    /\ frames[k].from # g
    /\ frames[k].len <= MTU
    /\ \A j \in got[g] : frames[j].from = frames[k].from => j < k
    /\ got' = [got EXCEPT ![g] = @ \cup {k}]
    /\ UNCHANGED frames

Next == \E g \in Guests : Transmit(g) \/ \E k \in DOMAIN frames : Receive(g, k)

Spec == Init /\ [][Next]_<<frames, got>>

=============================================================================
