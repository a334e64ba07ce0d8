-------------------------- MODULE MCCtrlSession ----------------------------
(***************************************************************************)
(* Small instances of CtrlSession for TLC.                                 *)
(***************************************************************************)
EXTENDS CtrlSession

On(c, n) == [cid |-> c, enabled |-> TRUE, name |-> n]

Off(c, n) == [cid |-> c, enabled |-> FALSE, name |-> n]

\* Nobody; a spy, two guests, one with a name, and one that has left; a guest whose
\* connection is disabled and not yet removed, and one behind it.
MCLists == {[spies |-> <<>>, clients |-> <<>>, left |-> {}],
            [spies |-> <<On(30, 0)>>, clients |-> <<On(10, 2), On(20, 0)>>, left |-> {40}],
            [spies |-> <<>>, clients |-> <<Off(10, 0), On(20, 0)>>, left |-> {}]}

\* Every order.
MCRequests ==
    {[order |-> o, args |-> <<>>] :
        o \in {TORDER_LIST, TORDER_SHOW, TORDER_STATUS, TORDER_CLOSE_ALL_CLIENT}}
    \cup {[order |-> TORDER_CHANGE_COORDINATE, args |-> <<10, 0>>],
          [order |-> TORDER_SETNAME, args |-> <<10, 0, 0>>],
          [order |-> TORDER_SETNAME, args |-> <<10, 2, 2>>],
          [order |-> TORDER_PACKET_LOSS, args |-> <<1>>],
          [order |-> TORDER_SET_SCALE, args |-> <<2>>],
          [order |-> TORDER_DISTANCE_BETWEEN_CID, args |-> <<20, 40>>]}

=============================================================================
