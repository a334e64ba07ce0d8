--------------------------- MODULE MCVwifiServer ---------------------------
(***************************************************************************)
(* Small instances of VwifiServer for TLC.                                 *)
(***************************************************************************)
EXTENDS VwifiRegistry

\* The listening sockets have the lowest descriptors, as in the program.
MCListenFd == [VTCP |-> 0, ITCP |-> 1, SPY |-> 2, CTRL |-> 3]

\* WIFI_MAX_DECONNECTED_CLIENT and the 1 of the spies' Listen(1).
MCMaxDeconnected == [wifi |-> 2, spy |-> 1]

MCMaxDeconnectedOne == [wifi |-> 1, spy |-> 1]

\* Two guests; the host of one of them also runs a spy.
MCPortsSpy == (10 :> {"ITCP"}) @@ (20 :> {"ITCP", "SPY"})

\* One guest on vsock whose host also runs a spy; guest 20 is only known from
\* the orders of vwifi-ctrl.
MCPortsRegistry == (10 :> {"VTCP", "SPY"}) @@ (20 :> {})

\* Both guests on TCP.
MCPortsTcp == (10 :> {"ITCP"}) @@ (20 :> {"ITCP"})

\* One guest on TCP.
MCPortsOneTcp == (10 :> {"ITCP"})

=============================================================================
