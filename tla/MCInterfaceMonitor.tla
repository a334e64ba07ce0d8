------------------------ MODULE MCInterfaceMonitor -------------------------
(***************************************************************************)
(* Small instances of InterfaceMonitor for TLC: the constants are given in *)
(* the configuration files.                                                *)
(***************************************************************************)
EXTENDS InterfaceMonitor

=============================================================================
