--------------------------- MODULE MCVwifiClient ---------------------------
(***************************************************************************)
(* Small instances of VwifiClient for TLC: the constants are given in the  *)
(* configuration files.                                                    *)
(***************************************************************************)
EXTENDS VwifiClient

=============================================================================
