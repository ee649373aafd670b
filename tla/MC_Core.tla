-------------------------------- MODULE MC_Core --------------------------------
(* Core with two controllers, two conns, one switch and 3-bit generation   *)
(* ids.  One dpid and two crofdpt objects let a second crofdpt for the     *)
(* same switch be created if the routing allowed it.                       *)
EXTENDS Core

CONSTANTS c1, c2, n1, n2, e1, e2, sw1

MCCtls == {c1, c2}
MCConns == {n1, n2}
MCDptIds == {e1, e2}
MCDpids == {sw1}
MCGens == 0..7
=============================================================================
