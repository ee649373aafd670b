----------------------------- MODULE MC_RoleCtrl -----------------------------
(* cofctrl role handling for TLC: two or three controllers, 3-bit           *)
(* generation ids.                                                          *)
EXTENDS RoleCtrl

CONSTANTS c1, c2, c3

MCCtls2 == {c1, c2}
MCCtls3 == {c1, c2, c3}
MCGens == 0..7
MCGensLow == {1, 2}
MCRolesNoNochange == {"MASTER", "SLAVE", "EQUAL"}
MCRolesAll == {"MASTER", "SLAVE", "EQUAL", "NOCHANGE"}
=============================================================================
