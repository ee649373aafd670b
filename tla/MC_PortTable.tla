----------------------------- MODULE MC_PortTable -----------------------------
(* PortTable for TLC: two ports and two descriptions, as model values.  No  *)
(* symmetry: the run checks a liveness property, for which TLC's symmetry  *)
(* reduction is unsound.                                                    *)
EXTENDS PortTable, TLC

CONSTANTS p1, p2, d1, d2

MCPorts == {p1, p2}
MCDescs == {d1, d2}
=============================================================================
