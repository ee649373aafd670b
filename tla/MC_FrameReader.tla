---------------------------- MODULE MC_FrameReader ----------------------------
(* FrameReader for TLC: the constants are given in FrameReader*.cfg.        *)
EXTENDS FrameReader
=============================================================================
