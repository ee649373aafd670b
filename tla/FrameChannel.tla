----------------------------- MODULE FrameChannel -----------------------------
(***************************************************************************)
(* What the frame reader promises (spec section 4.1): on one connection   *)
(* the frames the peer wrote are handed on whole and in the order they    *)
(* were written; a frame whose declared length is below the 8-byte header *)
(* is malformed and is never handed on.  A new connection starts with     *)
(* nothing written and nothing received.                                   *)
(***************************************************************************)
EXTENDS Naturals, Sequences

CONSTANTS
    Frames,   \* frames the peer may write: records [f, len]
    HDR       \* length of the header

VARIABLES
    sent,     \* frames the peer wrote on this connection
    got       \* frames handed on, in order

Init == sent = <<>> /\ got = <<>>

\* The peer writes one more frame.
Send == \E fr \in Frames : sent' = Append(sent, fr) /\ UNCHANGED got

\* The oldest frame not handed on yet is handed on, if it is well formed.
Deliver ==
    /\ Len(got) < Len(sent)
    /\ sent[Len(got) + 1].len >= HDR
    /\ got' = Append(got, sent[Len(got) + 1])
    /\ UNCHANGED sent

\* The connection is replaced by a new one.
Renew == sent' = <<>> /\ got' = <<>>

Next == Send \/ Deliver \/ Renew

Spec == Init /\ [][Next]_<<sent, got>>

=============================================================================
