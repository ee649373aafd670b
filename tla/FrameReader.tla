----------------------------- MODULE FrameReader -----------------------------
(***************************************************************************)
(* Frame reassembly in cofdpt::handle_read                                *)
(* (src/src/rofl/common/openflow/cofdpt.cc, lines 160-268).               *)
(*                                                                         *)
(* The peer writes frames; TCP hands their bytes to the socket in chunks   *)
(* of any size.  Each readable event runs handle_read to completion: the   *)
(* loop reads the 8-byte header, then up to the header's length field,     *)
(* and returns on EAGAIN (the buffer is kept in fragment), on a complete   *)
(* frame (handed to handle_message), on end of stream or on an error (both *)
(* end in handle_closed).  After handle_closed an active cofdpt connects   *)
(* again on a fresh socket.                                                *)
(*                                                                         *)
(* A byte is a record naming its connection, frame, offset and the frame's *)
(* declared length; the only byte values the reader looks at are the two  *)
(* bytes of the length field.  Two bytes at buffer offsets 2 and 3 that    *)
(* are not the length field of one frame may hold any value: that choice  *)
(* is GarbageLens.  A buffer is zero-filled beyond what was read, so the   *)
(* length field read from fewer than 4 bytes is 0 or a multiple of 256 and *)
(* never equals the bytes read.                                            *)
(***************************************************************************)
EXTENDS Integers, Sequences, SequencesExt

CONSTANTS
    HDR,          \* sizeof(struct ofp_header)
    Lens,         \* declared lengths of the frames the peer writes
    GarbageLens,  \* values two unrelated bytes may give the length field
    MaxFrames,    \* bound: frames the peer writes per connection
    MaxConnects,  \* bound: connections
    PeerResets    \* whether a read may fail with ECONNRESET

NoField == -1
NoFrame == [f |-> 0, len |-> 0]   \* what handle_message gets that is no frame

VARIABLES
    ep,          \* the current connection
    frames,      \* declared lengths of the frames the peer wrote on it
    nArrived,    \* bytes of the stream that reached the socket
    nRead,       \* bytes of the stream the reader took from the socket
    finSent,     \* the peer closed its side after its last frame
    sockOpen,    \* the socket is open (handle_closed not yet run)
    fragment,    \* cofdpt::fragment with msg_bytes_read: the buffer kept
    delivered,   \* history: frames handed to handle_message
    overrun      \* a read wrote past the end of the buffer

vars == <<ep, frames, nArrived, nRead, finSent, sockOpen, fragment, delivered, overrun>>

NoFragment == [on |-> FALSE, buf |-> <<>>, memlen |-> HDR, field |-> NoField]

\* The bytes the peer wrote on the current connection, in order.
Stream ==
    FlattenSeq([i \in 1..Len(frames) |->
        [o \in 1..frames[i] |-> [ep |-> ep, f |-> i, off |-> o - 1, len |-> frames[i]]]])

\* End of stream: the FIN comes after every byte the peer wrote.
Eof == finSent /\ nArrived = Len(Stream)

\* The values the length field of a buffer of at least 4 bytes may have.
LenFields(buf) ==
    IF /\ buf[3].ep = buf[4].ep /\ buf[3].f = buf[4].f
       /\ buf[3].off = 2 /\ buf[4].off = 3
    THEN {buf[3].len} ELSE GarbageLens

\* Mutant: the header is read for while it is not longer than 8 bytes.
MsgLen_le(buf, field) == IF Len(buf) <= HDR THEN HDR ELSE field

\* How many bytes to read for: the header, then the length field.
MsgLen(buf, field) == IF Len(buf) < HDR THEN HDR ELSE field

\* Mutant: the buffer is never enlarged.
Resized_never(memlen, msgLen) == memlen

\* mem->resize(msg_len) if the buffer is shorter.
Resized(memlen, msgLen) == IF memlen < msgLen THEN msgLen ELSE memlen

Outcome(kind, buf, memlen, field, pos) ==
    [kind |-> kind, buf |-> buf, memlen |-> memlen, field |-> field, pos |-> pos]

(* One run of the while loop of handle_read from a buffer holding buf,     *)
(* with the stream read up to pos: the set of ways it may end.  The read   *)
(* count msg_len - msg_bytes_read is negative when the length field is     *)
(* below the bytes read; as a size_t it is then huge, and the build either *)
(* fails the read with EINVAL or reads whatever is there.                  *)
RECURSIVE ReadLoop(_, _, _, _)
ReadLoop(buf, memlen, field, pos) ==
    LET msgLen == MsgLen(buf, field)
        mem2   == Resized(memlen, msgLen)
        want   == msgLen - Len(buf)
        avail  == nArrived - pos
        rc     == IF want < 0 THEN avail ELSE IF want < avail THEN want ELSE avail
        buf2   == buf \o SubSeq(Stream, pos + 1, pos + rc)
        fields == IF field # NoField THEN {field}
                  ELSE IF Len(buf2) >= 4 THEN LenFields(buf2) ELSE {NoField}
    IN  (IF PeerResets \/ want < 0 THEN {Outcome("ERROR", buf, mem2, field, pos)} ELSE {})
        \cup
        (IF rc = 0
         THEN {Outcome(IF Eof \/ want = 0 THEN "CLOSED" ELSE "EAGAIN", buf, mem2, field, pos)}
         ELSE IF Len(buf2) > mem2 THEN {Outcome("OVERRUN", buf2, mem2, field, pos + rc)}
         ELSE UNION {IF f = Len(buf2) THEN {Outcome("MESSAGE", buf2, mem2, f, pos + rc)}
                     ELSE ReadLoop(buf2, mem2, f, pos + rc) : f \in fields})

\* The frame handle_message receives: one whole frame of this connection,
\* or NoFrame.
FrameOf(buf) ==
    IF /\ Len(buf) > 0 /\ Len(buf) = buf[1].len
       /\ \A i \in 1..Len(buf) :
             buf[i] = [ep |-> ep, f |-> buf[1].f, off |-> i - 1, len |-> buf[1].len]
    THEN [f |-> buf[1].f, len |-> buf[1].len] ELSE NoFrame

\* Mutant: the buffer is not kept on EAGAIN.
FragmentAfter_noSave(o, old) ==
    IF o.kind = "ERROR" /\ old.on THEN [on |-> TRUE, buf |-> o.buf, memlen |-> o.memlen, field |-> o.field]
    ELSE NoFragment

\* fragment after the loop: kept on EAGAIN, cleared after a frame and at end
\* of stream; on an error handle_closed leaves it as it was, so a buffer
\* kept by an earlier EAGAIN stays, holding the bytes read since.
FragmentAfter(o, old) ==
    IF o.kind = "EAGAIN" \/ (o.kind = "ERROR" /\ old.on)
    THEN [on |-> TRUE, buf |-> o.buf, memlen |-> o.memlen, field |-> o.field]
    ELSE NoFragment

-----------------------------------------------------------------------------
Init ==
    /\ ep = 1
    /\ frames = <<>>
    /\ nArrived = 0 /\ nRead = 0
    /\ finSent = FALSE
    /\ sockOpen = TRUE
    /\ fragment = NoFragment
    /\ delivered = <<>>
    /\ overrun = FALSE

\* handle_read on a readable socket.  It starts from the kept fragment or
\* from a fresh 8-byte buffer; a complete frame goes to handle_message; end
\* of stream and errors run handle_closed, which closes the socket.
HandleRead ==
    /\ sockOpen /\ ~overrun
    /\ nArrived > nRead \/ Eof
    /\ LET start == IF fragment.on THEN fragment ELSE NoFragment
       IN  \E o \in ReadLoop(start.buf, start.memlen, start.field, nRead) :
              /\ nRead' = o.pos
              /\ fragment' = FragmentAfter(o, fragment)
              /\ delivered' = IF o.kind = "MESSAGE"
                              THEN Append(delivered, FrameOf(o.buf)) ELSE delivered
              /\ sockOpen' = (o.kind \in {"EAGAIN", "MESSAGE", "OVERRUN"})
              /\ overrun' = (o.kind = "OVERRUN")
    /\ UNCHANGED <<ep, frames, nArrived, finSent>>

\* The peer writes a frame with declared length l.
PeerSend(l) ==
    /\ sockOpen /\ ~finSent /\ Len(frames) < MaxFrames
    /\ frames' = Append(frames, l)
    /\ UNCHANGED <<ep, nArrived, nRead, finSent, sockOpen, fragment, delivered, overrun>>

\* k more bytes of the stream reach the socket.
Arrive(k) ==
    /\ sockOpen /\ nArrived + k <= Len(Stream)
    /\ nArrived' = nArrived + k
    /\ UNCHANGED <<ep, frames, nRead, finSent, sockOpen, fragment, delivered, overrun>>

\* The peer closes its side.
PeerClose ==
    /\ sockOpen /\ ~finSent
    /\ finSent' = TRUE
    /\ UNCHANGED <<ep, frames, nArrived, nRead, sockOpen, fragment, delivered, overrun>>

\* try_to_connect after handle_closed: a new socket; fragment and
\* msg_bytes_read are members of the cofdpt and are not touched.
Reconnect ==
    /\ ~sockOpen /\ ~overrun /\ ep < MaxConnects
    /\ ep' = ep + 1
    /\ frames' = <<>> /\ nArrived' = 0 /\ nRead' = 0
    /\ finSent' = FALSE /\ sockOpen' = TRUE
    /\ delivered' = <<>>
    /\ UNCHANGED <<fragment, overrun>>

Next ==
    \/ HandleRead
    \/ \E l \in Lens : PeerSend(l)
    \/ \E k \in 1..(HDR + 1) : Arrive(k)
    \/ PeerClose
    \/ Reconnect

Spec == Init /\ [][Next]_vars

\* The event loop calls handle_read while the socket is readable, and TCP
\* delivers every byte written.
FairSpec == Spec /\ WF_vars(HandleRead) /\ WF_vars(\E k \in 1..(HDR + 1) : Arrive(k))

-----------------------------------------------------------------------------
(* Properties.                                                             *)

\* handle_read hands on the frames the peer wrote, whole and in order, and
\* never one whose declared length is below the header: FrameChannel, with
\* the frames written as sent and the frames given to handle_message as got.
Channel == INSTANCE FrameChannel
    WITH sent <- [i \in 1..Len(frames) |-> [f |-> i, len |-> frames[i]]],
         got <- delivered,
         Frames <- [f : 1..MaxFrames, len : Lens]
ImplementsFrameChannel == Channel!Spec

\* No read of handle_read writes past the end of mem: the buffer is resized
\* to the length field before the body is read into it.
NoBufferOverrun == ~overrun

\* The last byte of frame i has reached the socket.
FrameArrived(i) ==
    \E p \in 1..nArrived : Stream[p].f = i /\ Stream[p].off = Stream[p].len - 1

\* Every frame that reaches the socket is handed to handle_message before
\* handle_read closes the connection: the loop's read counts never reach 0
\* (which it takes for end of stream) while a frame is incomplete.
FramesDelivered ==
    \A i \in 1..MaxFrames : (sockOpen /\ FrameArrived(i)) ~> Len(delivered) >= i

=============================================================================
