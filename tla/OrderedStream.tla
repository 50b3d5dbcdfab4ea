---------------------------- MODULE OrderedStream ----------------------------
(***************************************************************************)
(* What a WorldSocket promises those who send through it: packets reach    *)
(* the client whole and in the order in which they were accepted, and all  *)
(* of them do unless the connection is given up.                           *)
(***************************************************************************)
EXTENDS Naturals, Sequences, SequencesExt

CONSTANTS Packets, Size

VARIABLES
    accepted,        \* the packets, in order
    delivered,       \* the bytes that have left
    closing,         \* the stream is to be closed once it is flushed
    closed,
    broken,          \* the stream may be closed before that
    stalled          \* the other side takes nothing

streamVars == <<accepted, delivered, closing, closed, broken, stalled>>

Bytes(p)   == [i \in 1 .. Size[p] |-> <<p, i>>]
Stream(ps) == FlattenSeq([i \in 1 .. Len(ps) |-> Bytes(ps[i])])

Accept ==
    \/ UNCHANGED accepted
    \/ \E p \in Packets : accepted' = Append(accepted, p)

Deliver == IsPrefix(delivered, delivered') /\ IsPrefix(delivered', Stream(accepted'))

(* A stream that is to be closed is flushed first.                         *)
Close == closed' # closed => closed' /\ (broken' \/ (closing /\ delivered' = Stream(accepted')))

Init == accepted = <<>> /\ delivered = <<>> /\ ~closing /\ ~closed

Next == Accept /\ Deliver /\ Close

Delivered(p) == <<p, Size[p]>> \in Range(delivered)

(* As long as the other side keeps reading.                                *)
Liveness ==
    []<>~stalled =>
        /\ \A p \in Packets : p \in Range(accepted) ~> Delivered(p) \/ closed
        /\ closing ~> closed

Spec == Init /\ [][Next]_streamVars /\ Liveness
=============================================================================
