----------------------------- MODULE SocketWrites -----------------------------
(***************************************************************************)
(* A WorldSocket from its handshake to its end, as far as it sends: the    *)
(* threads that call SendPacket, the network thread that moves packets     *)
(* from the lock-free queue through the write queue into the connection,   *)
(* and the connection, whose client may be slow or vanish.                 *)
(***************************************************************************)
EXTENDS MPSCQueue, SequencesExt

CONSTANTS
    Net,             \* the network thread; the other producers send from the game
    Challenge, Error, Pong,   \* what the network thread sends; the other packets come from the game
    Size,            \* of each packet, header included
    BufferSize,      \* _sendBufferSize
    Window           \* bound: bytes on their way to the client

ASSUME SocketAssumption ==
    /\ Net \in Producers /\ {Challenge, Error, Pong} \subseteq Values
    /\ NoValue \notin Values
    /\ Size \in [Values -> Nat \ {0}]
    /\ BufferSize \in Nat \ {0} /\ Window \in Nat \ {0}

Senders     == Producers \ {Net}
GamePackets == Values \ {Challenge, Error, Pong}

VARIABLES
    net,             \* where the network thread is
    phase,           \* of the handshake
    sending,         \* the packet each thread is in SendPacket with
    reading,         \* an asynchronous read is pending
    listed,          \* the network thread still updates the socket
    buffer,          \* the local variable of Update
    _writeQueue, _isWritingAsync, _closed, _closing,
    shut,            \* CloseSocket has shut down the sending side
    broken,          \* the client is gone
    wire, received   \* the bytes the connection took, and how many the client has read

socketVars == <<phase, reading, listed, _closing>>
closeVars  == <<_closed, shut>>
writeVars  == <<buffer, _writeQueue, _isWritingAsync>>
wireVars   == <<broken, wire, received>>
vars == <<queueVars, net, socketVars, sending, closeVars, writeVars, wireVars>>

IsOpen == ~_closed /\ ~_closing
Bytes(p) == [i \in 1 .. Size[p] |-> <<p, i>>]

-----------------------------------------------------------------------------
(* SendPacket *)

\* Each packet is sent once
Unsent(p) == p \notin Range(enqueued) /\ \A s \in Producers : sending[s] # p

Send(s, p) == sending' = [sending EXCEPT ![s] = IF IsOpen THEN p ELSE @]

SendPacket(s, p) ==
    /\ phase = "session" /\ sending[s] = NoValue /\ Unsent(p) /\ IsOpen
    /\ Send(s, p)
    /\ UNCHANGED <<queueVars, net, socketVars, closeVars, writeVars, wireVars>>

Enqueue(s) ==
    /\ sending[s] # NoValue
    /\ Exchange(s, sending[s])
    /\ UNCHANGED <<net, socketVars, sending, closeVars, writeVars, wireVars>>

EnqueueEnds(s) ==
    /\ Link(s)
    /\ sending' = [sending EXCEPT ![s] = NoValue]
    /\ UNCHANGED <<net, socketVars, closeVars, writeVars, wireVars>>

-----------------------------------------------------------------------------
(* WorldSocket::Update, every 10 ms *)

UpdateStarts ==
    /\ net = "idle" /\ listed
    /\ net' = "drain"
    /\ UNCHANGED <<queueVars, socketVars, sending, closeVars, writeVars, wireVars>>

\* QueuePacket of a full buffer, also of an empty one, and of a packet larger than a buffer
Mutant_Drain ==                               \* a large packet overtakes the buffer
    /\ net = "drain" /\ Dequeue
    /\ IF Len(buffer) + Size[FrontData] <= BufferSize
       THEN buffer' = buffer \o Bytes(FrontData) /\ UNCHANGED _writeQueue
       ELSE buffer' = buffer /\ _writeQueue' = Append(_writeQueue, Bytes(FrontData))
    /\ UNCHANGED <<net, socketVars, sending, closeVars, _isWritingAsync, wireVars>>
Drain ==
    /\ net = "drain" /\ Dequeue
    /\ LET fits  == Len(buffer) + Size[FrontData] <= BufferSize
           large == Size[FrontData] > BufferSize
       IN  /\ buffer' = IF fits THEN buffer \o Bytes(FrontData)
                        ELSE IF large THEN <<>> ELSE Bytes(FrontData)
           /\ _writeQueue' = _writeQueue \o (IF fits THEN <<>> ELSE <<buffer>>)
                                         \o (IF large THEN <<Bytes(FrontData)>> ELSE <<>>)
    /\ UNCHANGED <<net, socketVars, sending, closeVars, _isWritingAsync, wireVars>>

DrainEnds ==
    /\ net = "drain" /\ Empty
    /\ net' = "flush"
    /\ buffer' = <<>>
    /\ _writeQueue' = IF buffer = <<>> THEN _writeQueue ELSE Append(_writeQueue, buffer)
    /\ UNCHANGED <<queueVars, socketVars, sending, closeVars, _isWritingAsync, wireVars>>

\* Socket::Update; a closed socket is taken off the list
Flush ==
    /\ net = "flush"
    /\ listed' = ~_closed
    /\ net' = IF _closed THEN "idle"
              ELSE IF _isWritingAsync \/ (_writeQueue = <<>> /\ ~_closing) THEN "queries"
              ELSE "write"
    /\ UNCHANGED <<queueVars, phase, reading, _closing, sending, closeVars, writeVars, wireVars>>

-----------------------------------------------------------------------------
(* HandleQueue, in the loop of Update or once in the handler of a write *)

Space  == Window - (Len(wire) - received)
Failed == broken \/ shut
First  == Head(_writeQueue)
Handling == net \in {"write", "handle"}
Return   == net' = IF net = "write" THEN "queries" ELSE "idle"

CloseSocket == _closed' = TRUE /\ shut' = (shut \/ ~_closed)

PopFirst ==
    /\ _writeQueue' = Tail(_writeQueue)
    /\ IF _closing /\ Tail(_writeQueue) = <<>> THEN CloseSocket ELSE UNCHANGED closeVars

Leave(n) == wire' = wire \o SubSeq(First, 1, n)

NothingToWrite ==
    /\ Handling /\ _writeQueue = <<>>
    /\ Return
    /\ UNCHANGED <<closeVars, writeVars, wireVars>>

\* An error loses the buffer; an empty one is written with nothing sent
WriteFails ==
    /\ Handling /\ _writeQueue # <<>> /\ (Failed \/ First = <<>>)
    /\ Return /\ PopFirst
    /\ UNCHANGED <<buffer, _isWritingAsync, wireVars>>

WriteSome ==
    /\ Handling /\ _writeQueue # <<>> /\ ~Failed
    /\ \E n \in 0 .. Len(First) - 1 :
          /\ n <= Space /\ (n = 0 <=> Space = 0)
          /\ Leave(n)
          /\ _writeQueue' = [_writeQueue EXCEPT ![1] = SubSeq(First, n + 1, Len(First))]
    /\ _isWritingAsync' = TRUE
    /\ Return
    /\ UNCHANGED <<buffer, closeVars, broken, received>>

WriteAll ==
    /\ Handling /\ _writeQueue # <<>> /\ ~Failed /\ First # <<>>
    /\ Len(First) <= Space
    /\ Leave(Len(First)) /\ PopFirst
    /\ IF net = "write" /\ Tail(_writeQueue) # <<>> THEN UNCHANGED net ELSE Return
    /\ UNCHANGED <<buffer, _isWritingAsync, broken, received>>

HandleQueue ==
    /\ NothingToWrite \/ WriteFails \/ WriteSome \/ WriteAll
    /\ UNCHANGED <<queueVars, socketVars, sending>>

\* The connection can take bytes again, or never will
WriteHandlerWrapper ==
    /\ net = "idle" /\ _isWritingAsync /\ (Space > 0 \/ Failed)
    /\ net' = "handle" /\ _isWritingAsync' = FALSE
    /\ UNCHANGED <<queueVars, socketVars, sending, closeVars, buffer, _writeQueue, wireVars>>

-----------------------------------------------------------------------------
(* The handshake, on the network thread *)

NoQueryReady ==
    /\ net = "queries"
    /\ net' = "idle"
    /\ UNCHANGED <<queueVars, socketVars, sending, closeVars, writeVars, wireVars>>

CheckIpCallback ==
    /\ net = "queries" /\ phase = "ip"
    /\ \/ phase' = "challenged" /\ Send(Net, Challenge) /\ reading' = IsOpen
       \/ phase' = "rejected" /\ Send(Net, Error) /\ UNCHANGED reading
    /\ net' = "send"
    /\ UNCHANGED <<queueVars, listed, _closing, closeVars, writeVars, wireVars>>

HandleAuthSessionCallback ==
    /\ net = "queries" /\ phase = "auth"
    /\ \/ phase' = "session" /\ reading' = IsOpen /\ net' = "idle" /\ UNCHANGED sending
       \/ phase' = "rejected" /\ Send(Net, Error) /\ net' = "send" /\ UNCHANGED reading
    /\ UNCHANGED <<queueVars, listed, _closing, closeVars, writeVars, wireVars>>

\* SendPacket has returned; a rejected client is disconnected with DelayedCloseSocket
Mutant_Sent ==                                \* CloseSocket
    /\ net = "send" /\ sending[Net] = NoValue
    /\ net' = "idle"
    /\ IF phase = "rejected" THEN CloseSocket ELSE UNCHANGED closeVars
    /\ UNCHANGED <<queueVars, socketVars, sending, writeVars, wireVars>>
Sent ==
    /\ net = "send" /\ sending[Net] = NoValue
    /\ net' = "idle"
    /\ _closing' = (phase = "rejected")
    /\ UNCHANGED <<queueVars, phase, reading, listed, sending, closeVars, writeVars, wireVars>>

\* The client answers the challenge when it has read it
HandleAuthSession ==
    /\ net = "idle" /\ reading /\ phase = "challenged" /\ IsOpen
    /\ <<Challenge, Size[Challenge]>> \in Range(SubSeq(wire, 1, received))
    /\ phase' = "auth" /\ reading' = FALSE
    /\ UNCHANGED <<queueVars, net, listed, _closing, sending, closeVars, writeVars, wireVars>>

HandlePing ==
    /\ net = "idle" /\ reading /\ phase = "session" /\ IsOpen /\ Unsent(Pong)
    /\ Send(Net, Pong) /\ net' = "send"
    /\ UNCHANGED <<queueVars, socketVars, closeVars, writeVars, wireVars>>

\* The read fails, or what was read is not accepted
ReadFails ==
    /\ net = "idle" /\ reading
    /\ reading' = FALSE /\ CloseSocket
    /\ UNCHANGED <<queueVars, net, phase, listed, _closing, sending, writeVars, wireVars>>

-----------------------------------------------------------------------------
(* KickPlayer, and the client *)

KickPlayer ==
    /\ phase = "session" /\ ~_closed
    /\ _closed' = TRUE
    /\ UNCHANGED <<queueVars, net, socketVars, sending, shut, writeVars, wireVars>>

KickEnds ==
    /\ _closed /\ ~shut
    /\ shut' = TRUE
    /\ UNCHANGED <<queueVars, net, socketVars, sending, _closed, writeVars, wireVars>>

ClientReads ==
    /\ received < Len(wire) /\ ~broken
    /\ received' = Len(wire)
    /\ UNCHANGED <<queueVars, net, socketVars, sending, closeVars, writeVars, broken, wire>>

ClientVanishes ==
    /\ ~broken /\ broken' = TRUE
    /\ UNCHANGED <<queueVars, net, socketVars, sending, closeVars, writeVars, wire, received>>

-----------------------------------------------------------------------------
Init ==
    /\ QueueInit
    /\ net = "idle" /\ phase = "ip"
    /\ sending = [s \in Producers |-> NoValue]
    /\ reading = FALSE /\ listed = TRUE
    /\ buffer = <<>> /\ _writeQueue = <<>> /\ _isWritingAsync = FALSE
    /\ _closed = FALSE /\ _closing = FALSE /\ shut = FALSE
    /\ broken = FALSE /\ wire = <<>> /\ received = 0

Answer == CheckIpCallback \/ HandleAuthSessionCallback

NetworkThread ==
    \/ UpdateStarts \/ Drain \/ DrainEnds \/ Flush \/ HandleQueue
    \/ NoQueryReady \/ Sent \/ Enqueue(Net) \/ EnqueueEnds(Net)

Next ==
    \/ NetworkThread \/ WriteHandlerWrapper \/ Answer
    \/ HandleAuthSession \/ HandlePing \/ ReadFails
    \/ \E s \in Senders : Enqueue(s) \/ EnqueueEnds(s) \/ \E p \in GamePackets : SendPacket(s, p)
    \/ KickPlayer \/ KickEnds
    \/ ClientReads \/ ClientVanishes

Spec == Init /\ [][Next]_vars

(* Threads go on.  Handlers whose time has come wait in the order of the   *)
(* network thread's io_context, so none is passed over for ever; queries   *)
(* are answered, and a broken connection makes a pending read fail.  The   *)
(* client need not do anything.                                            *)
Fairness ==
    /\ WF_vars(NetworkThread)
    /\ SF_vars(WriteHandlerWrapper) /\ SF_vars(Answer) /\ SF_vars(broken /\ ReadFails)
    /\ \A s \in Senders : WF_vars(Enqueue(s) \/ EnqueueEnds(s))
    /\ WF_vars(KickEnds)

FairSpec == Spec /\ Fairness

-----------------------------------------------------------------------------
(* A client that is refused is told so: its socket is closed only when the *)
(* last byte of the answer has left, although DelayedCloseSocket looks at  *)
(* the write queue alone and the answer may still be in the other queue.   *)
Refused == phase = "rejected" /\ _closed /\ ~broken
RejectionTold == Refused => <<Error, Size[Error]>> \in Range(wire)

(* Whatever the threads, the two queues, the split of packets into buffers *)
(* and partial writes do, the connection carries whole packets in the      *)
(* order of the exchanges, all of them leave while the client reads, and a *)
(* refused client is disconnected.                                         *)
Abstract == INSTANCE OrderedStream WITH
    Packets <- Values, accepted <- enqueued, delivered <- wire,
    closing <- _closing, closed <- _closed,
    broken <- broken \/ phase # "rejected",
    stalled <- Space = 0 /\ ~Failed

ImplementsOrderedStream == Abstract!Spec
=============================================================================
