---------------------------- MODULE OrderGateway ----------------------------
(***************************************************************************)
(* The TCP order gateway at the level of bytes (src/order_gateway.cpp):    *)
(* submit_order writes one order message with as many sends as it takes;   *)
(* poll_execution reads until the socket is empty or its buffer is full,   *)
(* then cuts one report off the front of the buffer.                       *)
(*                                                                         *)
(* A byte of an order message is the pair of the order's number and the    *)
(* offset; a byte of the report stream is its position in that stream.     *)
(* What the messages say is in module Pipeline.                            *)
(***************************************************************************)
EXTENDS Naturals, Sequences

CONSTANTS
    ORDER_SIZE,      \* sizeof(WireOrderMsg)
    REPORT_SIZE,     \* sizeof(WireExecReport)
    BUF_SIZE,
    MaxOrders,       \* bound: orders submitted
    MaxReports       \* bound: reports the exchange writes

ASSUME GatewayAssumption ==
    /\ ORDER_SIZE \in Nat \ {0}
    /\ REPORT_SIZE \in Nat \ {0}
    /\ BUF_SIZE \in Nat
    /\ BUF_SIZE >= REPORT_SIZE
    /\ MaxOrders \in Nat /\ MaxReports \in Nat

VARIABLES
    pc,          \* start, idle, send (in submit_order), recv or parse (in poll_execution), exit
    sockfd,      \* "none", "open" or "closed"
    read_buf,    \* the first read_len_ bytes of read_buf_
    submitted,   \* orders handed to submit_order while the socket was open
    left,        \* bytes of the current order still to send
    out,         \* bytes the kernel took, in order
    written,     \* bytes of reports that have reached the socket
    taken,       \* bytes of those that recv has returned
    peer_closed, \* the exchange has closed its end
    delivered    \* reports returned to the loop, as the bytes they were cut from

gvars == <<pc, sockfd, read_buf, submitted, left, out, written, taken, peer_closed, delivered>>

Init ==
    /\ pc = "start" /\ sockfd = "none"
    /\ read_buf = << >>
    /\ submitted = 0 /\ left = 0 /\ out = << >>
    /\ written = 0 /\ taken = 0 /\ peer_closed = FALSE
    /\ delivered = << >>

\* close(): the buffer is emptied with the socket.
Close ==
    /\ sockfd' = "closed"
    /\ read_buf' = << >>

-----------------------------------------------------------------------------
Connect ==
    /\ pc = "start"
    /\ pc' = "idle" /\ sockfd' = "open"
    /\ UNCHANGED <<read_buf, submitted, left, out, written, taken, peer_closed, delivered>>

\* socket or connect fails: main gives up.
ConnectFails ==
    /\ pc = "start"
    /\ pc' = "exit"
    /\ UNCHANGED <<sockfd, read_buf, submitted, left, out, written, taken, peer_closed, delivered>>

(* submit_order *)

\* A limit order would be refused here, with nothing sent; the loop sends none.
SubmitOrder ==
    /\ pc = "idle" /\ sockfd = "open"
    /\ submitted < MaxOrders
    /\ submitted' = submitted + 1
    /\ left' = ORDER_SIZE
    /\ pc' = "send"
    /\ UNCHANGED <<sockfd, read_buf, out, written, taken, peer_closed, delivered>>

\* Mutant: after a partial send the message is sent from its start again.
MutSendFromStart(n) ==
    /\ pc = "send" /\ n \in 1 .. left
    /\ out' = out \o [i \in 1 .. n |-> <<submitted, i>>]
    /\ left' = left - n
    /\ pc' = IF left' = 0 THEN "idle" ELSE "send"
    /\ UNCHANGED <<sockfd, read_buf, submitted, written, taken, peer_closed, delivered>>

\* One send that takes n bytes; EINTR and EAGAIN only make the loop go round.
Send(n) ==
    /\ pc = "send"
    /\ n \in 1 .. left
    /\ out' = out \o [i \in 1 .. n |-> <<submitted, ORDER_SIZE - left + i>>]
    /\ left' = left - n
    /\ pc' = IF left' = 0 THEN "idle" ELSE "send"
    /\ UNCHANGED <<sockfd, read_buf, submitted, written, taken, peer_closed, delivered>>

SendFails ==
    /\ pc = "send"
    /\ Close
    /\ pc' = "idle"
    /\ UNCHANGED <<submitted, left, out, written, taken, peer_closed, delivered>>

-----------------------------------------------------------------------------
(* poll_execution *)

PollExecution ==
    /\ pc = "idle" /\ sockfd = "open"
    /\ pc' = "recv"
    /\ UNCHANGED <<sockfd, read_buf, submitted, left, out, written, taken, peer_closed, delivered>>

Recv(n) ==
    /\ pc = "recv"
    /\ n >= 1 /\ n <= written - taken /\ Len(read_buf) + n <= BUF_SIZE
    /\ read_buf' = read_buf \o [i \in 1 .. n |-> taken + i - 1]
    /\ taken' = taken + n
    /\ UNCHANGED <<pc, sockfd, submitted, left, out, written, peer_closed, delivered>>

\* Mutant: EAGAIN does not end the loop.
MutRecvSpins ==
    /\ pc = "recv" /\ Len(read_buf) = BUF_SIZE
    /\ pc' = "parse"
    /\ UNCHANGED <<sockfd, read_buf, submitted, left, out, written, taken, peer_closed, delivered>>

\* The buffer is full, or recv says EAGAIN.
RecvStops ==
    /\ pc = "recv"
    /\ Len(read_buf) = BUF_SIZE \/ (taken = written /\ ~ peer_closed)
    /\ pc' = "parse"
    /\ UNCHANGED <<sockfd, read_buf, submitted, left, out, written, taken, peer_closed, delivered>>

\* recv returns 0 after the last byte: the gateway closes.
RecvEnds ==
    /\ pc = "recv" /\ Len(read_buf) < BUF_SIZE
    /\ taken = written /\ peer_closed
    /\ Close
    /\ pc' = "idle"
    /\ UNCHANGED <<submitted, left, out, written, taken, peer_closed, delivered>>

\* recv fails, with any number of bytes unread: the gateway closes.
RecvFails ==
    /\ pc = "recv" /\ Len(read_buf) < BUF_SIZE
    /\ Close
    /\ pc' = "idle"
    /\ UNCHANGED <<submitted, left, out, written, taken, peer_closed, delivered>>

\* Mutant of ParseReport: the remaining bytes are not moved to the front.
MutParseNoShift ==
    /\ pc = "parse" /\ Len(read_buf) >= REPORT_SIZE
    /\ delivered' = Append(delivered, SubSeq(read_buf, 1, REPORT_SIZE))
    /\ read_buf' = SubSeq(read_buf, 1, Len(read_buf) - REPORT_SIZE)
    /\ pc' = "recv"
    /\ UNCHANGED <<sockfd, submitted, left, out, written, taken, peer_closed>>

\* One report is returned, and the loop calls poll_execution again.
ParseReport ==
    /\ pc = "parse" /\ Len(read_buf) >= REPORT_SIZE
    /\ delivered' = Append(delivered, SubSeq(read_buf, 1, REPORT_SIZE))
    /\ read_buf' = SubSeq(read_buf, REPORT_SIZE + 1, Len(read_buf))
    /\ pc' = "recv"
    /\ UNCHANGED <<sockfd, submitted, left, out, written, taken, peer_closed>>

\* Less than a report: poll_execution returns false and the bytes wait.
ParseShort ==
    /\ pc = "parse" /\ Len(read_buf) < REPORT_SIZE
    /\ pc' = "idle"
    /\ UNCHANGED <<sockfd, read_buf, submitted, left, out, written, taken, peer_closed, delivered>>

-----------------------------------------------------------------------------
(* The exchange and the network: segments of any length (external) *)

Arrive(n) ==
    /\ sockfd = "open" /\ ~ peer_closed
    /\ n >= 1 /\ written + n <= MaxReports * REPORT_SIZE
    /\ written' = written + n
    /\ UNCHANGED <<pc, sockfd, read_buf, submitted, left, out, taken, peer_closed, delivered>>

PeerCloses ==
    /\ sockfd = "open" /\ ~ peer_closed
    /\ peer_closed' = TRUE
    /\ UNCHANGED <<pc, sockfd, read_buf, submitted, left, out, written, taken, delivered>>

-----------------------------------------------------------------------------
Gateway ==
    \/ Connect \/ ConnectFails \/ SubmitOrder \/ SendFails \/ RecvFails
    \/ \E n \in 1 .. ORDER_SIZE : Send(n)
    \/ PollExecution \/ RecvStops \/ RecvEnds \/ ParseReport \/ ParseShort
    \/ \E n \in 1 .. BUF_SIZE : Recv(n)

Next ==
    \/ Gateway \/ PeerCloses
    \/ \E n \in 1 .. MaxReports * REPORT_SIZE : Arrive(n)

\* The loop polls for ever; a socket that takes bytes lets send make progress.
Polling ==
    \/ Connect \/ PollExecution \/ RecvStops \/ RecvEnds \/ ParseReport \/ ParseShort
    \/ \E n \in 1 .. BUF_SIZE : Recv(n)
Sending == \E n \in 1 .. ORDER_SIZE : Send(n)

Spec == Init /\ [][Next]_gvars /\ WF_gvars(Polling) /\ WF_gvars(Sending)

-----------------------------------------------------------------------------
(* Properties *)

\* Bytes k .. k + n - 1 of the report stream.
Stream(k, n) == [i \in 1 .. n |-> k + i - 1]

\* However the stream is cut into segments and wherever the buffer fills up, the
\* reports returned are the reports written, whole, in order, without a gap.  The
\* buffer holds exactly the bytes read and not yet returned: the memmove and the
\* length that goes with it never lose or repeat one, nor does recv overrun it.
ReportsIntact ==
    /\ \A n \in 1 .. Len(delivered) :
            delivered[n] = Stream((n - 1) * REPORT_SIZE, REPORT_SIZE)
    /\ Len(read_buf) <= BUF_SIZE
    /\ sockfd = "open" =>
            read_buf = Stream(Len(delivered) * REPORT_SIZE, taken - Len(delivered) * REPORT_SIZE)

\* What the kernel took is a sequence of whole orders, but for the one being sent
\* and the one a failed send cut short, after which nothing is ever sent.
OrdersIntact ==
    LET whole == submitted * ORDER_SIZE - left
    IN  out = [i \in 1 .. whole |-> <<((i - 1) \div ORDER_SIZE) + 1, ((i - 1) % ORDER_SIZE) + 1>>]

\* Every report that has arrived whole is returned, unless the connection ends.
ReportsDelivered ==
    \A k \in 1 .. MaxReports :
        written >= k * REPORT_SIZE ~>
            (Len(delivered) >= k \/ sockfd = "closed" \/ peer_closed)
=============================================================================
