----------------------------- MODULE MdReceiver -----------------------------
(***************************************************************************)
(* The market data receiver: MdReceiver::poll (src/market_data.cpp) on a   *)
(* UDP multicast feed that may lose, duplicate and reorder datagrams.      *)
(*                                                                         *)
(* A datagram is its number in the feed, of which only the residue         *)
(* sequence_num is on the wire, its type, and whether its length fits the  *)
(* type.  Prices are left to module Pipeline.                              *)
(***************************************************************************)
EXTENDS Naturals, Sequences, SequencesExt

CONSTANTS
    Modulus,      \* 2^32: sequence_num and last_seq_ are uint32_t
    MaxSent,      \* bound: datagrams of the feed
    MaxCopies     \* bound: datagrams in flight or counted in packets_

ASSUME FeedAssumption ==
    /\ Modulus \in Nat \ {0}
    /\ MaxSent \in Nat /\ MaxSent < Modulus
    /\ MaxCopies \in Nat

VARIABLES
    unordered,    \* TRUE: the network duplicates and reorders
    base,         \* sequence number of the feed's first datagram
    sent,         \* datagrams the feed has sent
    net,          \* datagrams on their way or in the socket, in order
    phase,        \* start, idle, poll or closed
    packets, drops, quotes, references, last_seq,
    latest,       \* the datagram in the local variable latest, 0 if none (got_latest)
    msg,          \* what the last poll that returned true wrote: the datagram's
                  \* number, 0 if it wrote nothing
    accepted      \* history: numbers of the datagrams counted in packets_

feed == <<unordered, base, sent, net>>
tallies == <<packets, drops, quotes, references, last_seq, accepted>>
mvars == <<feed, phase, tallies, latest, msg>>

Type == {"Quote", "Reference", "Unknown"}
Seqnum(n) == (base + n) % Modulus

FeedInit ==
    /\ unordered \in BOOLEAN
    /\ base \in 0 .. Modulus - 1
    /\ sent = 0 /\ net = << >>
    /\ phase = "start"
    /\ packets = 0 /\ drops = 0 /\ quotes = 0 /\ references = 0 /\ last_seq = 0
    /\ latest = 0 /\ msg = 0
    /\ accepted = << >>

-----------------------------------------------------------------------------
(* The feed and the network (external) *)

Publish(type, fits) ==
    /\ sent < MaxSent /\ packets + Len(net) < MaxCopies
    /\ sent' = sent + 1
    /\ net' = Append(net, [n |-> sent + 1, type |-> type, fits |-> fits])
    /\ UNCHANGED <<unordered, base, phase, tallies, latest, msg>>

Lose(i) ==
    /\ net' = RemoveAt(net, i)
    /\ UNCHANGED <<unordered, base, sent, phase, tallies, latest, msg>>

Duplicate(i) ==
    /\ unordered /\ packets + Len(net) < MaxCopies
    /\ net' = Append(net, net[i])
    /\ UNCHANGED <<unordered, base, sent, phase, tallies, latest, msg>>

-----------------------------------------------------------------------------
(* The receiver *)

\* init: what was sent before the socket joined the group is not seen.  A socket that
\* cannot be opened, bound or joined ends main before the first poll.
Open ==
    /\ phase = "start"
    /\ phase' = "idle"
    /\ net' = << >>
    /\ UNCHANGED <<unordered, base, sent, tallies, latest, msg>>

Poll ==
    /\ phase = "idle"
    /\ phase' = "poll"
    /\ latest' = 0
    /\ UNCHANGED <<feed, tallies, msg>>

Valid(d) == d.type # "Unknown" /\ d.fits

\* Mutant: the gap counts the datagram that ends it.
MutGap(seq) == IF packets > 0 THEN (seq + Modulus - last_seq) % Modulus ELSE 0

\* What a datagram with this sequence number adds to drops_.
Gap(seq) ==
    IF packets > 0 /\ seq # (last_seq + 1) % Modulus
    THEN (seq + 2 * Modulus - last_seq - 1) % Modulus ELSE 0

MutFirst(d) == IF latest = 0 THEN d.n ELSE latest      \* mutant: the first one is kept
Newest(d) == d.n

\* One pass of the loop of poll, with the i-th datagram.
Receive(i) ==
    /\ phase = "poll"
    /\ ~ unordered => i = 1
    /\ net' = RemoveAt(net, i)
    /\ LET d == net[i]
       IN  IF Valid(d)
           THEN /\ quotes' = IF d.type = "Quote" THEN quotes + 1 ELSE quotes
                /\ references' = IF d.type = "Reference" THEN references + 1 ELSE references
                /\ drops' = drops + Gap(Seqnum(d.n))
                /\ last_seq' = Seqnum(d.n)
                /\ packets' = packets + 1
                /\ latest' = Newest(d)
                /\ accepted' = Append(accepted, d.n)
           ELSE UNCHANGED <<tallies, latest>>
    /\ UNCHANGED <<unordered, base, sent, phase, msg>>

\* recvfrom says EAGAIN: the latest datagram, if any, is returned.
PollReturns ==
    /\ phase = "poll" /\ net = << >>
    /\ msg' = IF latest # 0 THEN latest ELSE msg
    /\ phase' = "idle"
    /\ UNCHANGED <<feed, tallies, latest>>

\* recvfrom fails: poll returns true if it had received something, but the caller's
\* message is not written.
PollFails ==
    /\ phase = "poll"
    /\ msg' = IF latest # 0 THEN 0 ELSE msg
    /\ phase' = "idle"
    /\ UNCHANGED <<feed, tallies, latest>>

\* close, when the loop has ended.
CloseReceiver ==
    /\ phase = "idle"
    /\ phase' = "closed"
    /\ UNCHANGED <<feed, tallies, latest, msg>>

FeedNext ==
    \/ \E type \in Type, fits \in BOOLEAN : Publish(type, fits)
    \/ \E i \in DOMAIN net : Lose(i) \/ Duplicate(i) \/ Receive(i)
    \/ Open \/ Poll \/ PollReturns \/ PollFails \/ CloseReceiver

FeedSpec == FeedInit /\ [][FeedNext]_mvars

-----------------------------------------------------------------------------
(* Properties *)

\* packets_dropped().  On a feed that only loses datagrams it is exactly the number
\* missing between the first and the last one received, across the wrap-around of the
\* sequence number; one that poll skips as invalid counts as lost.  Whatever the
\* network does it agrees with the sequence numbers modulo 2^32: what a late or
\* repeated datagram adds is taken back by the next one in order, but for multiples
\* of 2^32 that stay in the 64-bit counter.
DropsRight ==
    accepted # << >> =>
        /\ ~ unordered => drops = (Last(accepted) - accepted[1]) - (packets - 1)
        /\ (drops + packets - 1 + Seqnum(accepted[1])) % Modulus = last_seq
        /\ packets = quotes + references /\ packets = Len(accepted)

\* On a feed that only loses datagrams, the book never goes back in time: each
\* message returned is newer than all that were returned before, although poll
\* hands over only one of the datagrams it drains.
NeverBackwards ==
    [][~ unordered /\ msg' # msg /\ msg' # 0 => msg' > msg /\ msg' = Last(accepted')]_mvars
=============================================================================
