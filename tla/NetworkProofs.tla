--------------------------- MODULE NetworkProofs ---------------------------
(***************************************************************************)
(* Machine-checked proofs about what crosses the network: the byte streams *)
(* of module OrderGateway, for every message size and every buffer size    *)
(* that holds a report, and the datagrams of module MdReceiver, for every  *)
(* width of the sequence number, every length of the feed and every        *)
(* network.                                                                *)
(***************************************************************************)
EXTENDS OrderGateway, MdReceiver, Integers, SequenceTheorems, TLAPS

-----------------------------------------------------------------------------
(* The order gateway *)

-----------------------------------------------------------------------------
(* The inductive invariant *)

\* The bytes that were returned in reports.
Returned == Len(delivered) * REPORT_SIZE

\* The types of what the proofs need.
GatewayTypes ==
    /\ read_buf \in Seq(Nat)
    /\ submitted \in Nat /\ left \in 0 .. ORDER_SIZE
    /\ written \in Nat /\ taken \in Nat
    /\ delivered \in Seq(Seq(Nat))
    /\ sockfd \in {"none", "open", "closed"}

\* Where the loop is tells what the socket is; before it is opened nothing was read.
SocketRight ==
    /\ pc = "start" => sockfd = "none"
    /\ pc \in {"send", "recv", "parse"} => sockfd = "open"
    /\ sockfd = "none" => read_buf = << >> /\ taken = 0 /\ delivered = << >> /\ left = 0
    /\ sockfd = "open" => Returned <= taken

\* An order is cut short only while it is being sent, or by a send that failed.
LeftRight ==
    /\ left > 0 => pc = "send" \/ sockfd = "closed"
    /\ pc = "send" => submitted >= 1 /\ left > 0

GatewayInv == GatewayTypes /\ SocketRight /\ LeftRight /\ ReportsIntact /\ OrdersIntact

-----------------------------------------------------------------------------
(* Sequences *)

\* A sequence that is two others, one behind the other.
LEMMA ConcatIs ==
    ASSUME NEW S, NEW s \in Seq(S), NEW t \in Seq(S), NEW u \in Seq(S),
           Len(u) = Len(s) + Len(t),
           \A i \in 1 .. Len(s) : u[i] = s[i],
           \A i \in 1 .. Len(t) : u[Len(s) + i] = t[i]
    PROVE  s \o t = u
<1>1. Len(s) \in Nat /\ Len(t) \in Nat
  BY LenProperties
<1>2. /\ s \o t \in Seq(S) /\ Len(s \o t) = Len(s) + Len(t)
      /\ \A i \in 1 .. Len(s) + Len(t) :
            (s \o t)[i] = IF i <= Len(s) THEN s[i] ELSE t[i - Len(s)]
  BY ConcatProperties
<1>3. ASSUME NEW i \in 1 .. Len(s) + Len(t)
      PROVE  (s \o t)[i] = u[i]
  <2>1. CASE i <= Len(s)
    BY <1>1, <1>2, <2>1
  <2>2. CASE ~ (i <= Len(s))
    <3>1. i - Len(s) \in 1 .. Len(t) /\ Len(s) + (i - Len(s)) = i
      BY <1>1, <2>2
    <3>2. u[Len(s) + (i - Len(s))] = t[i - Len(s)]
      BY <3>1
    <3> QED
      BY <1>2, <2>2, <3>1, <3>2
  <2> QED
    BY <2>1, <2>2
<1> QED
  BY <1>2, <1>3, SeqEqual

-----------------------------------------------------------------------------
(* The report stream *)

\* A run of the stream is a sequence of numbers.
LEMMA StreamSeq ==
    ASSUME NEW a \in Nat, NEW n \in Nat
    PROVE  /\ Stream(a, n) \in Seq(Nat)
           /\ Len(Stream(a, n)) = n
           /\ \A i \in 1 .. n : Stream(a, n)[i] = a + i - 1
BY DEF Stream

\* Two runs, one behind the other, are one run.
LEMMA StreamConcat ==
    ASSUME NEW a \in Nat, NEW m \in Nat, NEW n \in Nat
    PROVE  Stream(a, m) \o Stream(a + m, n) = Stream(a, m + n)
<1> DEFINE s == Stream(a, m)
           t == Stream(a + m, n)
           u == Stream(a, m + n)
<1>1. s \in Seq(Nat) /\ Len(s) = m /\ \A i \in 1 .. m : s[i] = a + i - 1
  BY StreamSeq
<1>2. t \in Seq(Nat) /\ Len(t) = n /\ \A i \in 1 .. n : t[i] = (a + m) + i - 1
  <2>1. a + m \in Nat
    OBVIOUS
  <2> QED
    BY <2>1, StreamSeq
<1>3. u \in Seq(Nat) /\ Len(u) = m + n /\ \A i \in 1 .. m + n : u[i] = a + i - 1
  <2>1. m + n \in Nat
    OBVIOUS
  <2> QED
    BY <2>1, StreamSeq
<1> HIDE DEF s, t, u
<1>4. \A i \in 1 .. Len(s) : u[i] = s[i]
  BY <1>1, <1>3
<1>5. \A i \in 1 .. Len(t) : u[Len(s) + i] = t[i]
  BY <1>1, <1>2, <1>3
<1>6. s \o t = u
  BY <1>1, <1>2, <1>3, <1>4, <1>5, ConcatIs
<1> QED
  BY <1>6 DEF s, t, u

\* Cutting a run in two.
LEMMA StreamCut ==
    ASSUME NEW a \in Nat, NEW n \in Nat, NEW m \in Nat, m <= n
    PROVE  /\ SubSeq(Stream(a, n), 1, m) = Stream(a, m)
           /\ SubSeq(Stream(a, n), m + 1, n) = Stream(a + m, n - m)
<1> DEFINE s == Stream(a, n)
           t == Stream(a, m)
           u == Stream(a + m, n - m)
<1>1. s \in Seq(Nat) /\ Len(s) = n /\ \A i \in 1 .. n : s[i] = a + i - 1
  BY StreamSeq
<1>2. t \in Seq(Nat) /\ Len(t) = m /\ \A i \in 1 .. m : t[i] = a + i - 1
  BY StreamSeq
<1>3. n - m \in Nat /\ a + m \in Nat
  OBVIOUS
<1>4. u \in Seq(Nat) /\ Len(u) = n - m /\ \A i \in 1 .. n - m : u[i] = (a + m) + i - 1
  BY <1>3, StreamSeq
<1> HIDE DEF s, t, u
<1>5. SubSeq(s, 1, m) = t
  <2>1. SubSeq(s, 1, m) \in Seq(Nat) /\ Len(SubSeq(s, 1, m)) = m
    BY <1>1
  <2>2. \A i \in 1 .. m : SubSeq(s, 1, m)[i] = t[i]
    BY <1>1, <1>2
  <2> QED
    BY <1>2, <2>1, <2>2
<1>6. SubSeq(s, m + 1, n) = u
  <2>1. SubSeq(s, m + 1, n) \in Seq(Nat) /\ Len(SubSeq(s, m + 1, n)) = n - m
    BY <1>1
  <2>2. \A i \in 1 .. n - m : SubSeq(s, m + 1, n)[i] = u[i]
    BY <1>1, <1>4
  <2> QED
    BY <1>4, <2>1, <2>2
<1> QED
  BY <1>5, <1>6 DEF s, t, u

\* One report more.
LEMMA NextMultiple ==
    ASSUME NEW n \in Nat, NEW r \in Nat
    PROVE  n * r \in Nat /\ (n + 1) * r = n * r + r /\ ((n + 1) - 1) * r = n * r
OBVIOUS

\* The sizes.
LEMMA SizesNat ==
    ORDER_SIZE \in Nat /\ ORDER_SIZE > 0 /\ REPORT_SIZE \in Nat /\ REPORT_SIZE > 0
    /\ BUF_SIZE \in Nat /\ BUF_SIZE >= REPORT_SIZE
BY GatewayAssumption DEF GatewayAssumption

-----------------------------------------------------------------------------
(* The order stream *)

\* The first w bytes of whole orders.
Bytes(w) == [i \in 1 .. w |-> <<((i - 1) \div ORDER_SIZE) + 1, ((i - 1) % ORDER_SIZE) + 1>>]

\* They are a sequence.
LEMMA BytesSeq ==
    ASSUME NEW w \in Nat
    PROVE  /\ Bytes(w) \in Seq(Nat \X Int)
           /\ Len(Bytes(w)) = w
           /\ \A i \in 1 .. w : Bytes(w)[i] = <<((i - 1) \div ORDER_SIZE) + 1,
                                               ((i - 1) % ORDER_SIZE) + 1>>
<1> DEFINE e(i) == <<((i - 1) \div ORDER_SIZE) + 1, ((i - 1) % ORDER_SIZE) + 1>>
           s == [i \in 1 .. w |-> e(i)]
<1>1. \A i \in 1 .. w : e(i) \in Nat \X Int
  <2>1. \A i \in 1 .. w : i - 1 \in Nat
    OBVIOUS
  <2>2. \A j \in Nat : j \div ORDER_SIZE \in Nat /\ j % ORDER_SIZE \in Nat
    BY SizesNat
  <2>3. \A j \in Nat : (j \div ORDER_SIZE) + 1 \in Nat /\ (j % ORDER_SIZE) + 1 \in Int
    BY <2>2
  <2> QED
    BY <2>1, <2>3
<1>2. Bytes(w) = s
  BY DEF Bytes
<1> HIDE DEF e
<1>3. s \in Seq(Nat \X Int) /\ Len(s) = w /\ \A i \in 1 .. w : s[i] = e(i)
  BY <1>1
<1> QED
  BY <1>2, <1>3 DEF e

\* Byte i of an order is where a division by the order size puts it.
LEMMA ByteOf ==
    ASSUME NEW k \in Nat, k >= 1, NEW b \in Nat, b < ORDER_SIZE
    PROVE  /\ ((k - 1) * ORDER_SIZE + b) \div ORDER_SIZE = k - 1
           /\ ((k - 1) * ORDER_SIZE + b) % ORDER_SIZE = b
<1> DEFINE a == k - 1
           s == ORDER_SIZE
<1>1. a \in Nat /\ s \in Nat /\ s > 0 /\ b < s
  BY SizesNat
<1> HIDE DEF a, s
<1>2. (a * s + b) \div s = a
  BY <1>1
<1>3. (a * s + b) % s = b
  BY <1>1
<1> QED
  BY <1>2, <1>3 DEF a, s

\* What a send of n bytes takes of order k when l bytes are left.
Piece(k, l, n) == [i \in 1 .. n |-> <<k, ORDER_SIZE - l + i>>]

\* A send of n bytes appends the next n bytes of the order under way.
LEMMA BytesConcat ==
    ASSUME NEW k \in Nat, k >= 1, NEW l \in 1 .. ORDER_SIZE, NEW n \in 1 .. l,
           NEW w \in Nat, w = k * ORDER_SIZE - l
    PROVE  Bytes(w) \o Piece(k, l, n) = Bytes(w + n)
<1> DEFINE s == Bytes(w)
           t == Piece(k, l, n)
           u == Bytes(w + n)
           T == Nat \X Int
<1>1. ORDER_SIZE \in Nat /\ ORDER_SIZE > 0 /\ l \in Nat /\ l <= ORDER_SIZE /\ n \in Nat /\ n <= l
  BY SizesNat
<1>2. w = (k - 1) * ORDER_SIZE + (ORDER_SIZE - l)
  <2>1. \A x \in Nat : x >= 1 => x * ORDER_SIZE = (x - 1) * ORDER_SIZE + ORDER_SIZE
                                /\ (x - 1) * ORDER_SIZE \in Nat
    BY <1>1
  <2>2. k * ORDER_SIZE = (k - 1) * ORDER_SIZE + ORDER_SIZE /\ (k - 1) * ORDER_SIZE \in Nat
    BY <2>1
  <2> QED
    BY <1>1, <2>2
<1>4. /\ s \in Seq(T) /\ Len(s) = w
      /\ \A i \in 1 .. w : s[i] = <<((i - 1) \div ORDER_SIZE) + 1, ((i - 1) % ORDER_SIZE) + 1>>
  BY BytesSeq
<1>5. /\ u \in Seq(T) /\ Len(u) = w + n
      /\ \A i \in 1 .. w + n : u[i] = <<((i - 1) \div ORDER_SIZE) + 1, ((i - 1) % ORDER_SIZE) + 1>>
  <2>1. w + n \in Nat
    BY <1>1
  <2> QED
    BY <2>1, BytesSeq
<1>6. t \in Seq(T) /\ Len(t) = n /\ \A i \in 1 .. n : t[i] = <<k, ORDER_SIZE - l + i>>
  <2> DEFINE e(i) == <<k, ORDER_SIZE - l + i>>
  <2>1. \A i \in 1 .. n : e(i) \in T
    BY <1>1
  <2>2. t = [i \in 1 .. n |-> e(i)]
    BY DEF Piece
  <2> HIDE DEF e, T, t
  <2>3. t \in Seq(T) /\ Len(t) = n /\ \A i \in 1 .. n : t[i] = e(i)
    BY <1>1, <2>1, <2>2
  <2> QED
    BY <2>3 DEF e
<1>7. \A i \in 1 .. n : u[w + i] = t[i]
  <2> HIDE DEF s, t, u, T
  <2> SUFFICES ASSUME NEW i \in 1 .. n PROVE u[w + i] = t[i]
    OBVIOUS
  <2> DEFINE b == (ORDER_SIZE - l) + (i - 1)
             m == (k - 1) * ORDER_SIZE
  <2>1. b \in Nat /\ b < ORDER_SIZE
    BY <1>1
  <2>2. (w + i) - 1 = m + b
    <3>1. m \in Int
      <4>1. \A x \in Nat : x >= 1 => (x - 1) * ORDER_SIZE \in Int
        BY <1>1
      <4> QED
        BY <4>1
    <3> HIDE DEF m
    <3> QED
      BY <1>1, <1>2, <3>1 DEF m
  <2>3. u[w + i] = <<(((w + i) - 1) \div ORDER_SIZE) + 1, (((w + i) - 1) % ORDER_SIZE) + 1>>
    BY <1>1, <1>5
  <2> HIDE DEF b
  <2>4. (m + b) \div ORDER_SIZE = k - 1 /\ (m + b) % ORDER_SIZE = b
    BY <2>1, ByteOf
  <2>5. u[w + i] = <<(k - 1) + 1, b + 1>>
    BY <2>2, <2>3, <2>4
  <2>6. (k - 1) + 1 = k /\ b + 1 = ORDER_SIZE - l + i
    BY <1>1 DEF b
  <2> QED
    BY <2>5, <2>6, <1>6
<1> HIDE DEF s, t, u, T
<1>a. Len(u) = Len(s) + Len(t)
  BY <1>4, <1>5, <1>6
<1>8. \A i \in 1 .. Len(s) : u[i] = s[i]
  <2>1. \A i \in 1 .. w : i \in 1 .. w + n
    BY <1>1
  <2> QED
    BY <2>1, <1>4, <1>5, Zenon
<1>9. \A i \in 1 .. Len(t) : u[Len(s) + i] = t[i]
  BY <1>4, <1>6, <1>7
<1>10. s \o t = u
  BY <1>a, <1>4, <1>5, <1>6, <1>8, <1>9, ConcatIs
<1> QED
  BY <1>10 DEF s, t, u

-----------------------------------------------------------------------------
(* The steps *)

\* What an action that leaves the streams alone must keep.
StreamsKept == UNCHANGED <<read_buf, submitted, left, out, taken, delivered>>

\* The streams in the next state, when they did not change.
LEMMA StreamsFrame ==
    ASSUME GatewayInv, StreamsKept, written' \in Nat,
           sockfd' \in {"none", "open", "closed"}, sockfd' = sockfd
    PROVE  GatewayTypes' /\ ReportsIntact' /\ OrdersIntact'
<1>1. GatewayTypes'
  BY DEF GatewayInv, GatewayTypes, StreamsKept
<1>2. ReportsIntact'
  BY DEF GatewayInv, ReportsIntact, StreamsKept
<1>3. OrdersIntact'
  BY DEF GatewayInv, OrdersIntact, StreamsKept
<1> QED
  BY <1>1, <1>2, <1>3

\* Steps that only move the loop or the other end.
LEMMA InvQuiet ==
    ASSUME GatewayInv, StreamsKept, sockfd' = sockfd, written' \in Nat,
           pc' = "start" => pc = "start",
           pc' \in {"send", "recv", "parse"} => sockfd = "open",
           pc' = "send" <=> pc = "send"
    PROVE  GatewayInv'
<1>1. GatewayTypes' /\ ReportsIntact' /\ OrdersIntact'
  BY StreamsFrame DEF GatewayInv, GatewayTypes
<1>2. SocketRight'
  BY DEF GatewayInv, SocketRight, Returned, StreamsKept
<1>3. LeftRight'
  BY DEF GatewayInv, LeftRight, StreamsKept
<1> QED
  BY <1>1, <1>2, <1>3 DEF GatewayInv

\* The socket is opened.
LEMMA InvConnect ==
    ASSUME GatewayInv, Connect
    PROVE  GatewayInv'
<1>1. /\ pc = "start" /\ pc' = "idle" /\ sockfd' = "open"
      /\ UNCHANGED <<read_buf, submitted, left, out, written, taken, delivered>>
  BY DEF Connect
<1>2. GatewayTypes /\ SocketRight /\ LeftRight /\ ReportsIntact /\ OrdersIntact
  BY DEF GatewayInv
<1>3. sockfd = "none" /\ read_buf = << >> /\ taken = 0 /\ delivered = << >> /\ left = 0
  BY <1>1, <1>2 DEF SocketRight
<1>4. Len(delivered) * REPORT_SIZE = 0
  BY <1>3, SizesNat
<1>5. Stream(Len(delivered) * REPORT_SIZE, taken - Len(delivered) * REPORT_SIZE) = read_buf
  <2>1. taken - Len(delivered) * REPORT_SIZE = 0
    BY <1>3, <1>4
  <2>2. Stream(0, 0) = << >>
    BY DEF Stream
  <2> QED
    BY <1>3, <1>4, <2>1, <2>2
<1>6. ReportsIntact'
  BY <1>1, <1>2, <1>5 DEF ReportsIntact
<1>7. OrdersIntact'
  BY <1>1, <1>2 DEF OrdersIntact
<1>8. GatewayTypes'
  BY <1>1, <1>2 DEF GatewayTypes
<1>9. SocketRight'
  BY <1>1, <1>3, <1>4 DEF SocketRight, Returned
<1>10. LeftRight'
  BY <1>1, <1>3 DEF LeftRight
<1> QED
  BY <1>6, <1>7, <1>8, <1>9, <1>10 DEF GatewayInv

\* The socket is closed, and the buffer emptied with it.
LEMMA InvClose ==
    ASSUME GatewayInv, Close, pc' = "idle", pc \in {"send", "recv"},
           UNCHANGED <<submitted, left, out, written, taken, peer_closed, delivered>>
    PROVE  GatewayInv'
<1>1. sockfd' = "closed" /\ read_buf' = << >>
  BY DEF Close
<1>2. GatewayTypes /\ SocketRight /\ LeftRight /\ ReportsIntact /\ OrdersIntact
  BY DEF GatewayInv
<1>3. ReportsIntact'
  <2>1. Len(<< >>) <= BUF_SIZE
    BY SizesNat
  <2> QED
    BY <1>1, <1>2, <2>1 DEF ReportsIntact
<1>4. OrdersIntact'
  BY <1>2 DEF OrdersIntact
<1>5. GatewayTypes'
  BY <1>1, <1>2 DEF GatewayTypes
<1>6. SocketRight' /\ LeftRight'
  BY <1>1, <1>2 DEF SocketRight, LeftRight
<1> QED
  BY <1>3, <1>4, <1>5, <1>6 DEF GatewayInv

\* The types of the order counters, and what left says between orders.
LEMMA OrderTypes ==
    ASSUME GatewayInv
    PROVE  submitted \in Nat /\ left \in 0 .. ORDER_SIZE
           /\ out = Bytes(submitted * ORDER_SIZE - left)
BY DEF GatewayInv, GatewayTypes, OrdersIntact, Bytes

\* A new order starts behind the last one, which was sent in full.
LEMMA InvSubmit ==
    ASSUME GatewayInv, SubmitOrder
    PROVE  GatewayInv'
<1>1. /\ pc = "idle" /\ sockfd = "open" /\ submitted' = submitted + 1 /\ left' = ORDER_SIZE
      /\ pc' = "send" /\ UNCHANGED <<sockfd, read_buf, out, written, taken, peer_closed, delivered>>
  BY DEF SubmitOrder
<1>2. GatewayTypes /\ SocketRight /\ LeftRight /\ ReportsIntact /\ OrdersIntact
  BY DEF GatewayInv
<1>3. submitted \in Nat /\ left = 0
  BY <1>1, <1>2 DEF GatewayTypes, LeftRight
<1>4. submitted' * ORDER_SIZE - left' = submitted * ORDER_SIZE - left
  <2>1. (submitted + 1) * ORDER_SIZE = submitted * ORDER_SIZE + ORDER_SIZE
        /\ submitted * ORDER_SIZE \in Nat /\ ORDER_SIZE \in Nat
    BY <1>3, SizesNat, NextMultiple
  <2> QED
    BY <1>1, <1>3, <2>1
<1>5. OrdersIntact'
  BY <1>1, <1>2, <1>4 DEF OrdersIntact
<1>6. ReportsIntact'
  BY <1>1, <1>2 DEF ReportsIntact
<1>7. GatewayTypes' /\ SocketRight' /\ LeftRight'
  BY <1>1, <1>2, SizesNat DEF GatewayTypes, SocketRight, LeftRight, Returned
<1> QED
  BY <1>5, <1>6, <1>7 DEF GatewayInv

\* A send continues the order where the last one stopped.
LEMMA InvSend ==
    ASSUME GatewayInv, NEW n \in Nat, Send(n)
    PROVE  GatewayInv'
<1>1. /\ pc = "send" /\ n \in 1 .. left
      /\ out' = out \o Piece(submitted, left, n)
      /\ left' = left - n /\ pc' = IF left' = 0 THEN "idle" ELSE "send"
      /\ UNCHANGED <<sockfd, read_buf, submitted, written, taken, peer_closed, delivered>>
  BY DEF Send, Piece
<1>2. GatewayTypes /\ SocketRight /\ LeftRight /\ ReportsIntact /\ OrdersIntact
  BY DEF GatewayInv
<1>3. /\ submitted \in Nat /\ submitted >= 1 /\ left \in 1 .. ORDER_SIZE /\ ORDER_SIZE \in Nat
      /\ sockfd = "open"
  BY <1>1, <1>2, SizesNat DEF GatewayTypes, LeftRight, SocketRight
<1> DEFINE w == submitted * ORDER_SIZE - left
<1>4. w \in Nat
  <2>1. \A k \in Nat : k >= 1 => k * ORDER_SIZE >= ORDER_SIZE /\ k * ORDER_SIZE \in Nat
    <3>1. \A k \in Nat : k * ORDER_SIZE \in Nat
      BY <1>3
    <3>2. \A k \in Nat : (k + 1) * ORDER_SIZE = k * ORDER_SIZE + ORDER_SIZE
      BY <1>3
    <3>3. ASSUME NEW k \in Nat, k >= 1 PROVE k * ORDER_SIZE >= ORDER_SIZE
      <4>1. k - 1 \in Nat /\ (k - 1) + 1 = k
        BY <3>3
      <4>2. ((k - 1) + 1) * ORDER_SIZE = (k - 1) * ORDER_SIZE + ORDER_SIZE
            /\ (k - 1) * ORDER_SIZE \in Nat
        BY <3>1, <3>2, <4>1
      <4> QED
        BY <1>3, <4>1, <4>2
    <3> QED
      BY <3>1, <3>3
  <2>2. submitted * ORDER_SIZE >= ORDER_SIZE /\ submitted * ORDER_SIZE \in Nat
    BY <1>3, <2>1
  <2> QED
    BY <1>3, <2>2
<1>5. out = Bytes(w)
  BY OrderTypes
<1>6. submitted' * ORDER_SIZE - left' = w + n
  <2>1. submitted * ORDER_SIZE \in Int
    <3>1. \A k \in Nat : k * ORDER_SIZE \in Int
      BY <1>3
    <3> QED
      BY <1>3, <3>1
  <2> QED
    BY <1>1, <1>3, <2>1
<1>7. Bytes(w) \o Piece(submitted, left, n) = Bytes(w + n)
  <2>1. PICK ww \in Nat : ww = w
    BY <1>4
  <2> HIDE DEF w
  <2>2. ww = submitted * ORDER_SIZE - left
    BY <2>1 DEF w
  <2>3. Bytes(ww) \o Piece(submitted, left, n) = Bytes(ww + n)
    <3>1. /\ submitted \in Nat /\ submitted >= 1 /\ left \in 1 .. ORDER_SIZE
          /\ n \in 1 .. left
      BY <1>1, <1>3
    <3> QED
      BY <3>1, <2>2, BytesConcat, ZenonT(30)
  <2> QED
    BY <2>1, <2>3
<1>8. OrdersIntact'
  <2>1. out' = Bytes(w + n)
    BY <1>1, <1>5, <1>7
  <2> HIDE DEF w
  <2>2. out' = Bytes(submitted' * ORDER_SIZE - left')
    BY <1>6, <2>1
  <2> QED
    BY <2>2 DEF OrdersIntact, Bytes
<1>9. ReportsIntact'
  BY <1>1, <1>2 DEF ReportsIntact
<1>10. GatewayTypes' /\ SocketRight' /\ LeftRight'
  BY <1>1, <1>2, <1>3 DEF GatewayTypes, SocketRight, LeftRight, Returned
<1> QED
  BY <1>8, <1>9, <1>10 DEF GatewayInv

\* What the buffer of an open socket holds.
LEMMA BufferIs ==
    ASSUME GatewayInv, sockfd = "open"
    PROVE  /\ Len(delivered) \in Nat /\ Returned \in Nat /\ taken \in Nat /\ written \in Nat
           /\ taken - Returned \in Nat
           /\ read_buf = Stream(Returned, taken - Returned)
           /\ Len(read_buf) = taken - Returned
           /\ Len(read_buf) <= BUF_SIZE
<1>1. delivered \in Seq(Seq(Nat)) /\ taken \in Nat /\ written \in Nat /\ Returned <= taken
  BY DEF GatewayInv, GatewayTypes, SocketRight
<1>2. Len(delivered) \in Nat
  BY <1>1
<1>3. Returned \in Nat
  BY <1>2, SizesNat, NextMultiple DEF Returned
<1>4. taken - Returned \in Nat
  BY <1>1, <1>3
<1>5. read_buf = Stream(Returned, taken - Returned) /\ Len(read_buf) <= BUF_SIZE
  BY DEF GatewayInv, ReportsIntact, Returned
<1>6. Len(read_buf) = taken - Returned
  BY <1>3, <1>4, <1>5, StreamSeq
<1> QED
  BY <1>1, <1>2, <1>3, <1>4, <1>5, <1>6

\* recv puts the next bytes of the stream behind those in the buffer.
LEMMA InvRecv ==
    ASSUME GatewayInv, NEW n \in Nat, Recv(n)
    PROVE  GatewayInv'
<1>1. /\ pc = "recv" /\ n >= 1 /\ n <= written - taken /\ Len(read_buf) + n <= BUF_SIZE
      /\ read_buf' = read_buf \o Stream(taken, n) /\ taken' = taken + n
      /\ UNCHANGED <<pc, sockfd, submitted, left, out, written, peer_closed, delivered>>
  BY DEF Recv, Stream
<1>2. GatewayTypes /\ SocketRight /\ LeftRight /\ ReportsIntact /\ OrdersIntact
  BY DEF GatewayInv
<1>3. sockfd = "open"
  BY <1>1, <1>2 DEF SocketRight
<1> DEFINE R == Returned
           m == taken - R
<1>4. /\ R \in Nat /\ taken \in Nat /\ m \in Nat /\ read_buf = Stream(R, m) /\ Len(read_buf) = m
      /\ written \in Nat
  BY <1>3, BufferIs
<1>5. R + m = taken /\ m + n = (taken + n) - R /\ m + n \in Nat
  BY <1>4
<1>6. Returned' = R /\ R = Len(delivered) * REPORT_SIZE
  BY <1>1 DEF Returned
<1> HIDE DEF R, m
<1>7. Stream(R, m) \o Stream(taken, n) = Stream(R, m + n)
  <2>1. Stream(R, m) \o Stream(R + m, n) = Stream(R, m + n)
    BY <1>4, StreamConcat
  <2> QED
    BY <1>5, <2>1
<1>8. read_buf' = Stream(R, taken' - R)
  BY <1>1, <1>4, <1>5, <1>7
<1>9. Stream(R, m + n) \in Seq(Nat) /\ Len(Stream(R, m + n)) = m + n
  BY <1>4, <1>5, StreamSeq
<1>10. read_buf' \in Seq(Nat) /\ Len(read_buf') = m + n
  BY <1>1, <1>5, <1>8, <1>9
<1>11. ReportsIntact'
  <2>1. \A i \in 1 .. Len(delivered) :
            delivered[i] = Stream((i - 1) * REPORT_SIZE, REPORT_SIZE)
    BY <1>2 DEF ReportsIntact
  <2>2. Len(read_buf') <= BUF_SIZE
    BY <1>1, <1>4, <1>10
  <2> QED
    BY <1>1, <1>6, <1>8, <2>1, <2>2 DEF ReportsIntact
<1>12. OrdersIntact'
  BY <1>1, <1>2 DEF OrdersIntact
<1>13. GatewayTypes'
  BY <1>1, <1>2, <1>4, <1>10 DEF GatewayTypes
<1>14. SocketRight'
  <2>1. R <= taken'
    BY <1>1, <1>2, <1>3, <1>4 DEF SocketRight, R
  <2> QED
    BY <1>1, <1>2, <1>3, <1>6, <2>1 DEF SocketRight
<1>15. LeftRight'
  BY <1>1, <1>2 DEF LeftRight
<1> QED
  BY <1>11, <1>12, <1>13, <1>14, <1>15 DEF GatewayInv

\* Parsing cuts the next whole report off the front.
LEMMA InvParse ==
    ASSUME GatewayInv, ParseReport
    PROVE  GatewayInv'
<1> DEFINE r == REPORT_SIZE
           R == Returned
           m == taken - R
           d == SubSeq(read_buf, 1, r)
<1>1. /\ pc = "parse" /\ Len(read_buf) >= r /\ delivered' = Append(delivered, d)
      /\ read_buf' = SubSeq(read_buf, r + 1, Len(read_buf)) /\ pc' = "recv"
      /\ UNCHANGED <<sockfd, submitted, left, out, written, taken, peer_closed>>
  BY DEF ParseReport
<1>2. GatewayTypes /\ SocketRight /\ LeftRight /\ ReportsIntact /\ OrdersIntact
  BY DEF GatewayInv
<1>3. sockfd = "open"
  BY <1>1, <1>2 DEF SocketRight
<1>4. /\ R \in Nat /\ taken \in Nat /\ m \in Nat /\ read_buf = Stream(R, m) /\ Len(read_buf) = m
      /\ Len(delivered) \in Nat /\ m <= BUF_SIZE
  BY <1>3, BufferIs
<1>5. r \in Nat /\ r > 0 /\ r <= m /\ BUF_SIZE \in Nat
  BY <1>1, <1>4, SizesNat
<1>6. R = Len(delivered) * r
  BY DEF Returned
<1>7. delivered \in Seq(Seq(Nat))
  BY <1>2 DEF GatewayTypes
<1>8. m - r = taken - (R + r) /\ R + r \in Nat /\ m - r \in Nat
  BY <1>4, <1>5
<1>a. read_buf' = SubSeq(read_buf, r + 1, m)
  BY <1>1, <1>4
<1> HIDE DEF r, R, m
<1>9. d = Stream(R, r) /\ SubSeq(read_buf, r + 1, m) = Stream(R + r, m - r)
  <2>1. R \in Nat /\ m \in Nat /\ r \in Nat /\ r <= m
    BY <1>4, <1>5
  <2>2. /\ SubSeq(Stream(R, m), 1, r) = Stream(R, r)
        /\ SubSeq(Stream(R, m), r + 1, m) = Stream(R + r, m - r)
    BY <2>1, StreamCut
  <2>3. read_buf = Stream(R, m)
    BY <1>4
  <2> QED
    BY <2>2, <2>3
<1>10. d \in Seq(Nat)
  <2>1. R \in Nat /\ r \in Nat
    BY <1>4, <1>5
  <2>2. Stream(R, r) \in Seq(Nat)
    BY <2>1, StreamSeq
  <2> QED
    BY <2>2, <1>9
<1> HIDE DEF d
<1>11. /\ Len(delivered') = Len(delivered) + 1
       /\ \A i \in 1 .. Len(delivered) : delivered'[i] = delivered[i]
       /\ delivered'[Len(delivered) + 1] = d
       /\ delivered' \in Seq(Seq(Nat))
  BY <1>1, <1>7, <1>10, AppendProperties
<1>12. Len(delivered') * r = R + r /\ ((Len(delivered) + 1) - 1) * r = R
  BY <1>4, <1>5, <1>6, <1>11, NextMultiple
<1>13. read_buf' = Stream(R + r, m - r) /\ read_buf' \in Seq(Nat) /\ Len(read_buf') = m - r
  BY <1>8, <1>9, <1>a, StreamSeq
<1>14. ASSUME NEW i \in 1 .. Len(delivered')
       PROVE  delivered'[i] = Stream((i - 1) * r, r)
  <2>1. CASE i \in 1 .. Len(delivered)
    <3>1. delivered[i] = Stream((i - 1) * r, r)
      BY <1>2, <2>1 DEF ReportsIntact, r
    <3> QED
      BY <1>11, <2>1, <3>1
  <2>2. CASE i = Len(delivered) + 1
    BY <1>9, <1>11, <1>12, <2>2
  <2> QED
    BY <1>4, <1>11, <2>1, <2>2
<1>15. ReportsIntact'
  <2>1. Len(read_buf') <= BUF_SIZE
    BY <1>4, <1>5, <1>13
  <2>2. read_buf' = Stream(Len(delivered') * r, taken' - Len(delivered') * r)
    BY <1>1, <1>8, <1>12, <1>13
  <2> QED
    BY <1>14, <2>1, <2>2 DEF ReportsIntact, r
<1>16. OrdersIntact'
  BY <1>1, <1>2 DEF OrdersIntact
<1>17. GatewayTypes'
  BY <1>1, <1>2, <1>11, <1>13 DEF GatewayTypes
<1>18. SocketRight'
  <2>1. Returned' <= taken'
    <3>1. Returned' = R + r
      BY <1>12 DEF Returned, r
    <3>2. R + r <= taken
      BY <1>4, <1>5, <1>8
    <3> QED
      BY <1>1, <3>1, <3>2
  <2> QED
    BY <1>1, <1>3, <2>1 DEF SocketRight
<1>19. LeftRight'
  BY <1>1, <1>2 DEF LeftRight
<1> QED
  BY <1>15, <1>16, <1>17, <1>18, <1>19 DEF GatewayInv

\* Every step keeps the invariant.
LEMMA InvNext ==
    ASSUME GatewayInv, [Next]_gvars
    PROVE  GatewayInv'
<1>1. SocketRight /\ written \in Nat
  BY DEF GatewayInv, GatewayTypes
<1>2. CASE Connect
  BY <1>2, InvConnect
<1>3. CASE SubmitOrder
  BY <1>3, InvSubmit
<1>4. CASE SendFails
  BY <1>4, InvClose DEF SendFails
<1>5. CASE RecvFails
  BY <1>5, InvClose DEF RecvFails
<1>6. CASE RecvEnds
  BY <1>6, InvClose DEF RecvEnds
<1>7. ASSUME NEW n \in 1 .. ORDER_SIZE, Send(n) PROVE GatewayInv'
  BY <1>7, InvSend
<1>8. ASSUME NEW n \in 1 .. BUF_SIZE, Recv(n) PROVE GatewayInv'
  BY <1>8, InvRecv
<1>9. CASE ParseReport
  BY <1>9, InvParse
<1>10. CASE ConnectFails
  BY <1>1, <1>10, InvQuiet DEF ConnectFails, StreamsKept
<1>11. CASE PollExecution
  BY <1>1, <1>11, InvQuiet DEF PollExecution, StreamsKept
<1>12. CASE RecvStops
  BY <1>1, <1>12, InvQuiet DEF RecvStops, StreamsKept, SocketRight
<1>13. CASE ParseShort
  BY <1>1, <1>13, InvQuiet DEF ParseShort, StreamsKept
<1>14. CASE PeerCloses
  BY <1>1, <1>14, InvQuiet DEF PeerCloses, StreamsKept, SocketRight
<1>15. ASSUME NEW n \in 1 .. MaxReports * REPORT_SIZE, Arrive(n) PROVE GatewayInv'
  <2>1. n \in Nat
    <3>1. \A k \in Int : k \in 1 .. MaxReports * REPORT_SIZE => k \in Nat
      OBVIOUS
    <3> QED
      BY <1>15, <3>1
  <2>2. written' \in Nat
    BY <1>1, <1>15, <2>1 DEF Arrive
  <2> QED
    BY <1>1, <1>15, <2>2, InvQuiet DEF Arrive, StreamsKept, SocketRight
<1>16. CASE UNCHANGED gvars
  BY <1>1, <1>16, InvQuiet DEF gvars, StreamsKept, SocketRight
<1> QED
  BY <1>2, <1>3, <1>4, <1>5, <1>6, <1>7, <1>8, <1>9, <1>10, <1>11, <1>12, <1>13, <1>14, <1>15,
     <1>16 DEF Next, Gateway

\* Nothing was sent or read at the start.
LEMMA InvInit == Init => GatewayInv
<1> SUFFICES ASSUME Init PROVE GatewayInv
  OBVIOUS
<1>1. /\ pc = "start" /\ sockfd = "none" /\ read_buf = << >> /\ submitted = 0 /\ left = 0
      /\ out = << >> /\ written = 0 /\ taken = 0 /\ delivered = << >>
  BY DEF Init
<1>2. GatewayTypes
  BY <1>1, SizesNat DEF GatewayTypes
<1>3. SocketRight /\ LeftRight
  BY <1>1 DEF SocketRight, LeftRight
<1>4. ReportsIntact
  BY <1>1, SizesNat DEF ReportsIntact
<1>5. OrdersIntact
  <2>1. submitted * ORDER_SIZE - left = 0
    BY <1>1, SizesNat
  <2>2. Bytes(0) = << >>
    BY DEF Bytes
  <2>3. out = Bytes(submitted * ORDER_SIZE - left)
    BY <1>1, <2>1, <2>2
  <2> QED
    BY <2>3 DEF OrdersIntact, Bytes
<1> QED
  BY <1>2, <1>3, <1>4, <1>5 DEF GatewayInv

-----------------------------------------------------------------------------
\* poll_execution returns the exchange's reports whole, in order and without a gap,
\* however TCP cuts the stream into segments, wherever the buffer fills up, and for
\* every report size and every buffer that holds a report.
THEOREM ReportsStayIntact == Spec => []ReportsIntact
<1>1. GatewayInv /\ [Next]_gvars => GatewayInv'
  BY InvNext
<1>2. GatewayInv => ReportsIntact
  BY DEF GatewayInv
<1> QED
  BY InvInit, <1>1, <1>2, PTL DEF Spec

\* submit_order gives the kernel whole orders, one behind the other, whatever number
\* of bytes each send takes, but for the last one when a send failed.
THEOREM OrdersStayIntact == Spec => []OrdersIntact
<1>1. GatewayInv /\ [Next]_gvars => GatewayInv'
  BY InvNext
<1>2. GatewayInv => OrdersIntact
  BY DEF GatewayInv
<1> QED
  BY InvInit, <1>1, <1>2, PTL DEF Spec

-----------------------------------------------------------------------------
(* The market data receiver *)

Datagram == [n : Nat \ {0}, type : Type, fits : BOOLEAN]

\* Every variable has its type; the numbers of the feed are those sent so far.
FeedTypes ==
    /\ unordered \in BOOLEAN
    /\ base \in 0 .. Modulus - 1
    /\ sent \in Nat /\ sent <= MaxSent
    /\ net \in Seq(Datagram)
    /\ packets \in Nat /\ drops \in Nat /\ quotes \in Nat /\ references \in Nat
    /\ last_seq \in 0 .. Modulus - 1
    /\ latest \in Nat /\ msg \in Nat
    /\ accepted \in Seq(Nat \ {0})

\* The datagrams in flight are in the order in which they were sent.
InOrder(s) == \A i, j \in 1 .. Len(s) : i < j => s[i].n < s[j].n
UpTo(s, top) == \A i \in 1 .. Len(s) : s[i].n <= top
Beyond(s, low) == \A i \in 1 .. Len(s) : s[i].n > low

\* What a network that only loses datagrams preserves.
NetRight ==
    ~ unordered => /\ InOrder(net)
                   /\ UpTo(net, sent)
                   /\ accepted # << >> => Last(accepted) <= sent /\ Beyond(net, Last(accepted))

\* What the counters know of the last datagram.
SeqRight == accepted # << >> => last_seq = Seqnum(Last(accepted))

\* What poll holds in hand, and what it has handed over, are datagrams accepted.
HandedRight ==
    ~ unordered => /\ latest # 0 => accepted # << >> /\ latest = Last(accepted)
                   /\ msg # 0 => accepted # << >> /\ msg <= Last(accepted)

CountsRight == /\ packets = quotes + references /\ packets = Len(accepted)
               /\ packets = 0 => drops = 0

FeedInv == FeedTypes /\ NetRight /\ SeqRight /\ HandedRight /\ CountsRight /\ DropsRight
-----------------------------------------------------------------------------
(* Remainders *)

\* The remainder by m, and the multiple of m that it leaves out.
LEMMA Remainder ==
    ASSUME NEW a \in Int, NEW m \in Int, m > 0
    PROVE  /\ (a % m) \in Int /\ 0 <= (a % m) /\ (a % m) < m
           /\ \E q \in Int : a = q * m + (a % m)
<1>1. (a % m) \in Int /\ (a \div m) \in Int
  OBVIOUS
<1>2. (a % m) >= 0 /\ (a % m) < m
  OBVIOUS
<1>3. a = m * (a \div m) + (a % m)
  OBVIOUS
<1>4. m * (a \div m) = (a \div m) * m
  BY <1>1
<1>5. a = (a \div m) * m + (a % m)
  BY <1>3, <1>4
<1> QED
  BY <1>1, <1>2, <1>5

\* A product is distributed over a difference.
LEMMA Distribute ==
    ASSUME NEW m \in Int, NEW p \in Int, NEW q \in Int
    PROVE  (q - p) * m = q * m - p * m /\ (q + p) * m = q * m + p * m
OBVIOUS

\* Two numbers within m of each other that differ by a multiple of m are equal.
LEMMA SameResidue ==
    ASSUME NEW m \in Int, m > 0, NEW r \in Int, NEW s \in Int, NEW k \in Int,
           r - s = k * m, r - s < m, s - r < m
    PROVE  r = s
<1>1. \A n \in Int : n >= 1 => n * m >= m
  OBVIOUS
<1>2. \A n \in Int : n <= -1 => n * m <= -m
  OBVIOUS
<1>3. CASE k >= 1
  BY <1>3, <1>1
<1>4. CASE k <= -1
  BY <1>4, <1>2
<1>5. CASE k = 0
  BY <1>5
<1> QED
  BY <1>3, <1>4, <1>5

\* A number below m that differs from a by a multiple of m is the remainder of a.
LEMMA RemainderIs ==
    ASSUME NEW a \in Int, NEW m \in Int, m > 0, NEW r \in Int, 0 <= r, r < m,
           NEW q \in Int, a = q * m + r
    PROVE  (a % m) = r
<1>1. (a % m) \in Int /\ 0 <= (a % m) /\ (a % m) < m
  BY Remainder
<1>2. PICK p \in Int : a = p * m + (a % m)
  BY Remainder
<1>3. q * m - p * m = (a % m) - r
  BY <1>1, <1>2
<1>4. (q - p) * m = (a % m) - r
  BY <1>3, Distribute
<1>5. q - p \in Int
  OBVIOUS
<1> QED
  BY <1>1, <1>4, <1>5, SameResidue

-----------------------------------------------------------------------------
(* Gaps *)

\* The residue that a datagram carries.
LEMMA SeqnumIs ==
    ASSUME base \in 0 .. Modulus - 1, NEW n \in Nat
    PROVE  /\ Seqnum(n) \in 0 .. Modulus - 1
           /\ \E q \in Int : base + n = q * Modulus + Seqnum(n)
<1>1. Modulus \in Int /\ Modulus > 0 /\ base + n \in Int
  BY FeedAssumption
<1>2. /\ ((base + n) % Modulus) \in Int /\ 0 <= ((base + n) % Modulus)
      /\ ((base + n) % Modulus) < Modulus
      /\ \E q \in Int : base + n = q * Modulus + ((base + n) % Modulus)
  BY <1>1, Remainder
<1> QED
  BY <1>1, <1>2 DEF Seqnum

\* What drops_ grows by is the distance to the expected number, modulo the width.
LEMMA GapResidue ==
    ASSUME FeedTypes, packets > 0, NEW seq \in 0 .. Modulus - 1
    PROVE  /\ Gap(seq) \in Nat /\ Gap(seq) < Modulus
           /\ \E k \in Int : Gap(seq) = (seq - last_seq - 1) + k * Modulus
<1> DEFINE M == Modulus
           dist == seq - last_seq - 1
<1>1. M \in Int /\ M > 0 /\ seq \in Int /\ last_seq \in Int /\ dist \in Int
  BY FeedAssumption DEF FeedTypes
<1>2. CASE seq = (last_seq + 1) % M
  <2> DEFINE c == last_seq + 1
  <2>a. c \in Int
    BY <1>1
  <2>b. \E q \in Int : c = q * M + (c % M)
    <3> HIDE DEF c, M
    <3> QED
      BY <2>a, <1>1, Remainder
  <2>1. PICK q \in Int : last_seq + 1 = q * M + ((last_seq + 1) % M)
    BY <2>b
  <2>2. Gap(seq) = 0
    BY <1>2 DEF Gap
  <2>3. q * M \in Int /\ last_seq + 1 = q * M + seq
    BY <2>1, <1>2, <1>1
  <2>4. 0 = dist + q * M
    BY <2>3, <1>1
  <2> QED
    BY <2>2, <2>4, <1>1
<1>3. CASE seq # (last_seq + 1) % M
  <2> DEFINE a == seq + 2 * M - last_seq - 1
  <2>1. a \in Int /\ a = dist + 2 * M
    BY <1>1
  <2>2. Gap(seq) = a % M
    BY <1>3 DEF Gap
  <2>3. (a % M) \in Int /\ 0 <= (a % M) /\ (a % M) < M
    BY <1>1, <2>1, Remainder
  <2>4. PICK q \in Int : a = q * M + (a % M)
    BY <1>1, <2>1, Remainder
  <2>5. (2 - q) * M = 2 * M - q * M
    BY <1>1, Distribute
  <2>6. (a % M) = dist + (2 - q) * M
    BY <2>1, <2>3, <2>4, <2>5, <1>1
  <2>7. 2 - q \in Int
    OBVIOUS
  <2> QED
    BY <2>2, <2>3, <2>6, <2>7
<1> QED
  BY <1>2, <1>3

\* On a feed that only loses datagrams the gap is the number of those missing, also
\* when the sequence number has wrapped around between them.
LEMMA GapCounts ==
    ASSUME FeedTypes, packets > 0, NEW l \in Nat, NEW n \in Nat,
           l < n, n - l <= Modulus, last_seq = Seqnum(l)
    PROVE  Gap(Seqnum(n)) = n - l - 1
<1> DEFINE M == Modulus
           g == Gap(Seqnum(n))
<1>1. M \in Int /\ M > 0 /\ base \in Int
  BY FeedAssumption DEF FeedTypes
<1>2. Seqnum(n) \in 0 .. Modulus - 1 /\ Seqnum(l) \in 0 .. Modulus - 1
  BY SeqnumIs DEF FeedTypes
<1>3. PICK qn \in Int : base + n = qn * M + Seqnum(n)
  BY SeqnumIs DEF FeedTypes
<1>4. PICK ql \in Int : base + l = ql * M + Seqnum(l)
  BY SeqnumIs DEF FeedTypes
<1>5. g \in Nat /\ g < M
  BY <1>2, GapResidue
<1>6. PICK k \in Int : g = (Seqnum(n) - last_seq - 1) + k * M
  BY <1>2, GapResidue
<1> HIDE DEF g
<1>7. g - (n - l - 1) = (k * M + ql * M) - qn * M
  <2> DEFINE kM == k * M
             lM == ql * M
             nM == qn * M
             sn == Seqnum(n)
             sl == Seqnum(l)
  <2>1. kM \in Int /\ lM \in Int /\ nM \in Int /\ sn \in Int /\ sl \in Int
    BY <1>1, <1>2
  <2>2. base + n = nM + sn /\ base + l = lM + sl /\ g = (sn - sl - 1) + kM
    BY <1>3, <1>4, <1>6
  <2> HIDE DEF kM, lM, nM, sn, sl
  <2>3. g - (n - l - 1) = (kM + lM) - nM
    BY <2>1, <2>2, <1>1, <1>5
  <2> QED
    BY <2>3 DEF kM, lM, nM
<1>8. ((k + ql) - qn) * M = (k * M + ql * M) - qn * M
  <2>1. (k + ql) * M = k * M + ql * M
    BY <1>1, Distribute
  <2>2. ((k + ql) - qn) * M = (k + ql) * M - qn * M
    BY <1>1, Distribute
  <2> QED
    BY <2>1, <2>2
<1>9. (k + ql) - qn \in Int /\ n - l - 1 \in Int /\ g \in Int
  BY <1>5
<1>10. g - (n - l - 1) = ((k + ql) - qn) * M
  BY <1>7, <1>8
<1>11. g - (n - l - 1) < M /\ (n - l - 1) - g < M
  BY <1>1, <1>5
<1>12. g = n - l - 1
  BY <1>1, <1>9, <1>10, <1>11, SameResidue
<1> QED
  BY <1>12 DEF g

\* The counters telescope: with what a datagram adds, drops_ leads to its number.
LEMMA GapTelescopes ==
    ASSUME FeedTypes, packets > 0, NEW seq \in 0 .. Modulus - 1, NEW first \in 0 .. Modulus - 1,
           (drops + packets - 1 + first) % Modulus = last_seq
    PROVE  ((drops + Gap(seq)) + (packets + 1) - 1 + first) % Modulus = seq
<1> DEFINE M == Modulus
           g == Gap(seq)
           a == drops + packets - 1 + first
           b == (drops + g) + (packets + 1) - 1 + first
<1>1. /\ M \in Int /\ M > 0 /\ seq \in Int /\ 0 <= seq /\ seq < M
      /\ last_seq \in Int /\ first \in Int /\ drops \in Int /\ packets \in Int
  BY FeedAssumption DEF FeedTypes
<1>2. g \in Int
  BY GapResidue
<1>3. PICK k \in Int : g = (seq - last_seq - 1) + k * M
  BY GapResidue
<1> HIDE DEF g
<1>4. a \in Int /\ b \in Int /\ b = (a + g) + 1
  BY <1>1, <1>2
<1>5. PICK q \in Int : a = q * M + (a % M)
  BY <1>1, <1>4, Remainder
<1>6. a % M = last_seq
  OBVIOUS
<1>7. (q + k) * M = q * M + k * M
  BY <1>1, Distribute
<1>8. b = (q + k) * M + seq
  <2> DEFINE kM == k * M
             qM == q * M
  <2>1. kM \in Int /\ qM \in Int
    BY <1>1
  <2>2. g = (seq - last_seq - 1) + kM /\ a = qM + last_seq /\ (q + k) * M = qM + kM
    BY <1>3, <1>5, <1>6, <1>7
  <2> HIDE DEF kM, qM, a, b
  <2> QED
    BY <2>1, <2>2, <1>1, <1>2, <1>4
<1>9. b % M = seq
  <2> DEFINE z == q + k
  <2>1. z \in Int /\ b = z * M + seq
    BY <1>8
  <2> HIDE DEF b, M, z
  <2> QED
    BY <1>1, <1>4, <2>1, RemainderIs
<1> QED
  BY <1>9 DEF g

-----------------------------------------------------------------------------
(* The datagrams in flight *)

\* RemoveAt moves the later elements forward.
LEMMA RemoveAtIs ==
    ASSUME NEW S, NEW s \in Seq(S), NEW i \in 1 .. Len(s)
    PROVE  /\ RemoveAt(s, i) \in Seq(S)
           /\ Len(RemoveAt(s, i)) = Len(s) - 1
           /\ \A j \in 1 .. Len(s) - 1 : RemoveAt(s, i)[j] = s[IF j < i THEN j ELSE j + 1]
<1> DEFINE f == SubSeq(s, 1, i - 1)
           g == SubSeq(s, i + 1, Len(s))
<1>1. Len(s) \in Nat /\ i \in Nat /\ DOMAIN s = 1 .. Len(s)
  BY LenProperties
<1>2. f \in Seq(S) /\ Len(f) = i - 1 /\ \A j \in 1 .. i - 1 : f[j] = s[j]
  BY <1>1, SubSeqProperties
<1>3. g \in Seq(S) /\ Len(g) = Len(s) - i /\ \A j \in 1 .. Len(s) - i : g[j] = s[i + j]
  <2> DEFINE m == i + 1
             n == Len(s)
  <2>1. m \in Int /\ n \in Int /\ \A k \in m .. n : s[k] \in S
    BY <1>1, ElementOfSeq
  <2>2. /\ g \in Seq(S) /\ Len(g) = IF m <= n THEN n - m + 1 ELSE 0
        /\ \A j \in 1 .. n - m + 1 : g[j] = s[m + j - 1]
    <3> HIDE DEF m, n
    <3>1. g = SubSeq(s, m, n)
      BY DEF m, n
    <3> QED
      BY <2>1, <3>1, SubSeqProperties
  <2>3. Len(g) = Len(s) - i /\ n - m + 1 = Len(s) - i
    <3>1. n - m + 1 = Len(s) - i
      BY <1>1
    <3>2. CASE m <= n
      BY <2>2, <3>1, <3>2
    <3>3. CASE ~ (m <= n)
      <4>a. Len(g) = 0
        BY <3>3, <2>2
      <4>b. Len(s) = i
        <5>1. i <= Len(s) /\ Len(s) < i + 1 /\ i \in Int /\ Len(s) \in Int
          BY <3>3, <1>1
        <5> QED
          BY <5>1
      <4>1. Len(s) - i = 0 /\ Len(g) = 0
        BY <4>a, <4>b, <1>1
      <4> QED
        BY <4>1, <3>1
    <3> QED
      BY <3>2, <3>3
  <2>4. ASSUME NEW j \in 1 .. Len(s) - i PROVE g[j] = s[i + j]
    <3>1. m + j - 1 = i + j /\ j \in 1 .. n - m + 1
      BY <1>1
    <3> QED
      BY <3>1, <2>2
  <2> QED
    BY <2>2, <2>3, <2>4
<1>4. RemoveAt(s, i) = f \o g
  BY DEF RemoveAt
<1> HIDE DEF f, g
<1>5. /\ f \o g \in Seq(S) /\ Len(f \o g) = Len(f) + Len(g)
      /\ \A j \in 1 .. Len(f) + Len(g) : (f \o g)[j] = IF j <= Len(f) THEN f[j] ELSE g[j - Len(f)]
  BY <1>2, <1>3, ConcatProperties
<1>6. Len(f) + Len(g) = Len(s) - 1
  BY <1>1, <1>2, <1>3
<1>7. ASSUME NEW j \in 1 .. Len(s) - 1
      PROVE  (f \o g)[j] = s[IF j < i THEN j ELSE j + 1]
  <2>1. (f \o g)[j] = IF j <= i - 1 THEN f[j] ELSE g[j - (i - 1)]
    BY <1>2, <1>5, <1>6
  <2>2. CASE j < i
    BY <2>1, <2>2, <1>1, <1>2
  <2>3. CASE ~ (j < i)
    <3>1. j - (i - 1) \in 1 .. Len(s) - i /\ i + (j - (i - 1)) = j + 1
      BY <2>3, <1>1
    <3>2. g[j - (i - 1)] = s[j + 1]
      BY <3>1, <1>3
    <3> QED
      BY <2>1, <2>3, <3>2, <1>1
  <2> QED
    BY <2>2, <2>3
<1> QED
  BY <1>4, <1>5, <1>6, <1>7

\* Losing one datagram keeps the others in order and within their bounds.
LEMMA RemoveKeepsOrder ==
    ASSUME NEW s \in Seq(Datagram), NEW i \in 1 .. Len(s)
    PROVE  /\ InOrder(s) => InOrder(RemoveAt(s, i))
           /\ \A top : UpTo(s, top) => UpTo(RemoveAt(s, i), top)
           /\ \A low : Beyond(s, low) => Beyond(RemoveAt(s, i), low)
<1> DEFINE r == RemoveAt(s, i)
           at(j) == IF j < i THEN j ELSE j + 1
<1>1. Len(s) \in Nat /\ i \in Nat
  BY LenProperties
<1>2. r \in Seq(Datagram) /\ Len(r) = Len(s) - 1 /\ \A j \in 1 .. Len(s) - 1 : r[j] = s[at(j)]
  BY RemoveAtIs
<1> HIDE DEF r
<1>3. \A j \in 1 .. Len(s) - 1 : at(j) \in 1 .. Len(s)
  BY <1>1
<1>4. \A j, k \in 1 .. Len(s) - 1 : j < k => at(j) < at(k)
  BY <1>1
<1> HIDE DEF at
<1>5. InOrder(s) => InOrder(r)
  BY <1>2, <1>3, <1>4 DEF InOrder
<1>6. \A top : UpTo(s, top) => UpTo(r, top)
  BY <1>2, <1>3 DEF UpTo
<1>7. \A low : Beyond(s, low) => Beyond(r, low)
  BY <1>2, <1>3 DEF Beyond
<1> QED
  BY <1>5, <1>6, <1>7 DEF r

\* Behind the first datagram of a feed in order come only later ones.
LEMMA RestIsBeyond ==
    ASSUME NEW s \in Seq(Datagram), Len(s) >= 1, InOrder(s)
    PROVE  Beyond(RemoveAt(s, 1), s[1].n)
<1>1. Len(s) \in Nat /\ 1 \in 1 .. Len(s)
  BY LenProperties
<1>2. /\ Len(RemoveAt(s, 1)) = Len(s) - 1
      /\ \A j \in 1 .. Len(s) - 1 : RemoveAt(s, 1)[j] = s[IF j < 1 THEN j ELSE j + 1]
  BY <1>1, RemoveAtIs
<1>3. \A j \in 1 .. Len(s) : s[j].n \in Nat
  <2>1. \A j \in 1 .. Len(s) : s[j] \in Datagram
    BY <1>1, ElementOfSeq
  <2> QED
    BY <2>1 DEF Datagram
<1>4. ASSUME NEW j \in 1 .. Len(s) - 1 PROVE RemoveAt(s, 1)[j].n > s[1].n
  <2>1. RemoveAt(s, 1)[j] = s[j + 1] /\ j + 1 \in 1 .. Len(s) /\ 1 < j + 1
    BY <1>1, <1>2
  <2>2. s[1].n < s[j + 1].n
    BY <2>1, <1>1 DEF InOrder
  <2> QED
    BY <2>1, <2>2, <1>1, <1>3
<1> QED
  BY <1>2, <1>4 DEF Beyond

\* A datagram just sent is the last in order.
LEMMA AppendKeepsOrder ==
    ASSUME NEW s \in Seq(Datagram), NEW d \in Datagram, NEW top \in Nat, NEW low \in Nat,
           UpTo(s, top), d.n = top + 1, low <= top
    PROVE  /\ InOrder(s) => InOrder(Append(s, d))
           /\ UpTo(Append(s, d), top + 1)
           /\ Beyond(s, low) => Beyond(Append(s, d), low)
<1> DEFINE r == Append(s, d)
<1>1. Len(s) \in Nat /\ \A j \in 1 .. Len(s) : s[j].n \in Nat
  <2>1. Len(s) \in Nat /\ \A j \in 1 .. Len(s) : s[j] \in Datagram
    BY LenProperties, ElementOfSeq
  <2> QED
    BY <2>1 DEF Datagram
<1>2. Len(r) = Len(s) + 1 /\ r[Len(s) + 1] = d /\ \A j \in 1 .. Len(s) : r[j] = s[j]
  BY AppendProperties
<1> HIDE DEF r
<1>3. UpTo(r, top + 1)
  BY <1>1, <1>2 DEF UpTo
<1>4. Beyond(s, low) => Beyond(r, low)
  BY <1>1, <1>2 DEF Beyond
<1>5. ASSUME InOrder(s), NEW i \in 1 .. Len(r), NEW j \in 1 .. Len(r), i < j
      PROVE  r[i].n < r[j].n
  <2>1. CASE j \in 1 .. Len(s)
    BY <1>5, <2>1, <1>1, <1>2 DEF InOrder
  <2>2. CASE j = Len(s) + 1
    <3>1. i \in 1 .. Len(s) /\ r[i] = s[i] /\ r[j] = d
      BY <1>5, <2>2, <1>1, <1>2
    <3>2. s[i].n <= top /\ s[i].n \in Nat
      BY <3>1, <1>1 DEF UpTo
    <3> QED
      BY <3>1, <3>2
  <2> QED
    BY <2>1, <2>2, <1>1, <1>2
<1> QED
  BY <1>3, <1>4, <1>5 DEF r, InOrder

-----------------------------------------------------------------------------
(* The invariant *)

\* The datagrams in flight are datagrams.
LEMMA NetElement ==
    ASSUME FeedTypes, NEW i \in DOMAIN net
    PROVE  /\ i \in 1 .. Len(net) /\ Len(net) \in Nat
           /\ net[i] \in Datagram /\ net[i].n \in Nat /\ net[i].n > 0
<1>1. net \in Seq(Datagram)
  BY DEF FeedTypes
<1>2. Len(net) \in Nat /\ i \in 1 .. Len(net)
  BY <1>1, LenProperties
<1>3. net[i] \in Datagram
  BY <1>1, <1>2, ElementOfSeq
<1> QED
  BY <1>2, <1>3 DEF Datagram

\* The last datagram counted, and the list of them with one more.
LEMMA AcceptedGrows ==
    ASSUME accepted \in Seq(Nat \ {0}), NEW n \in Nat \ {0}
    PROVE  LET r == Append(accepted, n)
           IN  /\ r \in Seq(Nat \ {0}) /\ r # << >> /\ Len(r) = Len(accepted) + 1
               /\ Last(r) = n /\ r[1] = IF accepted = << >> THEN n ELSE accepted[1]
               /\ Len(accepted) \in Nat
               /\ accepted = << >> <=> Len(accepted) = 0
               /\ accepted # << >> => accepted[1] \in Nat /\ Last(accepted) \in Nat
<1> DEFINE r == Append(accepted, n)
<1>1. Len(accepted) \in Nat /\ (accepted = << >> <=> Len(accepted) = 0)
  BY LenProperties, EmptySeq
<1>2. /\ r \in Seq(Nat \ {0}) /\ r # << >> /\ Len(r) = Len(accepted) + 1
      /\ \A i \in 1 .. Len(accepted) : r[i] = accepted[i]
      /\ r[Len(accepted) + 1] = n
  <2> DEFINE N == Nat \ {0}
  <2>1. accepted \in Seq(N) /\ n \in N
    OBVIOUS
  <2> HIDE DEF N
  <2>2. /\ r \in Seq(N) /\ r # << >> /\ Len(r) = Len(accepted) + 1
        /\ \A i \in 1 .. Len(accepted) : r[i] = accepted[i]
        /\ r[Len(accepted) + 1] = n
    BY <2>1, AppendProperties
  <2> QED
    BY <2>2 DEF N
<1> HIDE DEF r
<1>3. Last(r) = n
  BY <1>2 DEF Last
<1>4. accepted # << >> => 1 \in 1 .. Len(accepted) /\ Len(accepted) \in 1 .. Len(accepted)
  BY <1>1
<1>5. accepted # << >> => accepted[1] \in Nat /\ Last(accepted) \in Nat
  <2>1. accepted # << >> => accepted[1] \in Nat \ {0} /\ accepted[Len(accepted)] \in Nat \ {0}
    BY <1>4, ElementOfSeq
  <2> QED
    BY <2>1 DEF Last
<1>6. r[1] = IF accepted = << >> THEN n ELSE accepted[1]
  BY <1>1, <1>2, <1>4
<1> QED
  BY <1>1, <1>2, <1>3, <1>5, <1>6 DEF r

\* The receiver starts with nothing counted.
LEMMA FeedInvInit == FeedInit => FeedInv
<1>1. SUFFICES ASSUME FeedInit PROVE FeedInv
  OBVIOUS
<1>2. net = << >> /\ accepted = << >> /\ Len(net) = 0 /\ Len(accepted) = 0
  BY <1>1 DEF FeedInit
<1>3. net \in Seq(Datagram) /\ accepted \in Seq(Nat \ {0})
  BY <1>2, EmptySeq
<1>4. FeedTypes
  BY <1>1, <1>3, FeedAssumption DEF FeedTypes, FeedInit
<1>5. 1 .. Len(net) = {}
  BY <1>2
<1>6. NetRight
  BY <1>2, <1>5 DEF NetRight, InOrder, UpTo
<1> QED
  BY <1>1, <1>2, <1>4, <1>6 DEF FeedInv, SeqRight, HandedRight, CountsRight, DropsRight, FeedInit

\* The feed sends its next datagram.
LEMMA FeedPublish ==
    ASSUME FeedInv, NEW type \in Type, NEW fits \in BOOLEAN, Publish(type, fits)
    PROVE  FeedInv'
<1> DEFINE d == [n |-> sent + 1, type |-> type, fits |-> fits]
<1>1. FeedTypes /\ NetRight /\ SeqRight /\ HandedRight /\ CountsRight /\ DropsRight
  BY DEF FeedInv
<1>2. /\ sent' = sent + 1 /\ net' = Append(net, d) /\ sent < MaxSent
      /\ UNCHANGED <<unordered, base, packets, drops, quotes, references, last_seq, accepted, latest, msg>>
  BY DEF Publish, tallies
<1>3. sent \in Nat /\ sent' \in Nat /\ sent' <= MaxSent /\ net \in Seq(Datagram)
  BY <1>1, <1>2, FeedAssumption DEF FeedTypes
<1>4. d \in Datagram /\ d.n = sent + 1
  BY <1>3 DEF Datagram
<1> HIDE DEF d
<1>5. net' \in Seq(Datagram)
  BY <1>2, <1>3, <1>4, AppendProperties
<1>6. FeedTypes'
  BY <1>1, <1>2, <1>3, <1>5 DEF FeedTypes
<1>7. NetRight'
  <2>1. SUFFICES ASSUME ~ unordered
                 PROVE  /\ InOrder(net') /\ UpTo(net', sent')
                        /\ accepted # << >> => Last(accepted) <= sent' /\ Beyond(net', Last(accepted))
    BY <1>2 DEF NetRight
  <2>2. InOrder(net) /\ UpTo(net, sent)
        /\ (accepted # << >> => Last(accepted) <= sent /\ Beyond(net, Last(accepted)))
    BY <2>1, <1>1 DEF NetRight
  <2>3. InOrder(net') /\ UpTo(net', sent')
    <3>1. 0 \in Nat /\ 0 <= sent
      BY <1>3
    <3> QED
      BY <2>2, <3>1, <1>2, <1>3, <1>4, AppendKeepsOrder
  <2>4. ASSUME accepted # << >> PROVE Last(accepted) <= sent' /\ Beyond(net', Last(accepted))
    <3>1. Last(accepted) \in Nat
      BY <2>4, <1>1, AcceptedGrows, 1 \in Nat \ {0} DEF FeedTypes
    <3>2. Last(accepted) <= sent /\ Beyond(net, Last(accepted))
      BY <2>2, <2>4
    <3>3. Beyond(net', Last(accepted))
      BY <2>2, <3>1, <3>2, <1>2, <1>3, <1>4, AppendKeepsOrder
    <3> QED
      BY <3>1, <3>2, <3>3, <1>2, <1>3
  <2> QED
    BY <2>3, <2>4
<1>8. SeqRight' /\ HandedRight' /\ CountsRight' /\ DropsRight'
  BY <1>1, <1>2 DEF SeqRight, HandedRight, CountsRight, DropsRight, Seqnum
<1> QED
  BY <1>6, <1>7, <1>8 DEF FeedInv

\* A step that only takes datagrams from the network.
LEMMA FeedLoses ==
    ASSUME FeedInv, net' \in Seq(Datagram),
           ~ unordered => /\ InOrder(net') /\ UpTo(net', sent)
                          /\ accepted # << >> => Beyond(net', Last(accepted)),
           UNCHANGED <<unordered, base, sent, packets, drops, quotes, references, last_seq,
                       accepted, latest, msg>>
    PROVE  FeedInv'
<1>1. FeedTypes /\ NetRight /\ SeqRight /\ HandedRight /\ CountsRight /\ DropsRight
  BY DEF FeedInv
<1>2. FeedTypes'
  BY <1>1 DEF FeedTypes
<1>3. NetRight'
  BY <1>1 DEF NetRight
<1>4. SeqRight' /\ HandedRight' /\ CountsRight' /\ DropsRight'
  BY <1>1 DEF SeqRight, HandedRight, CountsRight, DropsRight, Seqnum
<1> QED
  BY <1>2, <1>3, <1>4 DEF FeedInv

\* The network loses a datagram.
LEMMA FeedLose ==
    ASSUME FeedInv, NEW i \in DOMAIN net, Lose(i)
    PROVE  FeedInv'
<1>1. FeedTypes /\ NetRight
  BY DEF FeedInv
<1>2. i \in 1 .. Len(net) /\ net \in Seq(Datagram)
  BY <1>1, NetElement DEF FeedTypes
<1>3. /\ net' = RemoveAt(net, i)
      /\ UNCHANGED <<unordered, base, sent, packets, drops, quotes, references, last_seq,
                     accepted, latest, msg>>
  BY DEF Lose, tallies
<1>4. net' \in Seq(Datagram)
  BY <1>2, <1>3, RemoveAtIs
<1>5. ~ unordered => /\ InOrder(net') /\ UpTo(net', sent)
                     /\ accepted # << >> => Beyond(net', Last(accepted))
  BY <1>1, <1>2, <1>3, RemoveKeepsOrder DEF NetRight
<1> QED
  BY <1>3, <1>4, <1>5, FeedLoses

\* The network repeats a datagram, which only one that reorders does.
LEMMA FeedDuplicate ==
    ASSUME FeedInv, NEW i \in DOMAIN net, Duplicate(i)
    PROVE  FeedInv'
<1>1. FeedTypes
  BY DEF FeedInv
<1>2. net[i] \in Datagram /\ net \in Seq(Datagram)
  BY <1>1, NetElement DEF FeedTypes
<1>3. /\ unordered /\ net' = Append(net, net[i])
      /\ UNCHANGED <<unordered, base, sent, packets, drops, quotes, references, last_seq,
                     accepted, latest, msg>>
  BY DEF Duplicate, tallies
<1>4. net' \in Seq(Datagram)
  BY <1>2, <1>3, AppendProperties
<1> QED
  BY <1>3, <1>4, FeedLoses

\* init joins the group: earlier datagrams are not seen.
LEMMA FeedOpen == ASSUME FeedInv, Open PROVE FeedInv'
<1>1. /\ net' = << >>
      /\ UNCHANGED <<unordered, base, sent, packets, drops, quotes, references, last_seq,
                     accepted, latest, msg>>
  BY DEF Open, tallies
<1>2. net' \in Seq(Datagram) /\ Len(net') = 0
  BY <1>1, EmptySeq
<1>3. 1 .. Len(net') = {}
  BY <1>2
<1>4. InOrder(net') /\ UpTo(net', sent) /\ Beyond(net', Last(accepted))
  BY <1>3 DEF InOrder, UpTo, Beyond
<1> QED
  BY <1>1, <1>2, <1>4, FeedLoses

\* poll takes a datagram from the socket and does not count it.
LEMMA FeedSkips ==
    ASSUME FeedInv, NEW i \in DOMAIN net, Receive(i), ~ Valid(net[i])
    PROVE  FeedInv'
<1>1. FeedTypes /\ NetRight
  BY DEF FeedInv
<1>2. i \in 1 .. Len(net) /\ net \in Seq(Datagram)
  BY <1>1, NetElement DEF FeedTypes
<1>3. /\ net' = RemoveAt(net, i)
      /\ UNCHANGED <<unordered, base, sent, packets, drops, quotes, references, last_seq,
                     accepted, latest, msg>>
  BY DEF Receive, tallies
<1>4. net' \in Seq(Datagram)
  BY <1>2, <1>3, RemoveAtIs
<1>5. ~ unordered => /\ InOrder(net') /\ UpTo(net', sent)
                     /\ accepted # << >> => Beyond(net', Last(accepted))
  BY <1>1, <1>2, <1>3, RemoveKeepsOrder DEF NetRight
<1> QED
  BY <1>3, <1>4, <1>5, FeedLoses

\* poll counts a datagram.
LEMMA FeedCounts ==
    ASSUME FeedInv, NEW i \in DOMAIN net, Receive(i), Valid(net[i])
    PROVE  FeedInv'
<1> DEFINE n == net[i].n
           l == Last(accepted)
           gap == Gap(Seqnum(n))
<1>1. FeedTypes /\ NetRight /\ SeqRight /\ HandedRight /\ CountsRight /\ DropsRight
  BY DEF FeedInv
<1>2. i \in 1 .. Len(net) /\ net \in Seq(Datagram) /\ n \in Nat \ {0} /\ net[i] \in Datagram
  BY <1>1, NetElement DEF FeedTypes
<1>3. /\ ~ unordered => i = 1
      /\ net' = RemoveAt(net, i)
      /\ drops' = drops + gap /\ last_seq' = Seqnum(n) /\ packets' = packets + 1
      /\ latest' = n /\ accepted' = Append(accepted, n)
      /\ UNCHANGED <<unordered, base, sent, msg>>
  BY DEF Receive, Newest
<1>4. /\ quotes' \in Nat /\ references' \in Nat /\ packets' = quotes' + references'
  <2>1. net[i].type = "Quote" \/ net[i].type = "Reference"
    BY <1>2 DEF Valid, Datagram, Type
  <2>2. /\ quotes' = IF net[i].type = "Quote" THEN quotes + 1 ELSE quotes
        /\ references' = IF net[i].type = "Reference" THEN references + 1 ELSE references
    BY DEF Receive
  <2>3. quotes \in Nat /\ references \in Nat /\ packets = quotes + references
    BY <1>1 DEF FeedTypes, CountsRight
  <2> QED
    BY <2>1, <2>2, <2>3, <1>3
<1> HIDE DEF n
<1>5. /\ accepted' \in Seq(Nat \ {0}) /\ accepted' # << >> /\ Len(accepted') = Len(accepted) + 1
      /\ Last(accepted') = n /\ accepted'[1] = IF accepted = << >> THEN n ELSE accepted[1]
      /\ Len(accepted) \in Nat /\ (accepted = << >> <=> Len(accepted) = 0)
      /\ accepted # << >> => accepted[1] \in Nat /\ l \in Nat
  BY <1>1, <1>2, <1>3, AcceptedGrows DEF FeedTypes
<1>6. /\ Modulus \in Int /\ Modulus > 0 /\ packets \in Nat /\ drops \in Nat /\ sent \in Nat
      /\ base \in 0 .. Modulus - 1 /\ packets = Len(accepted)
  BY <1>1, FeedAssumption DEF FeedTypes, CountsRight
<1> HIDE DEF l
<1>7. Seqnum(n) \in 0 .. Modulus - 1
  BY <1>2, <1>6, SeqnumIs
<1>8. gap \in Nat
  <2>1. CASE packets > 0
    BY <2>1, <1>1, <1>7, GapResidue
  <2>2. CASE packets = 0
    BY <2>2 DEF Gap
  <2> QED
    BY <2>1, <2>2, <1>6
<1>9. FeedTypes'
  <2>1. net' \in Seq(Datagram)
    BY <1>2, <1>3, RemoveAtIs
  <2>2. /\ packets' \in Nat /\ drops' \in Nat /\ latest' \in Nat /\ last_seq' \in 0 .. Modulus - 1
    BY <1>2, <1>3, <1>6, <1>7, <1>8
  <2> QED
    BY <1>1, <1>3, <1>4, <1>5, <2>1, <2>2 DEF FeedTypes
<1>10. ~ unordered => /\ n <= sent
                      /\ accepted # << >> => l < n
  BY <1>1, <1>2 DEF NetRight, UpTo, Beyond, n, l
<1>11. NetRight'
  <2>1. SUFFICES ASSUME ~ unordered
                 PROVE  InOrder(net') /\ UpTo(net', sent) /\ n <= sent /\ Beyond(net', n)
    BY <1>3, <1>5 DEF NetRight
  <2>2. InOrder(net) /\ UpTo(net, sent) /\ i = 1
    BY <2>1, <1>1, <1>3 DEF NetRight
  <2>3. InOrder(net') /\ UpTo(net', sent)
    BY <2>2, <1>2, <1>3, RemoveKeepsOrder
  <2>4. Beyond(net', n)
    <3>1. Len(net) >= 1
      BY <1>2, <2>2
    <3> QED
      BY <2>2, <3>1, <1>2, <1>3, RestIsBeyond DEF n
  <2> QED
    BY <2>1, <2>3, <2>4, <1>10
<1>12. SeqRight'
  BY <1>3, <1>5 DEF SeqRight, Seqnum
<1>13. HandedRight'
  <2>1. SUFFICES ASSUME ~ unordered, msg # 0 PROVE msg <= n
    BY <1>3, <1>5 DEF HandedRight
  <2>2. accepted # << >> /\ msg <= l /\ msg \in Nat
    BY <2>1, <1>1 DEF HandedRight, FeedTypes, l
  <2> QED
    BY <2>1, <2>2, <1>2, <1>5, <1>10
<1>14. CountsRight'
  <2>1. packets' = Len(accepted') /\ packets' # 0
    BY <1>3, <1>5, <1>6
  <2> QED
    BY <2>1, <1>4 DEF CountsRight
<1>15. DropsRight'
  <2> DEFINE first == accepted'[1]
  <2>1. CASE accepted = << >>
    <3>1. packets = 0 /\ drops = 0 /\ first = n /\ packets' = 1
      BY <2>1, <1>1, <1>3, <1>5, <1>6 DEF CountsRight
    <3>2. drops' = 0
      BY <3>1, <1>3 DEF Gap
    <3>3. drops' = (Last(accepted') - first) - (packets' - 1)
      BY <3>1, <3>2, <1>2, <1>5
    <3>4. (drops' + packets' - 1 + Seqnum(n)) % Modulus = Seqnum(n)
      <4>1. drops' + packets' - 1 + Seqnum(n) = Seqnum(n)
        BY <3>1, <3>2, <1>7
      <4>2. Seqnum(n) = 0 * Modulus + Seqnum(n)
        BY <1>6, <1>7
      <4>3. Seqnum(n) % Modulus = Seqnum(n)
        BY <4>2, <1>6, <1>7, RemainderIs
      <4> QED
        BY <4>1, <4>3
    <3> QED
      BY <3>1, <3>3, <3>4, <1>3, <1>5, <1>14 DEF DropsRight, CountsRight, Seqnum
  <2>2. CASE accepted # << >>
    <3>1. packets > 0 /\ first = accepted[1] /\ first \in Nat
      BY <2>2, <1>5, <1>6
    <3>2. Seqnum(accepted[1]) \in 0 .. Modulus - 1
      BY <3>1, <1>6, SeqnumIs
    <3>3. (drops' + packets' - 1 + Seqnum(accepted[1])) % Modulus = last_seq'
      <4>1. (drops + packets - 1 + Seqnum(accepted[1])) % Modulus = last_seq
        BY <2>2, <1>1 DEF DropsRight
      <4>2. ((drops + gap) + (packets + 1) - 1 + Seqnum(accepted[1])) % Modulus = Seqnum(n)
        BY <4>1, <3>1, <3>2, <1>1, <1>7, GapTelescopes
      <4> QED
        BY <4>2, <1>3
    <3>4. ASSUME ~ unordered PROVE drops' = (n - first) - (packets' - 1)
      <4>1. l \in Nat /\ l < n /\ n <= sent /\ last_seq = Seqnum(l)
        BY <2>2, <3>4, <1>1, <1>5, <1>10 DEF SeqRight, l
      <4>2. n \in Nat /\ n - l <= Modulus
        BY <4>1, <1>1, <1>2, <1>6, FeedAssumption DEF FeedTypes
      <4>3. gap = n - l - 1
        BY <4>1, <4>2, <3>1, <1>1, GapCounts
      <4>4. drops = (l - first) - (packets - 1)
        BY <2>2, <3>1, <3>4, <1>1 DEF DropsRight, l
      <4>5. drops' = drops + gap /\ packets' = packets + 1 /\ packets \in Nat /\ first \in Nat
        BY <3>1, <1>3, <1>6
      <4> HIDE DEF gap, first
      <4>6. drops' = ((l - first) - (packets - 1)) + (n - l - 1)
        BY <4>3, <4>4, <4>5
      <4> QED
        BY <4>1, <4>2, <4>5, <4>6
    <3> QED
      BY <3>1, <3>3, <3>4, <1>3, <1>5, <1>14 DEF DropsRight, CountsRight, Seqnum
  <2> QED
    BY <2>1, <2>2
<1> QED
  BY <1>9, <1>11, <1>12, <1>13, <1>14, <1>15 DEF FeedInv

\* A step that only moves the hand of poll.
LEMMA FeedHands ==
    ASSUME FeedInv, latest' \in {0, latest}, msg' \in {0, msg, latest},
           UNCHANGED <<feed, tallies>>
    PROVE  FeedInv'
<1>1. FeedTypes /\ NetRight /\ SeqRight /\ HandedRight /\ CountsRight /\ DropsRight
  BY DEF FeedInv
<1>2. UNCHANGED <<unordered, base, sent, net, packets, drops, quotes, references, last_seq, accepted>>
  BY DEF feed, tallies
<1>3. FeedTypes' /\ NetRight'
  BY <1>1, <1>2 DEF FeedTypes, NetRight
<1>4. SeqRight' /\ CountsRight' /\ DropsRight'
  BY <1>1, <1>2 DEF SeqRight, CountsRight, DropsRight, Seqnum
<1>5. HandedRight'
  <2>1. SUFFICES ASSUME ~ unordered
                 PROVE  /\ latest' # 0 => accepted # << >> /\ latest' = Last(accepted)
                        /\ msg' # 0 => accepted # << >> /\ msg' <= Last(accepted)
    BY <1>2 DEF HandedRight
  <2>2. /\ latest # 0 => accepted # << >> /\ latest = Last(accepted)
        /\ msg # 0 => accepted # << >> /\ msg <= Last(accepted)
        /\ latest \in Nat /\ msg \in Nat
    BY <2>1, <1>1 DEF HandedRight, FeedTypes
  <2> QED
    BY <2>2
<1> QED
  BY <1>3, <1>4, <1>5 DEF FeedInv

\* Every step of the network and of poll keeps the invariant.
LEMMA FeedInvNext == FeedInv /\ [FeedNext]_mvars => FeedInv'
<1>1. SUFFICES ASSUME FeedInv, [FeedNext]_mvars PROVE FeedInv'
  OBVIOUS
<1>2. ASSUME NEW type \in Type, NEW fits \in BOOLEAN, Publish(type, fits) PROVE FeedInv'
  BY <1>1, <1>2, FeedPublish
<1>3. ASSUME NEW i \in DOMAIN net, Lose(i) PROVE FeedInv'
  BY <1>1, <1>3, FeedLose
<1>4. ASSUME NEW i \in DOMAIN net, Duplicate(i) PROVE FeedInv'
  BY <1>1, <1>4, FeedDuplicate
<1>5. ASSUME NEW i \in DOMAIN net, Receive(i) PROVE FeedInv'
  BY <1>1, <1>5, FeedSkips, FeedCounts
<1>6. CASE Open
  BY <1>1, <1>6, FeedOpen
<1>7. CASE Poll
  BY <1>1, <1>7, FeedHands DEF Poll
<1>8. CASE PollReturns
  <2>1. latest' = latest /\ msg' \in {0, msg, latest} /\ UNCHANGED <<feed, tallies>>
    BY <1>8 DEF PollReturns
  <2> QED
    BY <2>1, <1>1, FeedHands
<1>9. CASE PollFails
  <2>1. latest' = latest /\ msg' \in {0, msg, latest} /\ UNCHANGED <<feed, tallies>>
    BY <1>9 DEF PollFails
  <2> QED
    BY <2>1, <1>1, FeedHands
<1>10. CASE CloseReceiver
  BY <1>1, <1>10, FeedHands DEF CloseReceiver
<1>11. CASE UNCHANGED mvars
  BY <1>1, <1>11, FeedHands DEF mvars
<1> QED
  BY <1>1, <1>2, <1>3, <1>4, <1>5, <1>6, <1>7, <1>8, <1>9, <1>10, <1>11 DEF FeedNext

\* packets_dropped() is right for every width of the sequence number and every feed
\* shorter than it: exact when datagrams are only lost, and congruent to the sequence
\* numbers whatever the network repeats or reorders.
THEOREM DropsAreRight == FeedSpec => []DropsRight
<1>1. FeedInv => DropsRight
  BY DEF FeedInv
<1> QED
  BY <1>1, FeedInvInit, FeedInvNext, PTL DEF FeedSpec

\* What poll hands over on a feed that only loses datagrams is the newest one accepted.
LEMMA HandsForward ==
    ASSUME FeedInv, [FeedNext]_mvars, ~ unordered, msg' # msg, msg' # 0
    PROVE  msg' > msg /\ msg' = Last(accepted')
<1>1. PollReturns /\ msg' = latest
  BY DEF FeedNext, mvars, Publish, Lose, Duplicate, Open, Poll, Receive, PollReturns, PollFails, CloseReceiver
<1>2. accepted' = accepted
  BY <1>1 DEF PollReturns, tallies
<1>3. /\ latest # 0 => accepted # << >> /\ latest = Last(accepted)
      /\ msg # 0 => accepted # << >> /\ msg <= Last(accepted)
      /\ latest \in Nat /\ msg \in Nat
  BY DEF FeedInv, HandedRight, FeedTypes
<1> QED
  BY <1>1, <1>2, <1>3

\* The book never goes back in time on a feed that only loses datagrams, although poll
\* drains many and hands over one, and although a receive error may come in between.
THEOREM NeverGoesBack == FeedSpec => NeverBackwards
<1>1. FeedInv /\ [FeedNext]_mvars
        => [~ unordered /\ msg' # msg /\ msg' # 0 => msg' > msg /\ msg' = Last(accepted')]_mvars
  BY HandsForward
<1> QED
  BY <1>1, FeedInvInit, FeedInvNext, PTL DEF FeedSpec, NeverBackwards
=============================================================================
