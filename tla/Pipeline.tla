------------------------------ MODULE Pipeline ------------------------------
(***************************************************************************)
(* The trading loop (src/main.cpp: run_pipeline and                        *)
(* process_market_signal_and_order) with the components it drives: the     *)
(* level-one book (src/orderbook.cpp), the strategy (src/strategy.cpp),    *)
(* the OMS (module OMS) and the order gateway (src/order_gateway.cpp), and *)
(* the exchange at the other end of the TCP connection.                    *)
(*                                                                         *)
(* The loop is one thread.  The exchange and the network run beside it:    *)
(* reports arrive between any two of its steps, and the connection may be  *)
(* lost at any time.                                                       *)
(*                                                                         *)
(* Abstractions.  A quote or a reference is its prices.  The gateway moves *)
(* whole messages; module OrderGateway is about its byte stream.  Latency  *)
(* tracing is left out.  The exchange is not in this repository: it is     *)
(* modelled by the answers that on_execution is written for.               *)
(***************************************************************************)
EXTENDS OMS, SequencesExt

CONSTANTS
    Quotes,             \* <<bid, ask>> pairs the target feed sends
    References,         \* mid prices the reference feed sends
    EXIT_HALF_SPREAD,
    edge_threshold,     \* StrategyParams
    order_size,
    strategy_max_position

ASSUME PipelineAssumption ==
    /\ Quotes \subseteq Price \X Price
    /\ \A q \in Quotes : (q[1] + q[2]) % 2 = 0      \* mid prices are whole too
    /\ \A q \in Quotes : (q[1] + q[2]) \div 2 \in Price
    /\ References \subseteq Nat \ {0}
    /\ order_size \in Nat \ {0}
    \* Module OMS is given the prices, quantities and types that occur here.
    /\ 0 \in Price /\ 0 .. max_order_qty \subseteq Qty /\ "IOC" \in Types

VARIABLES
    pc,                 \* where the loop is: poll, decide, drain or done
    bid, ask,           \* bids_[0].price and asks_[0].price, 0 before a quote
    reference,          \* reference_mid_, 0 while has_reference_ is false
    updated,            \* reference_updated || last_md_was_quote
    connected,          \* sockfd_ >= 0
    peer_up,            \* the exchange has not closed its end
    to_exchange,        \* orders submitted and not yet taken by the exchange
    answers,            \* reports the exchange has still to write
    from_exchange,      \* reports written and not yet parsed
    coalesced           \* TRUE: all reports on one order arrive in one segment

book == <<bid, ask, reference>>
net == <<connected, peer_up, to_exchange, answers, from_exchange, coalesced>>
pvars == <<vars, pc, book, updated, net>>

PInit ==
    /\ Init
    /\ pc = "poll"
    /\ bid = 0 /\ ask = 0 /\ reference = 0
    /\ updated = FALSE
    /\ connected = TRUE
    /\ peer_up = TRUE
    /\ to_exchange = << >> /\ answers = << >> /\ from_exchange = << >>
    /\ coalesced \in BOOLEAN

-----------------------------------------------------------------------------
(* Market data: R and Q hold the reference and the quote received in this   *)
(* iteration, at most one of each.  Both are empty when the datagrams were  *)
(* of a type that the receiver's consumer skips.                            *)

AtMostOne(S) == {{}} \cup {{x} : x \in S}

\* The bid and the ask after on_quote.
OnQuote(Q) == IF Q = {} THEN <<bid, ask>> ELSE CHOOSE q \in Q : TRUE

mid_price(quote) == (quote[1] + quote[2]) \div 2

MarketData(R, Q) ==
    /\ pc = "poll"
    /\ next_id \in OrderId        \* bound: the feeds end when the ids are used up
    /\ reference' = IF R = {} THEN reference ELSE CHOOSE r \in R : TRUE
    /\ bid' = OnQuote(Q)[1] /\ ask' = OnQuote(Q)[2]
    /\ updated' = (R # {} \/ Q # {})
    /\ SetReferencePrice(mid_price(OnQuote(Q)))
    /\ pc' = "decide"
    /\ UNCHANGED net

\* No datagram on either feed: only the reports are drained.
NoData ==
    /\ pc = "poll"
    /\ pc' = "drain"
    /\ UNCHANGED <<vars, book, updated, net>>

-----------------------------------------------------------------------------
(* The decision *)

has_reference == reference > 0
MutNeverPending == FALSE                       \* mutant: pending orders are not seen
has_pending_order == pending_new > 0

\* ImbalanceStrategy::on_book_update, for a flat position or any other.
Signal ==
    IF ~ has_reference THEN "None"
    ELSE IF reference >= ask + edge_threshold /\ position < strategy_max_position THEN "Buy"
    ELSE IF bid >= reference + edge_threshold /\ position > -strategy_max_position THEN "Sell"
    ELSE "None"

\* build_exit_order: the side, price and quantity that flatten the position.
ExitSide  == IF position > 0 THEN "Sell" ELSE "Buy"
ExitPrice == IF position > 0 THEN bid ELSE ask
MutExitOrderReady == position # 0 /\ has_reference      \* mutant: at any price
ExitOrderReady ==
    /\ position # 0
    /\ has_reference
    /\ position > 0 => ExitPrice >= reference - EXIT_HALF_SPREAD
    /\ position < 0 => ExitPrice <= reference + EXIT_HALF_SPREAD

ShouldExit == ~ has_pending_order /\ ExitOrderReady

\* Mutant: the strategy is asked while an order is pending.
MutEntryWhilePending ==
    IF position = 0 /\ ~ ShouldExit /\ updated THEN Signal ELSE "None"

\* The signal that reaches the order code: the strategy is asked only when flat.
EntrySignal ==
    IF position = 0 /\ ~ ShouldExit /\ ~ has_pending_order /\ updated THEN Signal ELSE "None"

\* Mutant: the order is sent twice.
MutSubmitTwice(id) ==
    /\ to_exchange' = to_exchange \o <<id, id>>
    /\ UNCHANGED <<connected, peer_up, answers, from_exchange, coalesced>>

\* submit_order: a closed gateway drops the order without a word.  When the peer
\* has gone, the kernel may still take the bytes, or send fails and the gateway
\* closes, which empties its read buffer.
SubmitOrder(id) ==
    \/ /\ ~ connected
       /\ UNCHANGED net
    \/ /\ connected
       /\ to_exchange' = IF peer_up THEN Append(to_exchange, id) ELSE to_exchange
       /\ UNCHANGED <<connected, peer_up, answers, from_exchange, coalesced>>
    \/ /\ connected /\ ~ peer_up
       /\ connected' = FALSE
       /\ from_exchange' = << >>
       /\ UNCHANGED <<peer_up, to_exchange, answers, coalesced>>

\* send_new followed by submit_order, or a refusal.
Trade(side, price, qty) ==
    \/ SendNew(side, price, qty, "IOC") /\ SubmitOrder(next_id)
    \/ SendRefused(side, price, qty) /\ UNCHANGED net

ToDrain == pc = "decide" /\ pc' = "drain" /\ UNCHANGED <<book, updated>>

SendExit ==
    /\ ToDrain
    /\ ShouldExit
    /\ Trade(ExitSide, ExitPrice, Abs(position))

SendEntry ==
    /\ ToDrain
    /\ EntrySignal # "None"
    /\ Trade(EntrySignal, IF EntrySignal = "Buy" THEN ask ELSE bid, order_size)

NoTrade ==
    /\ ToDrain
    /\ ~ ShouldExit /\ EntrySignal = "None"
    /\ UNCHANGED <<vars, net>>

-----------------------------------------------------------------------------
(* Draining the gateway: poll_execution until it returns false *)

\* Mutants of DrainOne: the rest of the buffer is thrown away with the report, or
\* the newest report is taken first.
MutDrainDiscards ==
    /\ pc = "drain" /\ connected /\ peer_up /\ from_exchange # << >>
    /\ OnExecution(Head(from_exchange))
    /\ from_exchange' = << >>
    /\ UNCHANGED <<pc, book, updated, connected, peer_up, to_exchange, answers, coalesced>>
MutDrainNewest ==
    /\ pc = "drain" /\ connected /\ peer_up /\ from_exchange # << >>
    /\ OnExecution(Last(from_exchange))
    /\ from_exchange' = Front(from_exchange)
    /\ UNCHANGED <<pc, book, updated, connected, peer_up, to_exchange, answers, coalesced>>

\* One report is parsed and processed.
DrainOne ==
    /\ pc = "drain"
    /\ connected /\ peer_up
    /\ from_exchange # << >>
    /\ OnExecution(Head(from_exchange))
    /\ from_exchange' = Tail(from_exchange)
    /\ UNCHANGED <<pc, book, updated, connected, peer_up, to_exchange, answers, coalesced>>

\* Nothing to parse.
DrainEmpty ==
    /\ pc = "drain"
    /\ ~ connected \/ (peer_up /\ from_exchange = << >>)
    /\ pc' = "poll"
    /\ UNCHANGED <<vars, book, updated, net>>

\* poll_execution reads until the socket is empty before it parses: when that
\* ends in the peer's close, the gateway closes and what it had read is dropped.
DrainClosed ==
    /\ pc = "drain"
    /\ connected /\ ~ peer_up
    /\ connected' = FALSE
    /\ from_exchange' = << >>
    /\ pc' = "poll"
    /\ UNCHANGED <<vars, book, updated, peer_up, to_exchange, answers, coalesced>>

\* SIGINT, SIGTERM or the deadline: the loop ends at its next test, and main closes the
\* gateway, with whatever answers are still on their way.
Stop ==
    /\ pc = "poll"
    /\ pc' = "done"
    /\ connected' = FALSE
    /\ from_exchange' = << >>
    /\ UNCHANGED <<vars, book, updated, peer_up, to_exchange, answers, coalesced>>

-----------------------------------------------------------------------------
(* The exchange (external) *)

Rpt(id, type, q) == [order_id |-> id, exec_type |-> type,
                     fill_price |-> OrderOf(id).price, fill_qty |-> q]

\* The answers to an IOC order for q: rejected; accepted and filled, missed or
\* filled in part; or filled with the NewAck behind the fill.
Answers(id, q) ==
    LET ack == Rpt(id, "NewAck", 0)
        cancel == Rpt(id, "CancelAck", 0)
    IN  {<<Rpt(id, "Reject", 0)>>,
         <<ack, Rpt(id, "Fill", q)>>,
         <<ack, cancel>>,
         <<Rpt(id, "Fill", q), ack>>}
        \cup {<<ack, Rpt(id, "PartialFill", k), cancel>> : k \in 1 .. q - 1}

\* The exchange takes the next order and decides its fate.
ExchangeTakes ==
    /\ peer_up /\ to_exchange # << >>
    /\ to_exchange' = Tail(to_exchange)
    /\ LET id == Head(to_exchange)
       IN  \E a \in Answers(id, OrderOf(id).qty) :
              IF coalesced
              THEN from_exchange' = from_exchange \o a /\ UNCHANGED answers
              ELSE answers' = answers \o a /\ UNCHANGED from_exchange
    /\ UNCHANGED <<vars, pc, book, updated, connected, peer_up, coalesced>>

\* The exchange writes one report of those it still owes.
ExchangeWrites ==
    /\ peer_up /\ answers # << >>
    /\ answers' = Tail(answers)
    /\ from_exchange' = Append(from_exchange, Head(answers))
    /\ UNCHANGED <<vars, pc, book, updated, connected, peer_up, to_exchange, coalesced>>

\* The exchange closes the connection; what it had written can still be read.
ExchangeCloses ==
    /\ peer_up
    /\ peer_up' = FALSE
    /\ UNCHANGED <<vars, pc, book, updated, connected, to_exchange, answers, from_exchange, coalesced>>

-----------------------------------------------------------------------------
Loop ==
    \/ \E R \in AtMostOne(References), Q \in AtMostOne(Quotes) : MarketData(R, Q)
    \/ NoData
    \/ SendExit \/ SendEntry \/ NoTrade
    \/ DrainOne \/ DrainEmpty \/ DrainClosed

Exchange == ExchangeTakes \/ ExchangeWrites

PNext == Loop \/ Stop \/ Exchange \/ ExchangeCloses

\* The loop spins as long as the process runs, and an exchange that is up goes on
\* answering; nothing obliges it to close, or anyone to stop the process.
PSpec == PInit /\ [][PNext]_pvars /\ WF_pvars(Loop) /\ WF_pvars(Exchange)

-----------------------------------------------------------------------------
(* Properties *)

\* Seen from the OMS, the loop, the gateway and an exchange that answers as Answers
\* says are the conforming environment of module OMS, in whatever order reports
\* and decisions interleave: what ConformingSpec guarantees holds in the pipeline.
PipelineConforms == ConformingSpec

Terminal == {"Fill", "CancelAck", "Reject"}

\* As long as the connection stands, no open order is forgotten: it is on its way
\* to the exchange, or the report that ends it is on its way back, once.
NoOrderForgotten ==
    connected /\ peer_up =>
        \A id \in OpenIds :
            LET back == from_exchange \o answers
                ends == {i \in DOMAIN back : back[i].order_id = id /\ back[i].exec_type \in Terminal}
                sent == {i \in DOMAIN to_exchange : to_exchange[i] = id}
            IN  Cardinality(ends) + Cardinality(sent) = 1

\* The loop never has two unacknowledged orders out.  When every order's reports
\* arrive together, it has at most one order open, and its position is at most one
\* order: no exit is sent twice, no entry on top of another.  A lost connection can
\* leave two open for good: one whose last reports were dropped with the read buffer,
\* and one submitted to the closed gateway.
OneOrderAtATime ==
    /\ pending_new <= 1
    /\ coalesced =>
            /\ Cardinality(OpenIds) <= IF connected THEN 1 ELSE 2
            /\ Abs(position) <= order_size

\* A reference may come before the first quote.  The best ask is then 0 and so below
\* any reference, and a mid price of 0 switches the deviation check of the OMS off.
\* Whatever the exchange makes of the orders that follow, they cost nothing: until
\* a quote arrives the loop only ever buys, at price 0, and never sells what it got.
UnquotedTradesAreFree ==
    ask = 0 => /\ trading_cash = 0
               /\ position >= 0
               /\ \A id \in OpenIds : OrderOf(id).side = "Buy" /\ OrderOf(id).price = 0

\* An order submitted to a gateway that is closed is never answered.  It stays
\* pending, and for as long as it does the loop sends nothing more: a lost
\* connection costs one phantom order, not a stream of them.
LostGatewayHaltsTrading ==
    [][~ connected /\ pending_new > 0 => next_id' = next_id /\ pending_new' = pending_new]_pvars

\* With the connection up, every unacknowledged order is answered, so that the loop
\* can trade again, and every order is closed in the end.
OrdersSettle ==
    LET lost == ~ connected \/ ~ peer_up \/ pc = "done"
    IN  /\ pending_new > 0 ~> (pending_new = 0 \/ lost)
        /\ \A id \in OrderId : id \in OpenIds ~> (id \notin OpenIds \/ lost)
=============================================================================
