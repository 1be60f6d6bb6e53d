------------------------------- MODULE Orders -------------------------------
(***************************************************************************)
(* The order record and its status algebra (common/common.h OrderStatus,   *)
(* orderbook/Order.h).  The statuses keep their numbers: isNewerThan       *)
(* compares them with <=.  Prices are ticks, quantities are shares.        *)
(***************************************************************************)
EXTENDS Integers

CONSTANTS
    OrderIds,   \* order numbers handed out by OrderIdGenerator
    Symbols,    \* securities
    Prices      \* limit prices, in ticks

ASSUME OrdersAssumption ==
    /\ OrderIds \subseteq Nat
    /\ Prices \subseteq Nat

UNSENT        == -4
NEW_          ==  0      \* NEW in the source, a reserved word here
PARTIALFILLED ==  1
FILLED        ==  2
PARTIALCANCEL ==  3
CANCELED      ==  4
REJECTED      ==  5
REPORTING     ==  7

\* The last status that is still "on its way" for isNewerThan.
SENTOK == -1

\* The statuses this program assigns: SENTFAILED, SENTUNKNOWN, SENTOK and
\* CANCELING are declared by the source and set by nothing in it.
OrderStatus == {UNSENT, NEW_, PARTIALFILLED, FILLED, PARTIALCANCEL, CANCELED,
                REJECTED, REPORTING}

FinalStatus == {FILLED, REJECTED, CANCELED, PARTIALCANCEL}

\* Order::isFinalStatus
IsFinal(order) == order.status \in FinalStatus

Order == [id : OrderIds, symbol : Symbols, buy : BOOLEAN, price : Prices,
          orderQty : Nat, status : OrderStatus, filledQty : Nat,
          filledAmt : Int, cancelQty : Int]

\* An Order as its sender fills it in: status UNSENT, nothing filled.
NewOrder(id, symbol, buy, price, qty) ==
    [id |-> id, symbol |-> symbol, buy |-> buy, price |-> price,
     orderQty |-> qty, status |-> UNSENT, filledQty |-> 0, filledAmt |-> 0,
     cancelQty |-> 0]

\* Wrong on purpose: an update that only brings the end of an order is not news.
IsNewerByFills(order, preOrder) ==
    /\ ~IsFinal(preOrder)
    /\ \/ order.filledQty > preOrder.filledQty
       \/ preOrder.status = REPORTING
       \/ preOrder.status <= SENTOK

\* Order::isNewerThan: a final order is never superseded; otherwise an update
\* counts when it is final, fills more, or is the first answer to a request.
IsNewerThan(order, preOrder) ==
    /\ ~IsFinal(preOrder)
    /\ \/ IsFinal(order)
       \/ order.filledQty > preOrder.filledQty
       \/ preOrder.status = REPORTING
       \/ preOrder.status <= SENTOK
=============================================================================
