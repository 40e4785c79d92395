--------------------------- MODULE PaperOrderBook ---------------------------
(***************************************************************************)
(* What the paper ledger promises to whoever reads its projection: every   *)
(* order walks the documented lifecycle one step at a time, its fills add  *)
(* up to at most its quantity, and each fill moves the position and the    *)
(* cash of a long-only book by exactly what it filled.  No session, event, *)
(* interleaving or crash is visible here.                                  *)
(*                                                                         *)
(* PaperExecution is shown to implement this module: its projected         *)
(* portfolio is the book.                                                  *)
(***************************************************************************)
EXTENDS Integers

CONSTANTS
  OrderIds, Instruments, Prices, StartingCash,
  Quantities,    \* the quantities that may be proposed
  NoInstrument   \* an order nobody has proposed has no instrument

VARIABLES
  orders,     \* per order, its terms, status and filled quantity
  positions,  \* per instrument, the quantity held
  cash

bookVars == <<orders, positions, cash>>

Open == {"ACCEPTED", "WORKING", "PARTIALLY_FILLED"}

Unproposed ==
  [ instrument_id |-> NoInstrument, side |-> "NONE", quantity |-> 0,
    status |-> "PENDING_RISK", filled |-> 0 ]

Init ==
  /\ orders = [o \in OrderIds |-> Unproposed]
  /\ positions = [i \in Instruments |-> 0]
  /\ cash = StartingCash

(* The order's terms are fixed once, when it is proposed.                  *)
Propose(o, i, side, quantity) ==
  /\ orders[o] = Unproposed
  /\ orders' = [orders EXCEPT ![o] =
                  [ @ EXCEPT !.instrument_id = i, !.side = side,
                             !.quantity = quantity ]]
  /\ UNCHANGED <<positions, cash>>

Move(o, from, to) ==
  /\ orders[o].quantity > 0
  /\ orders[o].status \in from
  /\ orders' = [orders EXCEPT ![o].status = to]
  /\ UNCHANGED <<positions, cash>>

Approve(o) == Move(o, {"PENDING_RISK"}, "RISK_APPROVED")
Reject(o) == Move(o, {"PENDING_RISK"}, "REJECTED")
Accept(o) == Move(o, {"RISK_APPROVED"}, "ACCEPTED")
Work(o) == Move(o, {"ACCEPTED"}, "WORKING")
Cancel(o) == Move(o, Open, "CANCELLED")
Reconcile(o) ==
  Move(o, {"REJECTED", "FILLED", "CANCELLED"}, "RECONCILED")

Fill(o, quantity, price) ==
  LET order == orders[o]
      bought == IF order.side = "BUY" THEN quantity ELSE -quantity
      filled == order.filled + quantity
  IN
  /\ order.status \in Open
  /\ filled <= order.quantity
  /\ positions[order.instrument_id] + bought >= 0
  /\ orders' = [orders EXCEPT ![o] =
                  [ @ EXCEPT !.filled = filled,
                             !.status = IF filled = order.quantity
                                        THEN "FILLED"
                                        ELSE "PARTIALLY_FILLED" ]]
  /\ positions' = [positions EXCEPT ![order.instrument_id] = @ + bought]
  /\ cash' = cash - bought * price

Next ==
  \E o \in OrderIds :
    \/ \E i \in Instruments, side \in {"BUY", "SELL"},
          quantity \in Quantities : Propose(o, i, side, quantity)
    \/ Approve(o)
    \/ Reject(o)
    \/ Accept(o)
    \/ Work(o)
    \/ Cancel(o)
    \/ Reconcile(o)
    \/ \E quantity \in 1..orders[o].quantity, price \in Prices :
         Fill(o, quantity, price)

Spec == Init /\ [][Next]_bookVars

=============================================================================
