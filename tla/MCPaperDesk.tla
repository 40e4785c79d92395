---------------------------- MODULE MCPaperDesk ----------------------------
(***************************************************************************)
(* Instances of PaperDesk small enough for TLC.                            *)
(***************************************************************************)
EXTENDS PaperDesk

CONSTANTS s1, s2, nse

(* One lot is bought; identities from the sixth on, which come after the   *)
(* five events of an order that was filled, sell one.                      *)
OneLot(o) ==
  [ order_id |-> o, instrument_id |-> nse,
    side |-> IF o < 6 THEN "BUY" ELSE "SELL", quantity |-> 1 ]
BuyThenSell == { OneLot(o) : o \in OrderIds }

Deep == [ session_open |-> TRUE, eligible |-> TRUE, available |-> 5,
          price |-> 1 ]
DeepOnly == {Deep}

(* Sessions are used alike.                                                *)
Alike == Permutations(Sessions)

=============================================================================
