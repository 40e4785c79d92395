-------------------------- MODULE MCPaperExecution --------------------------
(***************************************************************************)
(* Instances of PaperExecution small enough for TLC.                       *)
(***************************************************************************)
EXTENDS PaperAudit, TLC

CONSTANTS s1, s2, o1, nse, bse

Proposal(o, i, side, quantity) ==
  [ order_id |-> o, instrument_id |-> i, side |-> side,
    quantity |-> quantity ]

(* One identity, proposed with two sets of terms.                          *)
OneOrder == { Proposal(o1, nse, "BUY", 2), Proposal(o1, nse, "SELL", 1) }

(* One proposal that is filled in one or two parts.                        *)
TwoLots == { Proposal(o1, nse, "BUY", 2) }

(* Fill assumptions: a closed session, a price beyond the limit, volume    *)
(* for one lot, and volume for any order.                                  *)
Thin == [ session_open |-> TRUE, eligible |-> TRUE, available |-> 1,
          price |-> 1 ]
Closed == [ Thin EXCEPT !.session_open = FALSE ]
Beyond == [ Thin EXCEPT !.eligible = FALSE ]
Deep == [ Thin EXCEPT !.available = 5 ]

ClosedOrDeep == {Closed, Deep}
DeepOnly == {Deep}
BeyondThinOrDeep == {Beyond, Thin, Deep}

(* Sessions are used alike.                                                *)
Alike == Permutations(Sessions)

=============================================================================
