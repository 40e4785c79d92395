----------------------------- MODULE PaperReplay -----------------------------
(***************************************************************************)
(* What is read back from the paper ledger.  Two parts of the code replay  *)
(* the same events and neither stores its result:                          *)
(*                                                                         *)
(*   - the execution service replays one order's stream strictly: the      *)
(*     first event that does not fit makes every later call on that order  *)
(*     raise (PaperExecutionService._retained_state);                      *)
(*   - the projector replays the whole ledger leniently: an event that     *)
(*     does not fit is listed as unprojectable and skipped                 *)
(*     (PaperPortfolioProjector.replay).                                   *)
(*                                                                         *)
(* Both are left folds over the ledger, so each is given here by what one  *)
(* more event does to it.                                                  *)
(***************************************************************************)
EXTENDS Integers, PaperLifecycle

CONSTANTS
  OrderIds,      \* local order identities
  Instruments,   \* instrument identities
  Prices,        \* fill prices, in whole currency units
  Stamps,        \* clock readings; two calls may well see the same one
  StartingCash,  \* the explicit starting cash given to a replay
  NoInstrument   \* an order the replay has not met yet has no instrument

ASSUME PricesAssumption == Prices \subseteq Nat \ {0}
ASSUME StartingCashAssumption == StartingCash \in Nat
ASSUME NoInstrumentAssumption == NoInstrument \notin Instruments

OrderSide == {"BUY", "SELL"}
NoSide == "NONE"

(* The terms of a proposal (domain/risk.py).  reference_price and the      *)
(* strategy revision are data that no replay reads.                        *)
OrderIntent ==
  [ order_id : OrderIds, instrument_id : Instruments,
    side : OrderSide, quantity : Nat \ {0} ]

(***************************************************************************)
(* The fill simulator's reason codes.  A fill made without the simulator   *)
(* carries no simulation evidence.                                         *)
(***************************************************************************)
NoSimulation == "NO_SIMULATION"
NoFillReasons ==
  {"SESSION_CLOSED", "LIMIT_NOT_ELIGIBLE", "NO_AVAILABLE_SIMULATED_VOLUME"}
Capped == "VOLUME_CAPPED"
Complete == "FILLED_WITH_EXPLICIT_LOCAL_ASSUMPTIONS"
Reasons == {NoSimulation, Capped, Complete} \cup NoFillReasons

(***************************************************************************)
(* A retained event.  Of its payload the fields that a replay reads are    *)
(* kept: side and quantity (the order's on a terms event, the fill's on a  *)
(* fill event, absent from decisions and reconciliations), the cumulative  *)
(* filled quantity, the fill price, whether a decision allowed the order,  *)
(* and the simulator's reason.  A field a payload lacks holds a null.      *)
(***************************************************************************)
PaperEvent ==
  [ type : PaperEventType, at : Stamps,
    order_id : OrderIds, instrument_id : Instruments,
    side : OrderSide \cup {NoSide}, quantity : Nat, cumulative : Nat,
    price : Prices \cup {0}, allowed : BOOLEAN, reason : Reasons ]

(* An event whose payload carries the order's terms and nothing else.      *)
TermsEvent(type, intent, at) ==
  [ type |-> type, at |-> at,
    order_id |-> intent.order_id, instrument_id |-> intent.instrument_id,
    side |-> intent.side, quantity |-> intent.quantity, cumulative |-> 0,
    price |-> 0, allowed |-> FALSE, reason |-> NoSimulation ]

(* An event whose payload carries no terms.                                *)
BareEvent(type, intent, at) ==
  [ TermsEvent(type, intent, at) EXCEPT !.side = NoSide, !.quantity = 0 ]

(***************************************************************************)
(* The hash that names an event covers type, order, time and payload; the  *)
(* instrument is in none of them.                                          *)
(***************************************************************************)
SameEventId(e, f) ==
  e = [f EXCEPT !.instrument_id = e.instrument_id]

-----------------------------------------------------------------------------
(* The strict replay of one order's stream.                                *)

RetainedState ==
  [ status : PaperOrderStatus, filled : Nat, risk_seen : BOOLEAN,
    valid : BOOLEAN ]

NothingRetained ==
  [ status |-> "PENDING_RISK", filled |-> 0, risk_seen |-> FALSE,
    valid |-> TRUE ]

RetainedAccepts(r, e) ==
  /\ r.valid
  /\ e.type = "ORDER_REJECTED" => r.risk_seen
  /\ Apply(r.status, e.type, e.allowed) # OutOfSequence
  /\ e.type \in FillEvents =>
       e.quantity > 0 /\ e.cumulative = r.filled + e.quantity

RetainedStep(r, e) ==
  IF RetainedAccepts(r, e)
  THEN [ r EXCEPT
           !.status = Apply(r.status, e.type, e.allowed),
           !.filled = IF e.type \in FillEvents THEN e.cumulative ELSE @,
           !.risk_seen = @ \/ e.type = "RISK_DECISION" ]
  ELSE [ r EXCEPT !.valid = FALSE ]

(* The replay also refuses a stream filled beyond the quantity of the      *)
(* order it is asked about; cumulative quantities only grow.               *)
Readable(r, intent) == r.valid /\ r.filled <= intent.quantity

-----------------------------------------------------------------------------
(* The lenient replay of the whole ledger.                                 *)

ProjectedOrder ==
  [ instrument_id : Instruments \cup {NoInstrument},
    side : OrderSide \cup {NoSide}, quantity : Nat,
    status : PaperOrderStatus, filled : Nat, risk_seen : BOOLEAN ]

UnknownOrder ==
  [ instrument_id |-> NoInstrument, side |-> NoSide, quantity |-> 0,
    status |-> "PENDING_RISK", filled |-> 0, risk_seen |-> FALSE ]

(* realized P&L and average entry price are data of no property here.      *)
Portfolio ==
  [ orders : [OrderIds -> ProjectedOrder], positions : [Instruments -> Int],
    cash : Int, unprojectable : SUBSET PaperEvent ]

EmptyPortfolio ==
  [ orders |-> [o \in OrderIds |-> UnknownOrder],
    positions |-> [i \in Instruments |-> 0],
    cash |-> StartingCash, unprojectable |-> {} ]

SameInstrument(o, e) == o.instrument_id \in {NoInstrument, e.instrument_id}

(* The order's terms, once known, are those of every later terms event.    *)
TermsMatch(o, e) ==
  o.side \in {NoSide, e.side} /\ o.quantity \in {0, e.quantity}

CarriesTerms(e) ==
  e.type \notin FillEvents \cup {"RISK_DECISION", "RECONCILIATION_RECORDED"}

SetsTerms(e) ==
  e.type \in {"ORDER_PROPOSED", "ORDER_ACCEPTED", "ORDER_SUBMITTED"}

(* Mutants of FillFits: one that forgets what was filled before, and one   *)
(* that lets a sell exceed the position.                                   *)
FillFitsAnyTotal(p, o, e) ==
  /\ e.side = o.side /\ o.side # NoSide
  /\ e.quantity > 0 /\ e.price > 0
  /\ IF e.type = "ORDER_FILLED" THEN e.cumulative = o.quantity
                                ELSE e.cumulative < o.quantity
  /\ e.side = "SELL" => e.quantity <= p.positions[e.instrument_id]

FillFitsAnyPosition(p, o, e) ==
  /\ e.side = o.side /\ o.side # NoSide
  /\ e.quantity > 0 /\ e.price > 0
  /\ e.cumulative = o.filled + e.quantity
  /\ IF e.type = "ORDER_FILLED" THEN e.cumulative = o.quantity
                                ELSE e.cumulative < o.quantity

(* _apply_fill: the fill continues the order and closes it or not, as its  *)
(* type says, and a sell never exceeds the position held.                  *)
FillFits(p, o, e) ==
  /\ e.side = o.side /\ o.side # NoSide
  /\ e.quantity > 0 /\ e.price > 0
  /\ e.cumulative = o.filled + e.quantity
  /\ IF e.type = "ORDER_FILLED" THEN e.cumulative = o.quantity
                                ELSE e.cumulative < o.quantity
  /\ e.side = "SELL" => e.quantity <= p.positions[e.instrument_id]

Projectable(p, e) ==
  LET o == p.orders[e.order_id] IN
  /\ SameInstrument(o, e)
  /\ e.type = "ORDER_REJECTED" => o.risk_seen
  /\ Apply(o.status, e.type, e.allowed) # OutOfSequence
  /\ CarriesTerms(e) => TermsMatch(o, e)
  /\ SetsTerms(e) => e.side # NoSide /\ e.quantity > 0
  /\ e.type = "ORDER_UNFILLED" => e.reason \in NoFillReasons
  /\ e.type \in FillEvents => FillFits(p, o, e)

(* What replay notes of an order before it decides whether the event fits. *)
Noted(o, e) ==
  IF SameInstrument(o, e)
  THEN [ o EXCEPT !.instrument_id = e.instrument_id,
                  !.risk_seen = @ \/ e.type = "RISK_DECISION" ]
  ELSE o

Projected(o, e) ==
  [ Noted(o, e) EXCEPT
      !.status = Apply(o.status, e.type, e.allowed),
      !.side = IF SetsTerms(e) THEN e.side ELSE @,
      !.quantity = IF SetsTerms(e) THEN e.quantity ELSE @,
      !.filled = IF e.type \in FillEvents THEN e.cumulative ELSE @ ]

(* The signed quantity by which an applied event moves a position.         *)
PositionMove(e) ==
  IF e.type \notin FillEvents THEN 0
  ELSE IF e.side = "BUY" THEN e.quantity ELSE -e.quantity

ProjectEvent(p, e) ==
  IF Projectable(p, e)
  THEN [ p EXCEPT
           !.orders[e.order_id] = Projected(@, e),
           !.positions[e.instrument_id] = @ + PositionMove(e),
           !.cash = @ - PositionMove(e) * e.price ]
  ELSE [ p EXCEPT
           !.orders[e.order_id] = Noted(@, e),
           !.unprojectable = @ \cup {e} ]

=============================================================================
