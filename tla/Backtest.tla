------------------------------ MODULE Backtest ------------------------------
(***************************************************************************)
(* One run of the bar backtester: the loop over the candles of a dataset,  *)
(* the forced close at the end and the figures drawn from the run.         *)
(*                                                                         *)
(* A candle is its number in the dataset, its open and its close; money is *)
(* exact.  With Basis standing for 10 000 basis points, prices paid and    *)
(* received are in units of 1/Basis and amounts in units of 1/(Basis^2).   *)
(***************************************************************************)
EXTENDS Integers, Sequences, FiniteSetsExt

CONSTANTS
  Candles,          \* opens and closes that occur, [open, close]
  Lengths,          \* numbers of candles in a dataset
  Specs,            \* backtest specifications
  RequiredHistory,  \* bars the strategy asks for
  YearSpan,         \* bars between two points that are a year apart
  Basis,            \* 10 000 basis points
  None              \* no position, no figure

Actions == {"HOLD", "ENTER_LONG", "EXIT_LONG"}

BacktestSpec ==
  [ initial_cash : Nat \ {0}, quantity : Nat \ {0}, commission : Nat,
    slippage : Nat, force_close_at_end : BOOLEAN ]

ASSUME CandlesAssumption ==
  Candles \subseteq [ open : Nat \ {0}, close : Nat \ {0} ]
ASSUME SpecsAssumption == Specs \subseteq BacktestSpec
ASSUME LengthsAssumption == Lengths \subseteq Nat \ {0}
ASSUME NumbersAssumption ==
  RequiredHistory \in Nat \ {0} /\ YearSpan \in Nat \ {0}
  /\ Basis \in Nat \ {0}
ASSUME NoneAssumption == None \notin [ entry_time : Nat, entry_price : Nat ]

VARIABLES
  spec,      \* the run's assumptions
  dataset,   \* the candles, in order of their timestamps
  stage,     \* "ready", "loop", "closed", "done", "rejected", "failed"
  index,     \* the bar whose signal is taken next
  answers,   \* the strategy's signals so far
  cash,
  position,  \* the open position or None
  trades,    \* completed round trips
  curve,     \* marked equity, [time, equity]
  exposed,   \* marked points with an open position
  result     \* the figures of a finished run

inputs == <<spec, dataset>>
account == <<cash, position, trades, curve, exposed>>
vars == <<spec, dataset, stage, index, answers, account, result>>

Money == Int
OpenPosition == [ entry_time : Nat, entry_price : Nat ]
Trade == [ entry_time : Nat, exit_time : Nat, entry_price : Nat,
           exit_price : Int, gross_pnl : Money, cost : Money ]
LastBar == Len(dataset)

-----------------------------------------------------------------------------
(* Prices and amounts.                                                     *)

BuyPrice(price) == price * (Basis + spec.slippage)
SellPrice(price) == price * (Basis - spec.slippage)
Cost(price) == price * spec.quantity * spec.commission
Notional(price) == price * spec.quantity * Basis
Outlay(price) == Notional(price) + Cost(price)
Proceeds(price) == Notional(price) - Cost(price)
Mark(price) == price * Basis * spec.quantity * Basis
NetPnl(trade) == trade.gross_pnl - trade.cost

(* Mutant: the trade bears the exit cost only.                             *)
RoundTripExitCost(held, time, exit) ==
  [ entry_time |-> held.entry_time, exit_time |-> time,
    entry_price |-> held.entry_price, exit_price |-> exit,
    gross_pnl |-> Notional(exit) - Notional(held.entry_price),
    cost |-> Cost(exit) ]

RoundTrip(held, time, exit) ==
  [ entry_time |-> held.entry_time, exit_time |-> time,
    entry_price |-> held.entry_price, exit_price |-> exit,
    gross_pnl |-> Notional(exit) - Notional(held.entry_price),
    cost |-> Cost(held.entry_price) + Cost(exit) ]

-----------------------------------------------------------------------------
(* The run.                                                                *)

Init ==
  /\ spec \in Specs
  /\ \E n \in Lengths : dataset \in [1..n -> Candles]
  /\ stage = "ready"
  /\ index = 0
  /\ answers = <<>>
  /\ cash = spec.initial_cash
  /\ position = None
  /\ trades = <<>>
  /\ curve = <<>>
  /\ exposed = 0
  /\ result = None

Reject ==
  /\ stage = "ready"
  /\ LastBar <= RequiredHistory
  /\ stage' = "rejected"
  /\ UNCHANGED <<inputs, index, answers, account, result>>

(* Mutant: a dataset without a bar to trade is run.                        *)
BeginAnyway ==
  /\ stage = "ready"
  /\ stage' = "loop"
  /\ index' = RequiredHistory + 1
  /\ UNCHANGED <<inputs, answers, account, result>>

Begin ==
  /\ stage = "ready"
  /\ LastBar > RequiredHistory
  /\ stage' = "loop"
  /\ index' = RequiredHistory + 1
  /\ UNCHANGED <<inputs, answers, account, result>>

(* Mutant: orders fill at the bar whose signal they follow.                *)
SignalCandle == dataset[index]

(* The strategy sees the bars up to index; what it answers is acted on at  *)
(* the open of the next one.                                               *)
NextCandle == dataset[index + 1]

(* Mutant: affordability without the cost.                                 *)
EnterOnNotional ==
  LET price == BuyPrice(NextCandle.open)
  IN /\ position = None
     /\ Notional(price) <= cash
     /\ cash' = cash - Outlay(price)
     /\ position' = [ entry_time |-> index + 1, entry_price |-> price ]
     /\ UNCHANGED trades

Enter ==
  LET price == BuyPrice(NextCandle.open)
  IN /\ position = None
     /\ Outlay(price) <= cash
     /\ cash' = cash - Outlay(price)
     /\ position' = [ entry_time |-> index + 1, entry_price |-> price ]
     /\ UNCHANGED trades

Close(time, raw) ==
  LET exit == SellPrice(raw)
  IN /\ cash' = cash + Proceeds(exit)
     /\ trades' = Append(trades, RoundTrip(position, time, exit))

(* Mutant: the position is not cleared.                                    *)
ExitKeepingPosition ==
  /\ position # None
  /\ Close(index + 1, NextCandle.open)
  /\ UNCHANGED position

Exit ==
  /\ position # None
  /\ Close(index + 1, NextCandle.open)
  /\ position' = None

Ignored(signal) ==
  \/ signal = "HOLD"
  \/ /\ signal = "ENTER_LONG"
     /\ (position # None \/ Outlay(BuyPrice(NextCandle.open)) > cash)
  \/ signal = "EXIT_LONG" /\ position = None

MarkToMarket ==
  /\ curve' = Append(curve,
       [ time |-> index + 1,
         equity |-> cash' + (IF position' = None THEN 0
                             ELSE Mark(NextCandle.close)) ])
  /\ exposed' = exposed + (IF position' = None THEN 0 ELSE 1)

Bar(signal) ==
  /\ stage = "loop"
  /\ index < LastBar
  /\ answers' = Append(answers, signal)
  /\ \/ signal = "ENTER_LONG" /\ Enter
     \/ signal = "EXIT_LONG" /\ Exit
     \/ Ignored(signal) /\ UNCHANGED <<cash, position, trades>>
  /\ MarkToMarket
  /\ index' = index + 1
  /\ UNCHANGED <<inputs, stage, result>>

(* The last candle ends a position that is still open.                     *)
MustClose == position # None /\ spec.force_close_at_end

ForceClose ==
  /\ stage = "loop"
  /\ index = LastBar
  /\ MustClose
  /\ Close(LastBar, dataset[LastBar].close)
  /\ curve' = Append(curve, [time |-> LastBar, equity |-> cash'])
  /\ stage' = "closed"
  /\ UNCHANGED <<inputs, index, answers, position, exposed, result>>

-----------------------------------------------------------------------------
(* The figures.  A ratio is kept as its two terms.                         *)

Answered(signal) ==
  Cardinality({ k \in DOMAIN answers : answers[k] = signal })

(* The highest equity up to the k-th point, the starting cash included.    *)
Peak(k) == Max({spec.initial_cash} \cup { curve[j].equity : j \in 1..k })

Drawdowns ==
  { [of |-> Peak(k), lost |-> Peak(k) - curve[k].equity] : k \in DOMAIN curve }

MaxDrawdown ==
  CHOOSE d \in Drawdowns \cup { [of |-> spec.initial_cash, lost |-> 0] } :
    \A other \in Drawdowns : d.lost * other.of >= other.lost * d.of

(* The growth that is annualized, when the curve spans a year.             *)
Growth ==
  IF /\ Len(curve) >= 2 /\ cash > 0
     /\ curve[Len(curve)].time - curve[1].time >= YearSpan
  THEN [initial |-> spec.initial_cash, final |-> cash]
  ELSE None

Outcome ==
  [ kind |-> IF trades # <<>> THEN "CALCULATED_WITH_TRADES"
             ELSE "CALCULATED_NO_TRADES",
    no_signal |-> trades = <<>> /\ Answered("ENTER_LONG") = 0 ]

(* A point below zero is refused by the drawdown curve: the run raises.    *)
Measure ==
  /\ \/ stage = "closed"
     \/ stage = "loop" /\ index = LastBar /\ ~MustClose
  /\ IF \E k \in DOMAIN curve : curve[k].equity < 0
     THEN stage' = "failed" /\ UNCHANGED result
     ELSE /\ stage' = "done"
          /\ result' = [ net_pnl |-> cash - spec.initial_cash,
                         max_drawdown |-> MaxDrawdown,
                         growth |-> Growth,
                         exposure |-> [points |-> exposed,
                                       of |-> Len(curve)],
                         outcome |-> Outcome ]
  /\ UNCHANGED <<inputs, index, answers, account>>

Next ==
  \/ Reject \/ Begin
  \/ \E signal \in Actions : Bar(signal)
  \/ ForceClose \/ Measure

Spec == Init /\ [][Next]_vars

-----------------------------------------------------------------------------
(* Properties.                                                             *)

Result ==
  [ net_pnl : Money, max_drawdown : [of : Nat, lost : Nat],
    growth : [initial : Nat, final : Money] \cup {None},
    exposure : [points : Nat, of : Nat],
    outcome : [ kind : {"CALCULATED_WITH_TRADES", "CALCULATED_NO_TRADES"},
                no_signal : BOOLEAN ] ]

(* Every variable keeps its type, and the loop stays within the dataset:   *)
(* the bar after index is only read while there is one.                    *)
TypeOK ==
  /\ spec \in Specs
  /\ \E n \in Lengths : dataset \in [1..n -> Candles]
  /\ stage \in {"ready", "loop", "closed", "done", "rejected", "failed"}
  /\ index \in 0..LastBar
  /\ answers \in Seq(Actions)
  /\ cash \in Money
  /\ position \in OpenPosition \cup {None}
  /\ trades \in Seq(Trade)
  /\ curve \in Seq([time : Nat, equity : Money])
  /\ exposed \in Nat
  /\ result \in Result \cup {None}

Forced == stage \in {"closed", "done", "failed"} /\ MustClose
StillOpen == position # None /\ ~Forced

(* The account and the trade list tell one story: cash is the starting     *)
(* cash plus the net result of every completed trade, less what an open    *)
(* position has taken out of it.  Entry costs are paid at the entry but    *)
(* are part of the cost of the trade that is written at the exit.          *)
CashMatchesTrades ==
  cash = spec.initial_cash
         + MapThenSumSet(LAMBDA k : NetPnl(trades[k]), DOMAIN trades)
         - (IF StillOpen THEN Outlay(position.entry_price) ELSE 0)

(* A fill is never earlier than the signal it answers: an entry is at the  *)
(* open of the bar after an ENTER_LONG, an exit at the open of the bar     *)
(* after an EXIT_LONG or, forced, at the last close.                       *)
Said(time, signal) ==
  /\ time - 1 - RequiredHistory \in DOMAIN answers
  /\ answers[time - 1 - RequiredHistory] = signal

EntersAfterSignal(fill) ==
  /\ Said(fill.entry_time, "ENTER_LONG")
  /\ fill.entry_price = BuyPrice(dataset[fill.entry_time].open)

FillsFollowSignals ==
  /\ position # None => EntersAfterSignal(position)
  /\ \A k \in DOMAIN trades :
       LET trade == trades[k]
       IN /\ EntersAfterSignal(trade)
          /\ \/ /\ Said(trade.exit_time, "EXIT_LONG")
                /\ trade.exit_price = SellPrice(dataset[trade.exit_time].open)
             \/ /\ Forced /\ k = Len(trades) /\ trade.exit_time = LastBar
                /\ trade.exit_price = SellPrice(dataset[LastBar].close)

(* One position at a time: round trips follow each other without overlap,  *)
(* and a position is opened after every completed trade has ended.         *)
TradesDoNotOverlap ==
  /\ \A k \in DOMAIN trades :
       /\ trades[k].entry_time <= trades[k].exit_time
       /\ k > 1 => trades[k - 1].exit_time < trades[k].entry_time
       /\ StillOpen => trades[k].exit_time < position.entry_time

(* A run whose costs do not exceed the price is never overdrawn, and its   *)
(* marked equity is never refused.                                         *)
ModestCosts == spec.slippage <= Basis /\ spec.commission <= Basis
NeverOverdrawn ==
  ModestCosts => cash >= 0 /\ stage # "failed"

=============================================================================
