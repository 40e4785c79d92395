--------------------------- MODULE BacktestProofs ---------------------------
(***************************************************************************)
(* What a backtest run guarantees for every dataset, specification and     *)
(* strategy: that its fills follow its signals, its round trips each       *)
(* other and its cash its trades, and that the figures drawn from it are   *)
(* of their types; and for the built-in strategies that no position        *)
(* outlives the rule of the one that holds it.                             *)
(***************************************************************************)
EXTENDS StrategyBacktest, FiniteFolds

(* Every variable but the figures.                                         *)
AccountTypes ==
  /\ spec \in Specs
  /\ \E n \in Lengths : dataset \in [1..n -> Candles]
  /\ stage \in {"ready", "loop", "closed", "done", "rejected", "failed"}
  /\ index \in 0..LastBar
  /\ answers \in Seq(Actions)
  /\ cash \in Money
  /\ position \in OpenPosition \cup {None}
  /\ trades \in Seq(Trade)
  /\ curve \in Seq([time : Nat, equity : Money])
  /\ exposed \in Nat

(* The bar the loop has come to, and that nothing is dated after it.       *)
Progress ==
  /\ stage \in {"ready", "rejected"} =>
       position = None /\ trades = <<>> /\ answers = <<>>
  /\ stage \notin {"ready", "rejected"} =>
       index = RequiredHistory + 1 + Len(answers)
  /\ stage \in {"closed", "done", "failed"} => index = LastBar
  /\ position # None => position.entry_time <= index
  /\ \A k \in DOMAIN trades : trades[k].exit_time <= index

AccountInv == AccountTypes /\ Progress /\ FillsFollowSignals /\ TradesDoNotOverlap

-----------------------------------------------------------------------------
(* The dataset is a sequence of candles with natural prices.               *)
LEMMA DatasetType ==
  ASSUME AccountTypes
  PROVE  /\ dataset \in Seq(Candles) /\ LastBar \in Nat
         /\ \A i \in 1..LastBar : /\ dataset[i].open \in Nat \ {0}
                               /\ dataset[i].close \in Nat \ {0}
<1>1. PICK n \in Lengths : dataset \in [1..n -> Candles]
  BY DEF AccountTypes
<1>2. n \in Nat
  BY LengthsAssumption
<1>3. dataset \in Seq(Candles) /\ LastBar = n
  BY <1>1, <1>2 DEF LastBar
<1>4. \A i \in 1..n : dataset[i] \in [open : Nat \ {0}, close : Nat \ {0}]
  BY <1>1, CandlesAssumption
<1> QED
  BY <1>2, <1>3, <1>4

(* The specification's numbers are what the assumption says.               *)
LEMMA SpecType ==
  ASSUME AccountTypes
  PROVE  /\ spec.initial_cash \in Nat /\ spec.quantity \in Nat
         /\ spec.commission \in Nat /\ spec.slippage \in Nat
         /\ spec.initial_cash > 0 /\ spec.quantity > 0 /\ Basis \in Nat
         /\ spec.force_close_at_end \in BOOLEAN
BY SpecsAssumption, NumbersAssumption DEF AccountTypes, BacktestSpec

(* Products of the model's amounts are integers.                           *)
LEMMA AmountTypes ==
  ASSUME AccountTypes
  PROVE  /\ \A p \in Nat : BuyPrice(p) \in Nat /\ SellPrice(p) \in Int
         /\ \A p \in Int : /\ Cost(p) \in Int /\ Notional(p) \in Int
                           /\ Outlay(p) \in Int /\ Proceeds(p) \in Int
         /\ \A p \in Nat : Mark(p) \in Nat
<1>1. /\ spec.quantity \in Nat /\ spec.commission \in Nat
      /\ spec.slippage \in Nat /\ Basis \in Nat
  BY SpecType
<1>2. \A a, b \in Int : a * b \in Int
  OBVIOUS
<1>3. \A a, b \in Nat : a * b \in Nat
  OBVIOUS
<1>4. \A p \in Nat : BuyPrice(p) \in Nat /\ SellPrice(p) \in Int
  <2>1. Basis + spec.slippage \in Nat /\ Basis - spec.slippage \in Int
    BY <1>1
  <2> QED
    BY <1>2, <1>3, <2>1 DEF BuyPrice, SellPrice
<1>5. \A p \in Int : Cost(p) \in Int /\ Notional(p) \in Int
  BY <1>1, <1>2 DEF Cost, Notional
<1>6. \A p \in Int : Outlay(p) \in Int /\ Proceeds(p) \in Int
  BY <1>5 DEF Outlay, Proceeds
<1>7. \A p \in Nat : Mark(p) \in Nat
  BY <1>1, <1>3 DEF Mark
<1> QED
  BY <1>4, <1>5, <1>6, <1>7

-----------------------------------------------------------------------------
(* The trade a close writes.                                               *)
LEMMA RoundTripType ==
  ASSUME AccountTypes, position # None,
         NEW time \in Nat, NEW raw \in Nat, Close(time, raw)
  PROVE  /\ cash' \in Money /\ trades' \in Seq(Trade)
         /\ trades' = Append(trades,
                             RoundTrip(position, time, SellPrice(raw)))
         /\ RoundTrip(position, time, SellPrice(raw)) \in Trade
<1> DEFINE exit == SellPrice(raw)
<1>1. /\ position.entry_time \in Nat /\ position.entry_price \in Nat
      /\ cash \in Int /\ trades \in Seq(Trade)
  BY DEF AccountTypes, OpenPosition, Money
<1>2. exit \in Int
  BY AmountTypes
<1> HIDE DEF exit
<1>3. /\ Notional(exit) \in Int /\ Notional(position.entry_price) \in Int
      /\ Cost(exit) \in Int /\ Cost(position.entry_price) \in Int
      /\ Proceeds(exit) \in Int
  <2>1. position.entry_price \in Int
    BY <1>1
  <2> QED
    BY <1>2, <2>1, AmountTypes
<1>4. RoundTrip(position, time, exit) \in Trade
  <2> DEFINE gross == Notional(exit) - Notional(position.entry_price)
             cost == Cost(position.entry_price) + Cost(exit)
  <2>1. gross \in Int /\ cost \in Int
    BY <1>3
  <2>2. RoundTrip(position, time, exit) =
          [ entry_time |-> position.entry_time, exit_time |-> time,
            entry_price |-> position.entry_price, exit_price |-> exit,
            gross_pnl |-> gross, cost |-> cost ]
    BY DEF RoundTrip
  <2> HIDE DEF gross, cost
  <2> QED
    BY <1>1, <1>2, <2>1, <2>2 DEF Trade, Money
<1>5. /\ cash' = cash + Proceeds(exit)
      /\ trades' = Append(trades, RoundTrip(position, time, exit))
  BY DEF Close, exit
<1>6. cash' \in Money /\ trades' \in Seq(Trade)
  BY <1>1, <1>3, <1>4, <1>5 DEF Money
<1> QED
  BY <1>4, <1>5, <1>6 DEF exit

(* The point a mark writes.                                                *)
LEMMA MarkTypes ==
  ASSUME AccountTypes, MarkToMarket, index < LastBar, cash' \in Money
  PROVE  /\ curve' \in Seq([time : Nat, equity : Money])
         /\ exposed' \in Nat
<1>1. index \in Nat /\ LastBar \in Nat /\ index + 1 \in 1..LastBar
  BY DatasetType DEF AccountTypes
<1>2. Mark(NextCandle.close) \in Nat
  BY <1>1, DatasetType, AmountTypes DEF NextCandle
<1> DEFINE extra == IF position' = None THEN 0 ELSE Mark(NextCandle.close)
<1>3. cash' + extra \in Int
  BY <1>2 DEF Money
<1>4. curve' = Append(curve, [time |-> index + 1, equity |-> cash' + extra])
  BY DEF MarkToMarket
<1> HIDE DEF extra
<1>5. curve \in Seq([time : Nat, equity : Money])
  BY DEF AccountTypes
<1>6. [time |-> index + 1, equity |-> cash' + extra] \in
        [time : Nat, equity : Money]
  BY <1>1, <1>3 DEF Money
<1>7. curve' \in Seq([time : Nat, equity : Money])
  BY <1>4, <1>5, <1>6
<1>8. exposed' \in Nat
  <2>1. exposed' = exposed \/ exposed' = exposed + 1
    <3>1. exposed \in Nat
      BY DEF AccountTypes
    <3>2. exposed' = exposed + (IF position' = None THEN 0 ELSE 1)
      BY DEF MarkToMarket
    <3> QED
      BY <3>1, <3>2
  <2> QED
    BY <2>1 DEF AccountTypes
<1> QED
  BY <1>7, <1>8

(* The three things a bar can do to the account.                           *)
LEMMA BarTypes ==
  ASSUME AccountTypes, NEW signal \in Actions, Bar(signal)
  PROVE  AccountTypes'
<1>1. /\ index \in Nat /\ index + 1 \in 1..LastBar /\ LastBar \in Nat
      /\ NextCandle.open \in Nat
  BY DatasetType DEF AccountTypes, Bar, NextCandle
<1>2. cash \in Int /\ trades \in Seq(Trade)
  BY DEF AccountTypes, Money
<1>3. /\ cash' \in Money /\ trades' \in Seq(Trade)
      /\ position' \in OpenPosition \cup {None}
  <2>1. CASE Enter
    <3>1. BuyPrice(NextCandle.open) \in Nat
      BY <1>1, AmountTypes
    <3>2. Outlay(BuyPrice(NextCandle.open)) \in Int
      BY <3>1, AmountTypes
    <3> QED
      BY <1>1, <1>2, <2>1, <3>1, <3>2 DEF Enter, OpenPosition, Money
  <2>2. CASE Exit
    BY <1>1, <2>2, RoundTripType DEF Exit
  <2>3. CASE UNCHANGED <<cash, position, trades>>
    BY <1>2, <2>3 DEF AccountTypes
  <2> QED
    BY <2>1, <2>2, <2>3 DEF Bar
<1>4. /\ curve' \in Seq([time : Nat, equity : Money])
      /\ exposed' \in Nat
  BY <1>3, MarkTypes DEF Bar
<1>5. answers' \in Seq(Actions)
  BY DEF Bar, AccountTypes
<1>6. UNCHANGED <<spec, dataset, stage>> /\ index' = index + 1
  BY DEF Bar, inputs
<1>7. LastBar' = LastBar
  BY <1>6 DEF LastBar
<1>8. index' \in 0..LastBar'
  BY <1>1, <1>6, <1>7
<1> QED
  BY <1>3, <1>4, <1>5, <1>6, <1>8 DEF AccountTypes

(* Every step keeps the types.                                             *)
LEMMA NextKeepsTypes == AccountTypes /\ [Next]_vars => AccountTypes'
<1> SUFFICES ASSUME AccountTypes, [Next]_vars
             PROVE  AccountTypes'
  OBVIOUS
<1>1. CASE Reject
  BY <1>1 DEF Reject, AccountTypes, inputs, account, LastBar
<1>2. CASE Begin
  <2>1. LastBar \in Nat /\ LastBar > RequiredHistory
    BY <1>2, DatasetType DEF Begin
  <2>2. RequiredHistory + 1 \in 0..LastBar
    BY <2>1, NumbersAssumption
  <2> QED
    BY <1>2, <2>2 DEF Begin, AccountTypes, inputs, account, LastBar
<1>3. ASSUME NEW signal \in Actions, Bar(signal)
      PROVE  AccountTypes'
  BY <1>3, BarTypes
<1>4. CASE ForceClose
  <2>1. LastBar \in Nat /\ LastBar \in 1..LastBar /\ dataset[LastBar].close \in Nat
    <3>1. LastBar \in Nat /\ LastBar \in 1..LastBar
      BY DatasetType, LengthsAssumption DEF AccountTypes, LastBar
    <3> QED
      BY <3>1, DatasetType
  <2>2. cash' \in Money /\ trades' \in Seq(Trade)
    BY <1>4, <2>1, RoundTripType DEF ForceClose, MustClose
  <2>3. curve' \in Seq([time : Nat, equity : Money])
    BY <1>4, <2>1, <2>2 DEF ForceClose, AccountTypes
  <2> QED
    BY <1>4, <2>2, <2>3 DEF ForceClose, AccountTypes, inputs, LastBar
<1>5. CASE Measure
  <2>1. stage' \in {"done", "failed"}
    BY <1>5 DEF Measure
  <2> QED
    BY <1>5, <2>1 DEF Measure, AccountTypes, inputs, account, LastBar
<1>6. CASE UNCHANGED vars
  BY <1>6 DEF vars, AccountTypes, inputs, account, LastBar
<1> QED
  BY <1>1, <1>2, <1>3, <1>4, <1>5, <1>6 DEF Next

-----------------------------------------------------------------------------
(* The answers of the strategy are only appended to.                       *)
Grows ==
  /\ UNCHANGED <<spec, dataset>>
  /\ \/ UNCHANGED answers
     \/ \E signal \in Actions : answers' = Append(answers, signal)

(* A signal that was given is given for good, at unchanged prices.         *)
LEMMA GrowthKeeps ==
  ASSUME AccountTypes, Grows
  PROVE  /\ LastBar' = LastBar
         /\ \A time, signal : Said(time, signal) => Said(time, signal)'
         /\ \A p : BuyPrice(p)' = BuyPrice(p) /\ SellPrice(p)' = SellPrice(p)
         /\ \A fill : EntersAfterSignal(fill) => EntersAfterSignal(fill)'
<1>1. answers \in Seq(Actions)
  BY DEF AccountTypes
<1>2. LastBar' = LastBar
  BY DEF Grows, LastBar
<1>3. \A time, signal : Said(time, signal) => Said(time, signal)'
  <2>1. CASE answers' = answers
    BY <2>1 DEF Said
  <2>2. ASSUME NEW s \in Actions, answers' = Append(answers, s)
        PROVE  \A time, signal : Said(time, signal) => Said(time, signal)'
    <3>1. \A j \in DOMAIN answers :
            j \in DOMAIN answers' /\ answers'[j] = answers[j]
      BY <1>1, <2>2
    <3> QED
      BY <3>1 DEF Said
  <2> QED
    BY <2>1, <2>2 DEF Grows
<1>4. \A p : BuyPrice(p)' = BuyPrice(p) /\ SellPrice(p)' = SellPrice(p)
  BY DEF Grows, BuyPrice, SellPrice
<1>5. \A fill : EntersAfterSignal(fill) => EntersAfterSignal(fill)'
  BY <1>3, <1>4 DEF Grows, EntersAfterSignal
<1> QED
  BY <1>2, <1>3, <1>4, <1>5

(* The bar's signal is the one a fill at the next bar refers to.           *)
LEMMA SignalIsSaid ==
  ASSUME AccountInv, NEW signal \in Actions, Bar(signal),
         NEW time, time = index + 1
  PROVE  Said(time, signal)'
<1>1. /\ answers \in Seq(Actions) /\ answers' = Append(answers, signal)
      /\ index \in Nat /\ stage = "loop"
  BY DEF AccountInv, AccountTypes, Bar
<1>2. index = RequiredHistory + 1 + Len(answers)
  BY <1>1 DEF AccountInv, Progress
<1>3. time - 1 - RequiredHistory = Len(answers) + 1
  BY <1>1, <1>2, NumbersAssumption
<1>4. /\ Len(answers) + 1 \in DOMAIN answers'
      /\ answers'[Len(answers) + 1] = signal
  BY <1>1
<1> QED
  BY <1>3, <1>4 DEF Said

(* What is required of the k-th trade.                                     *)
FollowsSignals(trade) ==
  /\ EntersAfterSignal(trade)
  /\ Said(trade.exit_time, "EXIT_LONG")
  /\ trade.exit_price = SellPrice(dataset[trade.exit_time].open)

(* A growing run keeps what the trades so far rest on.                     *)
LEMMA FollowingIsKept ==
  ASSUME AccountTypes, Grows, NEW trade, FollowsSignals(trade)
  PROVE  FollowsSignals(trade)'
BY GrowthKeeps DEF FollowsSignals, Grows

(* While nothing is forced, the two properties read as follows.            *)
Settled ==
  /\ \A held : held = position /\ held # None => EntersAfterSignal(held)
  /\ \A k \in DOMAIN trades :
       /\ \A trade : trade = trades[k] => FollowsSignals(trade)
       /\ trades[k].entry_time <= trades[k].exit_time
       /\ k > 1 => trades[k - 1].exit_time < trades[k].entry_time
       /\ position # None => trades[k].exit_time < position.entry_time

LEMMA SettledIsSafe ==
  ASSUME ~Forced
  PROVE  Settled <=> FillsFollowSignals /\ TradesDoNotOverlap
<1>1. ASSUME Settled
      PROVE  FillsFollowSignals
  BY <1>1 DEF Settled, FillsFollowSignals, FollowsSignals
<1>2. ASSUME Settled
      PROVE  TradesDoNotOverlap
  BY <1>2 DEF Settled, TradesDoNotOverlap, StillOpen
<1>3. ASSUME FillsFollowSignals, TradesDoNotOverlap
      PROVE  Settled
  <2>1. position # None => EntersAfterSignal(position)
    BY <1>3 DEF FillsFollowSignals
  <2>2. ASSUME NEW k \in DOMAIN trades
        PROVE  FollowsSignals(trades[k])
    BY <1>3 DEF FillsFollowSignals, FollowsSignals
  <2>3. ASSUME NEW k \in DOMAIN trades
        PROVE  /\ trades[k].entry_time <= trades[k].exit_time
               /\ k > 1 => trades[k - 1].exit_time < trades[k].entry_time
               /\ position # None =>
                    trades[k].exit_time < position.entry_time
    BY <1>3 DEF TradesDoNotOverlap, StillOpen
  <2> QED
    BY <2>1, <2>2, <2>3 DEF Settled
<1> QED
  BY <1>1, <1>2, <1>3

(* No trade is dated after the bar the loop has come to.                   *)
LEMMA TradeDates ==
  ASSUME AccountInv, NEW k \in DOMAIN trades
  PROVE  trades[k].exit_time \in Nat /\ trades[k].exit_time <= index
<1>1. trades[k] \in Trade
  BY DEF AccountInv, AccountTypes
<1>2. trades[k].exit_time <= index
  BY DEF AccountInv, Progress
<1> QED
  BY <1>1, <1>2 DEF Trade

(* An entry keeps the account settled.                                     *)
LEMMA EnterKeepsSettled ==
  ASSUME AccountInv, Settled, Grows, Enter, NEW time, time = index + 1,
         Said(time, "ENTER_LONG")', AccountTypes'
  PROVE  Settled'
<1>1. PICK opened : opened = [ entry_time |-> time,
                               entry_price |-> BuyPrice(dataset[time].open) ]
  OBVIOUS
<1>2. position' = opened /\ trades' = trades
  BY <1>1 DEF Enter, NextCandle
<1>3. EntersAfterSignal(opened)'
  <2>1. BuyPrice(dataset[time].open)' = BuyPrice(dataset[time].open)
    BY DEF Grows, BuyPrice
  <2> QED
    BY <1>1, <2>1 DEF EntersAfterSignal
<1>4. ASSUME NEW k \in DOMAIN trades, NEW trade, trade = trades[k]
      PROVE  FollowsSignals(trade)'
  BY <1>4, FollowingIsKept DEF Settled, AccountInv
<1>5. ASSUME NEW k \in DOMAIN trades
      PROVE  trades[k].exit_time < opened.entry_time
  <2>1. trades[k].exit_time <= index /\ trades[k].exit_time \in Nat
    BY TradeDates
  <2>2. index \in Nat
    BY DatasetType DEF AccountInv, AccountTypes
  <2> QED
    BY <1>1, <2>1, <2>2
<1> QED
  BY <1>2, <1>3, <1>4, <1>5 DEF Settled

(* The trade of a close follows the earlier ones.                          *)
LEMMA CloseFollows ==
  ASSUME AccountInv, Settled, position # None, NEW time \in Nat,
         index <= time, NEW raw \in Nat, Close(time, raw)
  PROVE  \A k \in DOMAIN trades' :
           /\ trades'[k].entry_time <= trades'[k].exit_time
           /\ trades'[k].exit_time <= time
           /\ k > 1 => trades'[k - 1].exit_time < trades'[k].entry_time
<1>t. AccountTypes
  BY DEF AccountInv
<1>1. PICK last \in Trade :
        /\ last = RoundTrip(position, time, SellPrice(raw))
        /\ trades' = Append(trades, last)
  BY <1>t, RoundTripType
<1>2. /\ last.entry_time = position.entry_time /\ last.exit_time = time
      /\ position.entry_time <= index /\ position.entry_time \in Nat
      /\ index \in Nat /\ trades \in Seq(Trade)
  <2>1. last.entry_time = position.entry_time /\ last.exit_time = time
    BY <1>1 DEF RoundTrip
  <2>2. /\ position.entry_time <= index /\ position.entry_time \in Nat
    BY DEF AccountInv, AccountTypes, Progress, OpenPosition
  <2>3. index \in Nat /\ trades \in Seq(Trade)
    BY DatasetType DEF AccountInv, AccountTypes
  <2> QED
    BY <2>1, <2>2, <2>3
<1>3. ASSUME NEW k \in DOMAIN trades
      PROVE  /\ trades[k].entry_time <= trades[k].exit_time
             /\ trades[k].exit_time <= time
             /\ trades[k].exit_time < position.entry_time
             /\ k > 1 => trades[k - 1].exit_time < trades[k].entry_time
  <2>1. trades[k].exit_time <= index /\ trades[k].exit_time \in Nat
    BY TradeDates
  <2> QED
    BY <1>2, <2>1 DEF Settled
<1>4. /\ trades \in Seq(Trade)
      /\ DOMAIN trades' = 1..Len(trades) + 1
      /\ \A k \in DOMAIN trades : trades'[k] = trades[k]
      /\ trades'[Len(trades) + 1] = last
  BY <1>1, <1>2
<1>5. ASSUME NEW k \in DOMAIN trades', k # Len(trades) + 1
      PROVE  /\ k \in DOMAIN trades /\ trades'[k] = trades[k]
             /\ k > 1 => trades'[k - 1] = trades[k - 1]
  BY <1>4, <1>5
<1>6. ASSUME Len(trades) + 1 > 1
      PROVE  trades'[Len(trades)].exit_time < last.entry_time
  <2>1. Len(trades) \in DOMAIN trades
    BY <1>4, <1>6
  <2> QED
    BY <1>2, <1>3, <1>4, <2>1
<1>7. ASSUME NEW k \in DOMAIN trades', k = Len(trades) + 1
      PROVE  /\ trades'[k].entry_time <= trades'[k].exit_time
             /\ trades'[k].exit_time <= time
             /\ k > 1 => trades'[k - 1].exit_time < trades'[k].entry_time
  <2>1. k - 1 = Len(trades)
    BY <1>2, <1>7
  <2> QED
    BY <1>2, <1>4, <1>6, <1>7, <2>1
<1> QED
  BY <1>3, <1>5, <1>7

(* An exit keeps the account settled.                                      *)
LEMMA ExitKeepsSettled ==
  ASSUME AccountInv, Settled, Grows, Exit, NEW time \in Nat,
         time = index + 1, Said(time, "EXIT_LONG")', time \in 1..LastBar
  PROVE  Settled'
<1>t. AccountTypes
  BY DEF AccountInv
<1>1. PICK raw \in Nat : raw = dataset[time].open
  BY <1>t, DatasetType
<1>2. Close(time, raw) /\ position # None /\ position' = None
  BY <1>1 DEF Exit, NextCandle
<1>3. PICK last \in Trade :
        /\ last = RoundTrip(position, time, SellPrice(raw))
        /\ trades' = Append(trades, last)
  BY <1>t, <1>2, RoundTripType
<1>4. /\ index \in Nat /\ trades \in Seq(Trade)
  BY <1>t, DatasetType DEF AccountTypes
<1>5. FollowsSignals(last)'
  <2>1. PICK held : held = position
    OBVIOUS
  <2>2. EntersAfterSignal(held)'
    BY <1>t, <1>2, <2>1, GrowthKeeps DEF Settled
  <2>3. /\ last.entry_time = held.entry_time
        /\ last.entry_price = held.entry_price
        /\ last.exit_time = time /\ last.exit_price = SellPrice(raw)
    BY <1>3, <2>1 DEF RoundTrip
  <2>4. EntersAfterSignal(last)'
    BY <2>2, <2>3 DEF EntersAfterSignal
  <2>5. last.exit_price = SellPrice(dataset[last.exit_time].open)'
    BY <1>1, <2>3 DEF Grows, SellPrice
  <2> QED
    BY <2>3, <2>4, <2>5 DEF FollowsSignals
<1>6. ASSUME NEW k \in DOMAIN trades', NEW trade, trade = trades'[k]
      PROVE  FollowsSignals(trade)'
  <2>1. CASE k = Len(trades) + 1
    <3>1. trade = last
      BY <1>3, <1>4, <1>6, <2>1
    <3> QED
      BY <1>5, <3>1
  <2>2. CASE k # Len(trades) + 1
    <3>1. k \in DOMAIN trades /\ trade = trades[k]
      BY <1>3, <1>4, <1>6, <2>2
    <3> QED
      BY <1>t, <3>1, FollowingIsKept DEF Settled
  <2> QED
    BY <2>1, <2>2
<1>7. index <= time
  BY <1>4
<1>8. \A k \in DOMAIN trades' :
        /\ trades'[k].entry_time <= trades'[k].exit_time
        /\ k > 1 => trades'[k - 1].exit_time < trades'[k].entry_time
  BY <1>2, <1>7, CloseFollows
<1> QED
  BY <1>2, <1>6, <1>8 DEF Settled

(* Every bar keeps the invariant.                                          *)
LEMMA BarKeepsInv ==
  ASSUME AccountInv, NEW signal \in Actions, Bar(signal)
  PROVE  AccountInv'
<1>t. AccountTypes /\ AccountTypes'
  BY BarTypes DEF AccountInv
<1>1. /\ index \in Nat /\ index' = index + 1 /\ index + 1 \in 1..LastBar
      /\ stage = "loop" /\ stage' = "loop"
      /\ answers' = Append(answers, signal) /\ answers \in Seq(Actions)
  BY <1>t, DatasetType DEF AccountTypes, Bar
<1>2. Grows /\ LastBar' = LastBar
  BY DEF Grows, Bar, inputs, LastBar
<1>3. ~Forced /\ ~Forced'
  BY <1>1 DEF Forced
<1>4. Settled
  BY <1>3, SettledIsSafe DEF AccountInv
<1>5. PICK time \in Nat : time = index + 1
  BY <1>1
<1>6. Said(time, signal)'
  BY <1>5, SignalIsSaid
<1>7. /\ Settled'
      /\ position' # None => position'.entry_time <= time
      /\ \A k \in DOMAIN trades' : trades'[k].exit_time <= time
  <2>1. CASE signal = "ENTER_LONG" /\ Enter
    <3>1. Settled'
      BY <1>t, <1>2, <1>4, <1>5, <1>6, <2>1, EnterKeepsSettled
    <3>2. position'.entry_time = time /\ trades' = trades
      BY <1>5, <2>1 DEF Enter
    <3>3. \A k \in DOMAIN trades : trades[k].exit_time <= time
      BY <1>1, <1>5, TradeDates
    <3> QED
      BY <1>5, <3>1, <3>2, <3>3
  <2>2. CASE signal = "EXIT_LONG" /\ Exit
    <3>1. Settled'
      BY <1>1, <1>2, <1>4, <1>5, <1>6, <2>2, ExitKeepsSettled
    <3>2. PICK raw \in Nat : raw = dataset[time].open
      BY <1>t, <1>1, <1>5, DatasetType
    <3>3. Close(time, raw) /\ position # None /\ position' = None
      BY <1>5, <2>2, <3>2 DEF Exit, NextCandle
    <3>4. \A k \in DOMAIN trades' : trades'[k].exit_time <= time
      BY <1>1, <1>4, <1>5, <3>3, CloseFollows
    <3> QED
      BY <3>1, <3>3, <3>4
  <2>3. CASE UNCHANGED <<cash, position, trades>>
    <3>1. Settled'
      <4>1. \A held : held = position' /\ held # None =>
              EntersAfterSignal(held)'
        BY <1>t, <1>2, <1>4, <2>3, GrowthKeeps DEF Settled
      <4>2. \A k \in DOMAIN trades' : \A trade :
              trade = trades'[k] => FollowsSignals(trade)'
        BY <1>t, <1>2, <1>4, <2>3, FollowingIsKept DEF Settled
      <4>3. \A k \in DOMAIN trades' :
              /\ trades'[k].entry_time <= trades'[k].exit_time
              /\ k > 1 => trades'[k - 1].exit_time < trades'[k].entry_time
              /\ position' # None =>
                   trades'[k].exit_time < position'.entry_time
        BY <1>4, <2>3 DEF Settled
      <4> QED
        BY <4>1, <4>2, <4>3 DEF Settled
    <3>2. position # None =>
            position.entry_time \in Nat /\ position.entry_time <= index
      BY <1>t DEF AccountInv, AccountTypes, Progress, OpenPosition
    <3> QED
      BY <1>1, <1>5, <2>3, <3>1, <3>2, TradeDates
  <2> QED
    BY <2>1, <2>2, <2>3 DEF Bar
<1>8. FillsFollowSignals' /\ TradesDoNotOverlap'
  <2>1. (Settled <=> FillsFollowSignals /\ TradesDoNotOverlap)'
    BY <1>3, SettledIsSafe, PTL
  <2> QED
    BY <1>7, <2>1
<1>9. Progress'
  <2>1. index' = RequiredHistory + 1 + Len(answers')
    BY <1>1, NumbersAssumption DEF AccountInv, Progress
  <2> QED
    BY <1>1, <1>5, <1>7, <2>1 DEF Progress
<1> QED
  BY <1>t, <1>8, <1>9 DEF AccountInv

(* The forced close keeps the invariant: its trade is the one that needs   *)
(* no exit signal.                                                         *)
LEMMA ForceCloseKeepsInv ==
  ASSUME AccountInv, ForceClose
  PROVE  AccountInv'
<1>t. AccountTypes /\ AccountTypes'
  BY NextKeepsTypes DEF AccountInv, Next
<1>1. /\ index = LastBar /\ index' = index /\ stage = "loop"
      /\ stage' = "closed" /\ UNCHANGED <<spec, dataset, answers, position>>
      /\ position # None /\ spec.force_close_at_end
  BY DEF ForceClose, MustClose, inputs
<1>2. Grows /\ LastBar' = LastBar
  BY <1>1 DEF Grows, LastBar
<1>3. ~Forced /\ Forced'
  BY <1>1 DEF Forced, MustClose
<1>4. Settled
  BY <1>3, SettledIsSafe DEF AccountInv
<1>5. PICK time \in Nat : time = LastBar /\ time \in 1..LastBar
  <2>1. LastBar \in Nat /\ LastBar >= 1
    BY <1>t, DatasetType, LengthsAssumption DEF AccountTypes, LastBar
  <2> QED
    BY <2>1
<1>6. PICK raw \in Nat : raw = dataset[time].close
  BY <1>t, <1>5, DatasetType
<1>7. Close(time, raw)
  BY <1>5, <1>6 DEF ForceClose
<1>8. PICK last \in Trade :
        /\ last = RoundTrip(position, time, SellPrice(raw))
        /\ trades' = Append(trades, last)
  BY <1>t, <1>1, <1>7, RoundTripType
<1>9. PICK held : held = position
  OBVIOUS
<1>10. EntersAfterSignal(held)'
  BY <1>t, <1>1, <1>2, <1>4, <1>9, GrowthKeeps DEF Settled
<1>11. /\ last.entry_time = held.entry_time
       /\ last.entry_price = held.entry_price
       /\ last.exit_time = time /\ last.exit_price = SellPrice(raw)
  BY <1>8, <1>9 DEF RoundTrip
<1>12. EntersAfterSignal(last)'
  BY <1>10, <1>11 DEF EntersAfterSignal
<1>13. last.exit_price = SellPrice(dataset[LastBar].close)'
  BY <1>1, <1>2, <1>5, <1>6, <1>11 DEF SellPrice
<1>14. trades \in Seq(Trade) /\ index \in Nat
  BY <1>t, <1>1, <1>5 DEF AccountTypes
<1>15. FillsFollowSignals'
  <2>1. EntersAfterSignal(position)'
    BY <1>1, <1>9, <1>10 DEF EntersAfterSignal, Said, BuyPrice
  <2>2. ASSUME NEW k \in DOMAIN trades', NEW trade, trade = trades'[k]
        PROVE  \/ FollowsSignals(trade)'
               \/ k = Len(trades') /\ trade = last
    <3>1. CASE k = Len(trades) + 1
      BY <1>8, <1>14, <2>2, <3>1
    <3>2. CASE k # Len(trades) + 1
      <4>1. k \in DOMAIN trades /\ trade = trades[k]
        BY <1>8, <1>14, <2>2, <3>2
      <4> QED
        BY <1>t, <1>2, <1>4, <4>1, FollowingIsKept DEF Settled
    <3> QED
      BY <3>1, <3>2
  <2>3. ASSUME NEW k \in DOMAIN trades', NEW trade, trade = trades'[k]
        PROVE  /\ EntersAfterSignal(trade)'
               /\ \/ /\ Said(trade.exit_time, "EXIT_LONG")'
                     /\ trade.exit_price =
                          SellPrice(dataset[trade.exit_time].open)'
                  \/ /\ Forced' /\ k = Len(trades')
                     /\ trade.exit_time = LastBar'
                     /\ trade.exit_price = SellPrice(dataset[LastBar].close)'
    BY <1>2, <1>3, <1>5, <1>11, <1>12, <1>13, <2>2, <2>3 DEF FollowsSignals
  <2> QED
    BY <2>1, <2>3
    DEF FillsFollowSignals, EntersAfterSignal, Said, BuyPrice, SellPrice
<1>16. \A k \in DOMAIN trades' :
         /\ trades'[k].entry_time <= trades'[k].exit_time
         /\ trades'[k].exit_time <= time
         /\ k > 1 => trades'[k - 1].exit_time < trades'[k].entry_time
  <2>1. index <= time
    BY <1>1, <1>5
  <2> QED
    BY <1>1, <1>4, <1>7, <2>1, CloseFollows
<1>17. TradesDoNotOverlap'
  BY <1>3, <1>16 DEF TradesDoNotOverlap, StillOpen
<1>18. Progress'
  BY <1>1, <1>2, <1>5, <1>16 DEF AccountInv, Progress
<1> QED
  BY <1>t, <1>15, <1>17, <1>18 DEF AccountInv

(* A step that leaves the account alone keeps what holds of it.            *)
LEMMA AccountUntouched ==
  ASSUME AccountInv, UNCHANGED <<inputs, answers, account>>,
         Forced' = Forced
  PROVE  FillsFollowSignals' /\ TradesDoNotOverlap'
<1>1. UNCHANGED <<spec, dataset, answers, position, trades>>
  BY DEF inputs, account
<1>2. FillsFollowSignals'
  BY <1>1 DEF AccountInv, FillsFollowSignals, EntersAfterSignal, Said,
              BuyPrice, SellPrice, LastBar
<1>3. TradesDoNotOverlap'
  BY <1>1 DEF AccountInv, TradesDoNotOverlap, StillOpen
<1> QED
  BY <1>2, <1>3

(* Every step keeps the invariant.                                         *)
LEMMA NextKeepsInv == AccountInv /\ [Next]_vars => AccountInv'
<1> SUFFICES ASSUME AccountInv, [Next]_vars
             PROVE  AccountInv'
  OBVIOUS
<1>t. AccountTypes'
  BY NextKeepsTypes DEF AccountInv
<1>1. CASE Reject
  <2>1. Forced' = Forced /\ Progress'
    BY <1>1 DEF Reject, Forced, AccountInv, Progress, account
  <2> QED
    BY <1>t, <1>1, <2>1, AccountUntouched DEF Reject, AccountInv
<1>2. CASE Begin
  <2>1. position = None /\ trades = <<>> /\ UNCHANGED <<position, trades>>
    BY <1>2 DEF Begin, AccountInv, Progress, account
  <2>2. FillsFollowSignals' /\ TradesDoNotOverlap'
    BY <2>1 DEF FillsFollowSignals, TradesDoNotOverlap, StillOpen
  <2>3. index' = RequiredHistory + 1 + Len(answers')
    BY <1>2, NumbersAssumption DEF Begin, AccountInv, Progress
  <2>4. Progress'
    BY <1>2, <2>1, <2>3 DEF Begin, Progress
  <2> QED
    BY <1>t, <2>2, <2>4 DEF AccountInv
<1>3. ASSUME NEW signal \in Actions, Bar(signal)
      PROVE  AccountInv'
  BY <1>3, BarKeepsInv
<1>4. CASE ForceClose
  BY <1>4, ForceCloseKeepsInv
<1>5. CASE Measure
  <2>1. /\ stage \in {"loop", "closed"} /\ stage' \in {"done", "failed"}
        /\ stage = "loop" => index = LastBar /\ ~MustClose
        /\ UNCHANGED <<inputs, index, answers, account>>
    BY <1>5 DEF Measure
  <2>2. MustClose' = MustClose
    BY <2>1 DEF MustClose, inputs, account
  <2>3. Forced' = Forced
    BY <2>1, <2>2 DEF Forced
  <2>4. Progress'
    BY <2>1 DEF AccountInv, Progress, inputs, account, LastBar
  <2> QED
    BY <1>t, <2>1, <2>3, <2>4, AccountUntouched DEF AccountInv
<1>6. CASE UNCHANGED vars
  <2>1. UNCHANGED <<inputs, answers, account, stage, index>>
    BY <1>6 DEF vars, inputs, account
  <2>2. Forced' = Forced /\ Progress'
    BY <2>1 DEF Forced, MustClose, AccountInv, Progress, inputs, account, LastBar
  <2> QED
    BY <1>t, <2>1, <2>2, AccountUntouched DEF AccountInv
<1> QED
  BY <1>1, <1>2, <1>3, <1>4, <1>5, <1>6 DEF Next

-----------------------------------------------------------------------------
(* With modest costs nothing is ever paid out of proceeds.                 *)
Solvent ==
  ModestCosts =>
    /\ cash >= 0
    /\ \A k \in DOMAIN curve : curve[k].equity >= 0
    /\ stage # "failed"

LEMMA ProceedsAreNatural ==
  ASSUME AccountTypes, ModestCosts, NEW raw \in Nat
  PROVE  Proceeds(SellPrice(raw)) \in Nat
<1>1. /\ spec.quantity \in Nat /\ spec.commission \in Nat
      /\ spec.slippage \in Nat /\ Basis \in Nat
  BY SpecType
<1>2. PICK kept \in Nat : kept = Basis - spec.slippage
  BY <1>1 DEF ModestCosts
<1>3. PICK price \in Nat : price = SellPrice(raw)
  BY <1>2 DEF SellPrice
<1>4. PICK amount \in Nat : amount = price * spec.quantity
  BY <1>1
<1>5. PICK rest \in Nat : rest = Basis - spec.commission
  BY <1>1 DEF ModestCosts
<1>6. amount * Basis - amount * spec.commission = amount * rest
  BY <1>1, <1>4, <1>5
<1>7. amount * rest \in Nat
  BY <1>4, <1>5
<1> QED
  BY <1>3, <1>4, <1>6, <1>7 DEF Proceeds, Notional, Cost

(* An element of a sequence.                                               *)
LEMMA ItemOfSeq ==
  ASSUME NEW S, NEW seq \in Seq(S), NEW k \in DOMAIN seq
  PROVE  seq[k] \in S
OBVIOUS

LEMMA CurvePoint ==
  ASSUME curve \in Seq([time : Nat, equity : Money]), NEW k \in DOMAIN curve
  PROVE  curve[k].equity \in Int
<1>1. curve[k] \in [time : Nat, equity : Money]
  BY ItemOfSeq
<1> QED
  BY <1>1 DEF Money

(* Every step keeps a run with modest costs solvent.                       *)
LEMMA NextKeepsSolvent ==
  AccountTypes /\ Solvent /\ [Next]_vars => Solvent'
<1> SUFFICES ASSUME AccountTypes, Solvent, [Next]_vars, ModestCosts'
             PROVE  /\ cash' >= 0 /\ stage' # "failed"
                    /\ \A k \in DOMAIN curve' : curve'[k].equity >= 0
  BY DEF Solvent
<1>t. AccountTypes'
  BY NextKeepsTypes
<1>1. UNCHANGED <<spec, dataset>>
  BY DEF Next, Reject, Begin, Bar, ForceClose, Measure, inputs, vars
<1>2. ModestCosts /\ cash >= 0 /\ stage # "failed"
      /\ \A k \in DOMAIN curve : curve[k].equity >= 0
  BY <1>1 DEF ModestCosts, Solvent
<1>3. ASSUME NEW time \in Nat, NEW equity \in Nat,
             curve' = Append(curve, [time |-> time, equity |-> equity])
      PROVE  \A k \in DOMAIN curve' : curve'[k].equity >= 0
  <2>1. curve \in Seq([time : Nat, equity : Money])
    BY DEF AccountTypes
  <2>2. /\ DOMAIN curve' = 1..Len(curve) + 1
        /\ \A k \in DOMAIN curve : curve'[k] = curve[k]
        /\ curve'[Len(curve) + 1].equity = equity
    BY <1>3, <2>1
  <2>3. \A k \in 1..Len(curve) + 1 : k \in DOMAIN curve \/ k = Len(curve) + 1
    BY <2>1
  <2> QED
    BY <1>2, <2>2, <2>3
<1>4. CASE Reject \/ Begin \/ UNCHANGED vars
  BY <1>2, <1>4 DEF Reject, Begin, vars, account
<1>5. ASSUME NEW signal \in Actions, Bar(signal)
      PROVE  /\ cash' >= 0 /\ stage' # "failed"
             /\ \A k \in DOMAIN curve' : curve'[k].equity >= 0
  <2>1. /\ index \in Nat /\ index + 1 \in 1..LastBar
        /\ NextCandle.open \in Nat /\ NextCandle.close \in Nat
    BY <1>5, DatasetType DEF AccountTypes, Bar, NextCandle
  <2>2. cash \in Int /\ cash' \in Int
    BY <1>t DEF AccountTypes, Money
  <2>3. cash' >= 0
    <3>1. CASE Enter
      <4>1. Outlay(BuyPrice(NextCandle.open)) \in Int
        <5>1. BuyPrice(NextCandle.open) \in Int
          BY <2>1, AmountTypes
        <5> QED
          BY <5>1, AmountTypes
      <4> QED
        BY <2>2, <3>1, <4>1 DEF Enter
    <3>2. CASE Exit
      <4>1. Proceeds(SellPrice(NextCandle.open)) \in Nat
        BY <1>2, <2>1, ProceedsAreNatural
      <4> QED
        BY <1>2, <2>2, <3>2, <4>1 DEF Exit, Close
    <3>3. CASE UNCHANGED cash
      BY <1>2, <3>3
    <3> QED
      BY <1>5, <3>1, <3>2, <3>3 DEF Bar
  <2>4. PICK extra \in Nat : curve' = Append(curve,
             [time |-> index + 1, equity |-> cash' + extra])
    <3>1. Mark(NextCandle.close) \in Nat
      BY <2>1, AmountTypes
    <3>2. CASE position' = None
      BY <1>5, <3>2 DEF Bar, MarkToMarket
    <3>3. CASE position' # None
      BY <1>5, <3>1, <3>3 DEF Bar, MarkToMarket
    <3> QED
      BY <3>2, <3>3
  <2>5. cash' + extra \in Nat /\ index + 1 \in Nat
    <3>1. PICK money \in Nat : money = cash'
      BY <2>2, <2>3
    <3>2. money + extra \in Nat
      OBVIOUS
    <3>3. index + 1 \in Nat
      BY <2>1
    <3> QED
      BY <3>1, <3>2, <3>3
  <2>6. stage' # "failed"
    BY <1>2, <1>5 DEF Bar
  <2> QED
    BY <1>3, <2>3, <2>4, <2>5, <2>6
<1>6. CASE ForceClose
  <2>1. PICK raw \in Nat : raw = dataset[LastBar].close /\ LastBar \in Nat
    <3>1. LastBar \in Nat /\ LastBar \in 1..LastBar
      BY DatasetType, LengthsAssumption DEF AccountTypes, LastBar
    <3> QED
      BY <3>1, DatasetType
  <2>2. Proceeds(SellPrice(raw)) \in Nat
    BY <1>2, <2>1, ProceedsAreNatural
  <2>3. cash' = cash + Proceeds(SellPrice(raw)) /\ cash \in Int
    BY <1>6, <2>1 DEF ForceClose, Close, AccountTypes, Money
  <2>4. cash' \in Nat
    BY <1>2, <2>2, <2>3
  <2>5. curve' = Append(curve, [time |-> LastBar, equity |-> cash'])
        /\ stage' # "failed"
    BY <1>6 DEF ForceClose
  <2> QED
    BY <1>3, <2>1, <2>4, <2>5
<1>7. CASE Measure
  <2>1. UNCHANGED <<cash, curve>>
    BY <1>7 DEF Measure, account
  <2>2. stage' # "failed"
    <3>1. ~ \E k \in DOMAIN curve : curve[k].equity < 0
      <4>1. ASSUME NEW k \in DOMAIN curve
            PROVE  curve[k].equity \in Int
        <5>1. curve \in Seq([time : Nat, equity : Money])
          BY DEF AccountTypes
        <5> QED
          BY <5>1, CurvePoint
      <4> QED
        BY <1>2, <4>1
    <3> QED
      BY <1>7, <3>1 DEF Measure
  <2> QED
    BY <1>2, <2>1, <2>2
<1> QED
  BY <1>4, <1>5, <1>6, <1>7 DEF Next

-----------------------------------------------------------------------------
(* Sums of results and maxima of losses. *)

(* The order of losses by the peak they are taken of.                      *)
Steeper(d, e) == d.lost * e.of >= e.lost * d.of

LEMMA SteeperIsTransitive ==
  ASSUME NEW a \in Nat, NEW b \in Nat, NEW c \in Nat,
         NEW d \in Nat, NEW e \in Nat, NEW f \in Nat,
         d > 0, a * d >= c * b, c * f >= e * d
  PROVE  a * f >= e * b
<1>1. \A x, y, z \in Nat : x >= y => x * z >= y * z
  OBVIOUS
<1>2. (a * d) * f >= (c * b) * f /\ (c * f) * b >= (e * d) * b
  <2>1. a * d \in Nat /\ c * b \in Nat /\ c * f \in Nat /\ e * d \in Nat
    OBVIOUS
  <2> QED
    BY <1>1, <2>1
<1>3. /\ (a * d) * f = (a * f) * d /\ (c * b) * f = (c * f) * b
      /\ (e * d) * b = (e * b) * d
  OBVIOUS
<1>4. PICK x \in Nat, y \in Nat : x = a * f /\ y = e * b
  OBVIOUS
<1>5. PICK p \in Nat, q \in Nat, r \in Nat :
        p = (a * d) * f /\ q = (c * f) * b /\ r = (e * d) * b
  OBVIOUS
<1>6. x * d >= y * d
  <2>1. p = x * d /\ r = y * d /\ p >= q /\ q >= r
    BY <1>2, <1>3, <1>4, <1>5
  <2> QED
    BY <2>1
<1>7. x >= y
  <2> SUFFICES ASSUME y >= x + 1 PROVE FALSE
    OBVIOUS
  <2>1. y * d >= (x + 1) * d
    BY <1>1
  <2>2. (x + 1) * d = x * d + d
    OBVIOUS
  <2>3. PICK u \in Nat, v \in Nat : u = x * d /\ v = y * d
    OBVIOUS
  <2> QED
    BY <1>6, <2>1, <2>2, <2>3
<1> QED
  BY <1>4, <1>7

Losses == [ of : Nat \ {0}, lost : Nat ]

(* Of finitely many losses and one more, some is the steepest.             *)
LEMMA SteepestExists ==
  ASSUME NEW f, NEW first \in Losses, NEW n \in Nat,
         \A j \in 1..n : f[j] \in Losses
  PROVE  \E d \in { f[j] : j \in 1..n } \cup {first} :
           \A j \in 1..n : Steeper(d, f[j])
<1> DEFINE S(k) == { f[j] : j \in 1..k } \cup {first}
           Good == { k \in Nat : k <= n =>
                       \E d \in S(k) : \A j \in 1..k : Steeper(d, f[j]) }
<1>1. 0 \in Good
  OBVIOUS
<1>2. ASSUME NEW k \in Nat, k \in Good
      PROVE  k + 1 \in Good
  <2> SUFFICES ASSUME k + 1 <= n
               PROVE  \E d \in S(k + 1) : \A j \in 1..(k + 1) : Steeper(d, f[j])
    OBVIOUS
  <2>1. PICK d \in S(k) : \A j \in 1..k : Steeper(d, f[j])
    BY <1>2
  <2>2. 1..(k + 1) = 1..k \cup {k + 1} /\ k + 1 \in 1..n /\ 1..k \subseteq 1..n
    OBVIOUS
  <2>3. S(k + 1) = S(k) \cup {f[k + 1]}
    BY <2>2
  <2>4. d \in Losses /\ f[k + 1] \in Losses
    BY <2>2
  <2>5. PICK last \in Losses : last = f[k + 1]
    BY <2>4
  <2>6. /\ d.lost \in Nat /\ d.of \in Nat /\ d.of > 0
        /\ last.lost \in Nat /\ last.of \in Nat /\ last.of > 0
    BY <2>4 DEF Losses
  <2> HIDE DEF S
  <2>7. CASE Steeper(d, last)
    BY <2>1, <2>2, <2>3, <2>5, <2>7
  <2>8. CASE ~Steeper(d, last)
    <3>1. last.lost * d.of >= d.lost * last.of
      <4>1. PICK x \in Nat, y \in Nat : x = d.lost * last.of /\ y = last.lost * d.of
        BY <2>6
      <4>2. ~(x >= y)
        BY <2>8, <4>1 DEF Steeper
      <4> QED
        BY <4>1, <4>2
    <3>2. ASSUME NEW j \in 1..k
          PROVE  Steeper(last, f[j])
      <4>1. PICK loss \in Losses : loss = f[j]
        BY <2>2
      <4>2. loss.lost \in Nat /\ loss.of \in Nat
        BY DEF Losses
      <4>3. d.lost * loss.of >= loss.lost * d.of
        BY <2>1, <4>1 DEF Steeper
      <4>4. last.lost * loss.of >= loss.lost * last.of
        BY <2>6, <3>1, <4>2, <4>3, SteeperIsTransitive
      <4> QED
        BY <4>1, <4>4 DEF Steeper
    <3>3. Steeper(last, last)
      <4>1. PICK x \in Nat : x = last.lost * last.of
        BY <2>6
      <4> QED
        BY <4>1 DEF Steeper
    <3> QED
      BY <2>2, <2>3, <2>5, <3>2, <3>3
  <2> QED
    BY <2>7, <2>8
<1>3. \A k \in Nat : k \in Good
  <2> HIDE DEF Good
  <2> QED
    BY <1>1, <1>2, EveryNumber
<1>4. n \in Good /\ n <= n
  BY <1>3
<1> HIDE DEF S
<1>5. \E d \in S(n) : \A j \in 1..n : Steeper(d, f[j])
  BY <1>4
<1> QED
  BY <1>5 DEF S

(* The net result of trades, and of each of them.                          *)
NetOf(seq) == MapThenSumSet(LAMBDA k : NetPnl(seq[k]), DOMAIN seq)
NetsOf(seq) == [ k \in DOMAIN seq |-> NetPnl(seq[k]) ]

LEMMA NetIsSum ==
  ASSUME NEW seq \in Seq(Trade)
  PROVE  \E g : Sums(NetsOf(seq), SUBSET DOMAIN seq, g) /\ NetOf(seq) = g[DOMAIN seq]
<1> DEFINE IsSum(g) ==
             g = [ s \in SUBSET DOMAIN seq |->
                     IF s = {} THEN 0
                     ELSE NetPnl(seq[Choice(s)]) + g[s \ {Choice(s)}] ]
           iter == CHOOSE g : IsSum(g)
<1>1. NetOf(seq) = iter[DOMAIN seq]
  BY DEF NetOf, MapThenSumSet, MapThenFoldSet, Choice
<1>2. IsFiniteSet(DOMAIN seq)
  BY FS_Interval
<1>3. \A s \in SUBSET DOMAIN seq :
        s # {} => NetsOf(seq)[Choice(s)] = NetPnl(seq[Choice(s)])
  BY ChoiceIsPart DEF NetsOf
<1>4. ASSUME NEW g
      PROVE  IsSum(g) <=> Sums(NetsOf(seq), SUBSET DOMAIN seq, g)
  <2> DEFINE A(s) == IF s = {} THEN 0
                     ELSE NetPnl(seq[Choice(s)]) + g[s \ {Choice(s)}]
             B(s) == IF s = {} THEN 0
                     ELSE NetsOf(seq)[Choice(s)] + g[s \ {Choice(s)}]
  <2>1. \A s \in SUBSET DOMAIN seq : A(s) = B(s)
    BY <1>3
  <2>2. [ s \in SUBSET DOMAIN seq |-> A(s) ] = [ s \in SUBSET DOMAIN seq |-> B(s) ]
    <3> HIDE DEF A, B
    <3> QED
      BY <2>1
  <2> QED
    BY <2>2, SumsRead
<1>5. \E g : IsSum(g)
  BY <1>2, <1>4, SumsExist
<1>6. IsSum(iter)
  <2> HIDE DEF IsSum
  <2> QED
    BY <1>5
<1> HIDE DEF IsSum, iter
<1> QED
  BY <1>1, <1>4, <1>6

LEMMA NetTypes ==
  ASSUME NEW seq \in Seq(Trade)
  PROVE  Summable(NetsOf(seq), DOMAIN seq)
<1>1. \A k \in DOMAIN seq : seq[k] \in Trade
  OBVIOUS
<1>2. \A t \in Trade : NetPnl(t) \in Int
  BY DEF Trade, NetPnl, Money
<1> QED
  BY <1>1, <1>2, FS_Interval DEF NetsOf, Summable

LEMMA NetOfType ==
  ASSUME NEW seq \in Seq(Trade)
  PROVE  NetOf(seq) \in Int
<1>1. PICK g : Sums(NetsOf(seq), SUBSET DOMAIN seq, g) /\ NetOf(seq) = g[DOMAIN seq]
  BY NetIsSum
<1>2. AddsUp(NetsOf(seq), DOMAIN seq, g)
  BY <1>1, NetTypes, SumsTakeAny
<1> QED
  BY <1>1, <1>2 DEF AddsUp

LEMMA NetOfNone == NetOf(<<>>) = 0
<1>1. <<>> \in Seq(Trade) /\ DOMAIN <<>> = {}
  OBVIOUS
<1>2. PICK g : Sums(NetsOf(<<>>), SUBSET DOMAIN <<>>, g)
               /\ NetOf(<<>>) = g[DOMAIN <<>>]
  BY <1>1, NetIsSum
<1>3. g[{}] = 0
  BY <1>1, <1>2, SumsRead
<1> QED
  BY <1>1, <1>2, <1>3

(* A trade more adds its own result.                                       *)
LEMMA NetOfMore ==
  ASSUME NEW seq \in Seq(Trade), NEW t \in Trade
  PROVE  /\ NetOf(seq) \in Int
         /\ NetOf(Append(seq, t)) = NetOf(seq) + NetPnl(t)
<1> DEFINE more == Append(seq, t)
           D == DOMAIN seq
           n == Len(seq) + 1
<1>0. more \in Seq(Trade)
  OBVIOUS
<1>1. /\ n \in DOMAIN more /\ DOMAIN more = D \cup {n}
      /\ n \notin D /\ more[n] = t /\ \A k \in D : more[k] = seq[k]
  OBVIOUS
<1>2. PICK g : Sums(NetsOf(seq), SUBSET D, g) /\ NetOf(seq) = g[D]
  BY NetIsSum
<1>3. PICK h : Sums(NetsOf(more), SUBSET DOMAIN more, h)
               /\ NetOf(more) = h[DOMAIN more]
  <2> HIDE DEF more, D, n
  <2> QED
    BY <1>0, NetIsSum
<1>4. /\ g[{}] = 0 /\ \A s \in SUBSET D : g[s] \in Int
      /\ \A s \in SUBSET D : \A x \in s : g[s] = NetsOf(seq)[x] + g[s \ {x}]
  <2>1. AddsUp(NetsOf(seq), D, g)
    BY <1>2, NetTypes, SumsTakeAny
  <2> QED
    BY <2>1 DEF AddsUp
<1>5. /\ h[{}] = 0 /\ \A s \in SUBSET DOMAIN more : h[s] \in Int
      /\ \A s \in SUBSET DOMAIN more : \A x \in s :
           h[s] = NetsOf(more)[x] + h[s \ {x}]
  <2> HIDE DEF more, D, n
  <2>1. AddsUp(NetsOf(more), DOMAIN more, h)
    BY <1>0, <1>3, NetTypes, SumsTakeAny
  <2> QED
    BY <2>1 DEF AddsUp
<1>6. NetsOf(more)[n] = NetPnl(t) /\ \A k \in D : NetsOf(more)[k] = NetsOf(seq)[k]
  BY <1>1 DEF NetsOf
<1>7. IsFiniteSet(D)
  BY NetTypes DEF Summable
<1> HIDE DEF more, D, n
<1>8. \A s \in SUBSET D : g[s] = h[s]
  <2>1. AddsUp(NetsOf(seq), D, g)
    BY <1>4 DEF AddsUp
  <2>2. AddsUp(NetsOf(seq), D, h)
    BY <1>1, <1>5, <1>6 DEF AddsUp
  <2> QED
    BY <1>7, <2>1, <2>2, SumIsUnique
<1>9. NetOf(more) = NetPnl(t) + h[D]
  <2>1. (D \cup {n}) \ {n} = D
    BY <1>1
  <2>2. DOMAIN more \in SUBSET DOMAIN more /\ n \in DOMAIN more
    BY <1>1
  <2>3. h[DOMAIN more] = NetsOf(more)[n] + h[DOMAIN more \ {n}]
    BY <1>5, <2>2
  <2> QED
    BY <1>1, <1>3, <1>6, <2>1, <2>3
<1>10. NetPnl(t) \in Int /\ NetOf(seq) \in Int /\ NetOf(seq) = h[D]
  BY <1>2, <1>4, <1>8 DEF Trade, NetPnl, Money
<1> QED
  BY <1>9, <1>10 DEF more

-----------------------------------------------------------------------------
(* The figures. *)

LEMMA PeakTypes ==
  ASSUME AccountTypes, NEW k \in DOMAIN curve
  PROVE  /\ Peak(k) \in Nat /\ Peak(k) > 0
         /\ Peak(k) - curve[k].equity \in Nat
<1> DEFINE f == [ j \in DOMAIN curve |-> curve[j].equity ]
           S == {spec.initial_cash} \cup { f[j] : j \in 1..k }
<1>1. DOMAIN curve = 1..Len(curve) /\ \A j \in DOMAIN curve : f[j] \in Int
  <2>1. curve \in Seq([time : Nat, equity : Money])
    BY DEF AccountTypes
  <2>2. \A j \in DOMAIN curve : curve[j].equity \in Int
    BY <2>1, CurvePoint
  <2> QED
    BY <2>1, <2>2
<1>2. /\ k \in Nat /\ k \in 1..k /\ \A j \in 1..k : j \in DOMAIN curve
      /\ Len(curve) \in Nat
  <2>1. Len(curve) \in Nat
    BY DEF AccountTypes
  <2> QED
    BY <1>1, <2>1
<1>3. spec.initial_cash \in Nat /\ spec.initial_cash > 0
  BY SpecType
<1>4. S = {spec.initial_cash} \cup { curve[j].equity : j \in 1..k }
  BY <1>2
<1>5. f[k] = curve[k].equity
  OBVIOUS
<1> HIDE DEF f
<1>6. Max(S) \in S /\ \A x \in S : Max(S) >= x
  <2>1. \A j \in 1..k : f[j] \in Int
    BY <1>1, <1>2
  <2>2. k \in Nat /\ spec.initial_cash \in Int
    BY <1>2, <1>3
  <2>3. HasGreatest(S)
    BY <2>1, <2>2, GreatestExists, Zenon
  <2> HIDE DEF S
  <2> QED
    BY <2>3 DEF HasGreatest
<1>7. Peak(k) = Max(S)
  BY <1>4 DEF Peak
<1>8. Max(S) \in Int /\ Max(S) >= spec.initial_cash /\ Max(S) >= f[k]
  BY <1>1, <1>2, <1>3, <1>6
<1> HIDE DEF S
<1> QED
  BY <1>1, <1>3, <1>5, <1>7, <1>8

LEMMA DrawdownType ==
  ASSUME AccountTypes
  PROVE  MaxDrawdown \in [of : Nat, lost : Nat]
<1> DEFINE f == [ k \in DOMAIN curve |->
                    [of |-> Peak(k), lost |-> Peak(k) - curve[k].equity] ]
           first == [of |-> spec.initial_cash, lost |-> 0]
<1>1. DOMAIN curve = 1..Len(curve) /\ Len(curve) \in Nat
  BY DEF AccountTypes
<1>2. \A k \in 1..Len(curve) : f[k] \in Losses
  BY <1>1, PeakTypes DEF Losses
<1>3. first \in Losses
  BY SpecType DEF Losses
<1>4. Drawdowns = { f[k] : k \in 1..Len(curve) }
  BY <1>1 DEF Drawdowns
<1> HIDE DEF f, first
<1>5. \E d \in { f[k] : k \in 1..Len(curve) } \cup {first} :
        \A k \in 1..Len(curve) : Steeper(d, f[k])
  BY <1>1, <1>2, <1>3, SteepestExists
<1>6. PICK d \in Drawdowns \cup {first} :
        \A other \in Drawdowns : Steeper(d, other)
  BY <1>4, <1>5
<1>7. MaxDrawdown \in Drawdowns \cup {first}
  BY <1>6 DEF MaxDrawdown, Steeper, first
<1> QED
  BY <1>2, <1>3, <1>4, <1>7 DEF Losses

(* Every figure of a run that ends is of its type.                         *)
LEMMA MeasureTypes ==
  ASSUME AccountTypes, result \in Result \cup {None}, Measure
  PROVE  result' \in Result \cup {None}
<1>1. cash - spec.initial_cash \in Money
  BY SpecType DEF AccountTypes, Money
<1>2. Growth \in [initial : Nat, final : Money] \cup {None}
  BY SpecType DEF Growth, AccountTypes
<1>3. [points |-> exposed, of |-> Len(curve)] \in [points : Nat, of : Nat]
  BY DEF AccountTypes
<1>4. Outcome \in [ kind : {"CALCULATED_WITH_TRADES", "CALCULATED_NO_TRADES"},
                    no_signal : BOOLEAN ]
  BY DEF Outcome
<1>5. MaxDrawdown \in [of : Nat, lost : Nat]
  BY DrawdownType
<1> QED
  BY <1>1, <1>2, <1>3, <1>4, <1>5 DEF Measure, Result

-----------------------------------------------------------------------------
(* The account and the trade list. *)

Held == IF StillOpen THEN Outlay(position.entry_price) ELSE 0

LEMMA CashReads ==
  CashMatchesTrades <=> cash = spec.initial_cash + NetOf(trades) - Held
BY DEF CashMatchesTrades, NetOf, Held

(* What a round trip nets is what it brought less what it took.            *)
LEMMA RoundTripNets ==
  ASSUME AccountTypes, NEW held \in OpenPosition, NEW time, NEW exit \in Int
  PROVE  NetPnl(RoundTrip(held, time, exit))
           = Proceeds(exit) - Outlay(held.entry_price)
<1>1. held.entry_price \in Int
  BY DEF OpenPosition
<1>2. PICK a \in Int, b \in Int, c \in Int, d \in Int :
        /\ a = Notional(exit) /\ b = Notional(held.entry_price)
        /\ c = Cost(exit) /\ d = Cost(held.entry_price)
  BY <1>1, AmountTypes
<1>3. NetPnl(RoundTrip(held, time, exit)) = (a - b) - (d + c)
  BY <1>2 DEF NetPnl, RoundTrip
<1>4. Proceeds(exit) - Outlay(held.entry_price) = (a - c) - (b + d)
  BY <1>2 DEF Proceeds, Outlay
<1> QED
  BY <1>3, <1>4

(* A close moves the outlay of the position into the result of its trade.  *)
LEMMA CloseBalances ==
  ASSUME AccountTypes, CashMatchesTrades, StillOpen,
         NEW time \in Nat, NEW raw \in Nat, Close(time, raw)
  PROVE  cash' = spec.initial_cash + NetOf(trades')
<1>1. position # None /\ position \in OpenPosition
  BY DEF StillOpen, AccountTypes
<1>2. /\ trades' = Append(trades, RoundTrip(position, time, SellPrice(raw)))
      /\ RoundTrip(position, time, SellPrice(raw)) \in Trade
  BY <1>1, RoundTripType
<1>3. PICK exit \in Int : exit = SellPrice(raw)
  BY AmountTypes
<1>4. PICK last \in Trade : last = RoundTrip(position, time, exit)
  BY <1>2, <1>3
<1>5. NetPnl(last) = Proceeds(exit) - Outlay(position.entry_price)
  BY <1>1, <1>4, RoundTripNets
<1>6. NetOf(trades) \in Int /\ NetOf(trades') = NetOf(trades) + NetPnl(last)
  <2>1. trades \in Seq(Trade) /\ trades' = Append(trades, last)
    BY <1>2, <1>3, <1>4 DEF AccountTypes
  <2> QED
    BY <2>1, NetOfMore
<1>7. cash' = cash + Proceeds(exit)
  BY <1>3 DEF Close
<1>8. cash = spec.initial_cash + NetOf(trades) - Outlay(position.entry_price)
  BY CashReads DEF Held
<1>9. /\ Proceeds(exit) \in Int /\ Outlay(position.entry_price) \in Int
      /\ spec.initial_cash \in Int
  <2>1. position.entry_price \in Int
    BY <1>1 DEF OpenPosition
  <2> QED
    BY <2>1, SpecType, AmountTypes
<1> QED
  BY <1>5, <1>6, <1>7, <1>8, <1>9

LEMMA NextKeepsCash ==
  AccountTypes /\ CashMatchesTrades /\ [Next]_vars => CashMatchesTrades'
<1> SUFFICES ASSUME AccountTypes, CashMatchesTrades, [Next]_vars
             PROVE  CashMatchesTrades'
  OBVIOUS
<1>1. CashMatchesTrades' <=>
        cash' = spec'.initial_cash + NetOf(trades') - Held'
  <2>1. (CashMatchesTrades <=>
           cash = spec.initial_cash + NetOf(trades) - Held)'
    BY CashReads, PTL
  <2> QED
    BY <2>1
<1>2. spec' = spec
  BY DEF Next, Reject, Begin, Bar, ForceClose, Measure, inputs, vars
<1>3. \A p : Outlay(p)' = Outlay(p)
  BY <1>2 DEF Outlay, Notional, Cost
<1>4. /\ spec.initial_cash \in Int /\ NetOf(trades) \in Int /\ cash \in Int
      /\ trades \in Seq(Trade)
  <2>1. trades \in Seq(Trade) /\ cash \in Int
    BY DEF AccountTypes, Money
  <2>2. NetOf(trades) \in Int
    BY <2>1, NetOfType
  <2> QED
    BY <2>1, <2>2, SpecType
<1>5. ASSUME UNCHANGED <<cash, position, trades>>, StillOpen' = StillOpen
      PROVE  CashMatchesTrades'
  <2>1. Held' = Held
    BY <1>3, <1>5 DEF Held
  <2> QED
    BY <1>1, <1>2, <1>5, <2>1, CashReads
<1>6. CASE Reject \/ Begin
  BY <1>5, <1>6 DEF Reject, Begin, account, inputs, StillOpen, Forced
<1>7. ASSUME NEW signal \in Actions, Bar(signal)
      PROVE  CashMatchesTrades'
  <2>1. ~Forced /\ ~Forced'
    BY <1>7 DEF Bar, Forced
  <2>2. CASE Enter
    <3>1. PICK price : price = BuyPrice(NextCandle.open)
      OBVIOUS
    <3>2. /\ position = None /\ cash' = cash - Outlay(price) /\ trades' = trades
          /\ position' = [ entry_time |-> index + 1, entry_price |-> price ]
      BY <2>2, <3>1 DEF Enter
    <3>3. Held = 0
      BY <3>2 DEF Held, StillOpen
    <3>t. price \in Nat /\ index + 1 \in Nat
      <4>1. /\ index \in Nat /\ index + 1 \in 1..LastBar
            /\ NextCandle.open \in Nat
        BY <1>7, DatasetType DEF AccountTypes, Bar, NextCandle
      <4> QED
        BY <3>1, <4>1, AmountTypes
    <3>4. position' # None
      BY <3>t, <3>2, NoneAssumption
    <3>5. Held' = Outlay(price)
      <4>1. StillOpen' /\ position'.entry_price = price
        BY <2>1, <3>2, <3>4 DEF StillOpen
      <4> QED
        BY <1>3, <4>1 DEF Held
    <3>6. cash = spec.initial_cash + NetOf(trades)
      BY <1>4, <3>3, CashReads
    <3>7. Outlay(price) \in Int
      BY <3>t, AmountTypes
    <3> QED
      BY <1>1, <1>2, <1>4, <3>2, <3>5, <3>6, <3>7
  <2>3. CASE Exit
    <3>1. /\ position # None /\ position' = None
          /\ Close(index + 1, NextCandle.open)
      BY <2>3 DEF Exit
    <3>2. index + 1 \in Nat /\ NextCandle.open \in Nat
      <4>1. index \in Nat /\ index + 1 \in 1..LastBar
        BY <1>7, DatasetType DEF AccountTypes, Bar
      <4> QED
        BY <4>1, DatasetType DEF NextCandle
    <3>3. cash' = spec.initial_cash + NetOf(trades')
      BY <2>1, <3>1, <3>2, CloseBalances DEF StillOpen
    <3>4. Held' = 0
      BY <3>1 DEF Held, StillOpen
    <3>5. NetOf(trades') \in Int
      <4>1. AccountTypes'
        BY NextKeepsTypes
      <4>2. trades' \in Seq(Trade)
        BY <4>1 DEF AccountTypes
      <4> QED
        BY <4>2, NetOfType
    <3> QED
      BY <1>1, <1>2, <1>4, <3>3, <3>4, <3>5
  <2>4. CASE UNCHANGED <<cash, position, trades>>
    BY <1>5, <2>1, <2>4 DEF StillOpen
  <2> QED
    BY <1>7, <2>2, <2>3, <2>4 DEF Bar
<1>8. CASE ForceClose
  <2>1. /\ stage = "loop" /\ position # None /\ spec.force_close_at_end
        /\ Close(LastBar, dataset[LastBar].close) /\ stage' = "closed"
        /\ position' = position
    BY <1>8 DEF ForceClose, MustClose
  <2>2. PICK raw \in Nat : raw = dataset[LastBar].close /\ LastBar \in Nat
    <3>1. LastBar \in Nat /\ LastBar \in 1..LastBar
      BY DatasetType, LengthsAssumption DEF AccountTypes, LastBar
    <3> QED
      BY <3>1, DatasetType
  <2>3. StillOpen /\ ~StillOpen'
    BY <1>2, <2>1 DEF StillOpen, Forced, MustClose
  <2>4. cash' = spec.initial_cash + NetOf(trades')
    BY <2>1, <2>2, <2>3, CloseBalances
  <2>5. NetOf(trades') \in Int
    <3>1. AccountTypes'
      BY NextKeepsTypes
    <3>2. trades' \in Seq(Trade)
      BY <3>1 DEF AccountTypes
    <3> QED
      BY <3>2, NetOfType
  <2>6. Held' = 0
    BY <2>3 DEF Held
  <2> QED
    BY <1>1, <1>2, <1>4, <2>4, <2>5, <2>6
<1>9. CASE Measure
  <2>1. /\ stage \in {"loop", "closed"} /\ stage' \in {"done", "failed"}
        /\ stage = "loop" => ~MustClose
        /\ UNCHANGED <<cash, position, trades>>
    BY <1>9 DEF Measure, account
  <2>2. StillOpen' = StillOpen
    BY <1>2, <2>1 DEF StillOpen, Forced, MustClose
  <2> QED
    BY <1>5, <2>1, <2>2
<1>10. CASE UNCHANGED vars
  BY <1>5, <1>10 DEF vars, account, inputs, StillOpen, Forced, MustClose
<1> QED
  BY <1>6, <1>7, <1>8, <1>9, <1>10 DEF Next

-----------------------------------------------------------------------------
(* The invariants hold initially, hence always.                            *)
LEMMA InitEstablishes == Init => AccountInv /\ Solvent
<1> SUFFICES ASSUME Init
             PROVE  AccountInv /\ Solvent
  OBVIOUS
<1>1. /\ spec \in Specs /\ stage = "ready" /\ index = 0
      /\ answers = <<>> /\ cash = spec.initial_cash /\ position = None
      /\ trades = <<>> /\ curve = <<>> /\ exposed = 0
      /\ \E n \in Lengths : dataset \in [1..n -> Candles]
  BY DEF Init
<1>2. spec.initial_cash \in Nat
  BY <1>1, SpecsAssumption DEF BacktestSpec
<1>3. 0 \in 0..LastBar
  BY <1>1, LengthsAssumption DEF LastBar
<1>4. AccountTypes
  BY <1>1, <1>2, <1>3 DEF AccountTypes, Money
<1>5. DOMAIN trades = {} /\ DOMAIN curve = {}
  BY <1>1
<1>6. Progress /\ FillsFollowSignals /\ TradesDoNotOverlap
  BY <1>1, <1>5
  DEF Progress, FillsFollowSignals, TradesDoNotOverlap, StillOpen
<1>7. Solvent
  BY <1>1, <1>2, <1>5 DEF Solvent
<1> QED
  BY <1>4, <1>6, <1>7 DEF AccountInv

LEMMA InvariantsHold == Spec => [](AccountInv /\ Solvent)
<1>1. Init => AccountInv /\ Solvent
  BY InitEstablishes
<1>2. AccountInv /\ Solvent /\ [Next]_vars => (AccountInv /\ Solvent)'
  BY NextKeepsInv, NextKeepsSolvent DEF AccountInv
<1> QED
  BY <1>1, <1>2, PTL DEF Spec

(* No fill is earlier than the signal it answers, and each is at the price *)
(* of the bar it is dated: the run never looks ahead.                      *)
THEOREM NoLookAhead == Spec => []FillsFollowSignals
<1>1. AccountInv => FillsFollowSignals
  BY DEF AccountInv
<1> QED
  BY <1>1, InvariantsHold, PTL

(* A run never holds two positions at a time.                              *)
THEOREM OnePositionAtATime == Spec => []TradesDoNotOverlap
<1>1. AccountInv => TradesDoNotOverlap
  BY DEF AccountInv
<1> QED
  BY <1>1, InvariantsHold, PTL

(* A run with modest costs never spends cash it does not have and never    *)
(* ends in the refusal of a point of its drawdown curve.                   *)
THEOREM NoOverdraft == Spec => []NeverOverdrawn
<1>1. Solvent => NeverOverdrawn
  BY DEF Solvent, NeverOverdrawn
<1> QED
  BY <1>1, InvariantsHold, PTL

(* Every variable keeps its type, the figures of a finished run included:  *)
(* a highest equity and a steepest loss exist for every curve.             *)
THEOREM BacktestTypeCorrect == Spec => []TypeOK
<1> DEFINE Figured == result \in Result \cup {None}
<1>1. TypeOK <=> AccountTypes /\ Figured
  BY DEF TypeOK, AccountTypes
<1>2. Init => Figured
  BY DEF Init
<1>3. AccountTypes /\ Figured /\ [Next]_vars => Figured'
  <2> SUFFICES ASSUME AccountTypes, Figured, [Next]_vars
               PROVE  result' \in Result \cup {None}
    OBVIOUS
  <2>1. CASE Measure
    BY <2>1, MeasureTypes
  <2>2. CASE ~Measure
    BY <2>2 DEF Next, Reject, Begin, Bar, ForceClose, vars
  <2> QED
    BY <2>1, <2>2
<1>4. AccountInv => AccountTypes
  BY DEF AccountInv
<1> HIDE DEF Figured
<1> QED
  BY <1>1, <1>2, <1>3, <1>4, InvariantsHold, PTL DEF Spec

(* The cash is what the run started with and what its trades have netted,  *)
(* less what an open position has taken out of it.                         *)
THEOREM CashAndTradesAgree == Spec => []CashMatchesTrades
<1>1. Init => CashMatchesTrades
  <2> SUFFICES ASSUME Init PROVE CashMatchesTrades
    OBVIOUS
  <2>1. cash = spec.initial_cash /\ position = None /\ trades = <<>>
    BY DEF Init
  <2>2. Held = 0
    BY <2>1 DEF Held, StillOpen
  <2>3. NetOf(trades) = 0
    BY <2>1, NetOfNone
  <2>4. spec.initial_cash \in Int
    BY SpecsAssumption DEF Init, BacktestSpec
  <2> QED
    BY <2>1, <2>2, <2>3, <2>4, CashReads
<1>2. AccountInv => AccountTypes
  BY DEF AccountInv
<1> QED
  BY <1>1, <1>2, NextKeepsCash, InvariantsHold, PTL DEF Spec

-----------------------------------------------------------------------------
(* The figures of the built-in strategies: each is a number. *)

LEMMA GreatestIsChosen ==
  ASSUME NEW kind, kind # "set", NEW n \in Nat
  PROVE  Chooses(kind, 1..n)
<1> SUFFICES ASSUME NEW s \in SUBSET (1..n), NEW first \in s
             PROVE  Max(s) \in s
  <2>1. IsFiniteSet(1..n)
    BY FS_Interval
  <2>2. \A s \in SUBSET (1..n) : s # {} => Max(s) \in s
    OBVIOUS
  <2> QED
    BY <2>1, <2>2 DEF Chooses, Chosen
<1> DEFINE f == [ j \in 1..n |-> IF j \in s THEN j ELSE first ]
<1>1. first \in Int /\ \A j \in 1..n : f[j] \in Int
  OBVIOUS
<1>2. {first} \cup { f[j] : j \in 1..n } = s
  OBVIOUS
<1>3. HasGreatest({first} \cup { f[j] : j \in 1..n })
  <2> HIDE DEF f
  <2> QED
    BY <1>1, GreatestExists, Zenon
<1> QED
  BY <1>2, <1>3 DEF HasGreatest

(* Parts of a sequence.                                                    *)
LEMMA PartIs ==
  ASSUME NEW S, NEW seq \in Seq(S), NEW m \in 1..(Len(seq) + 1),
         NEW n \in Nat, n <= Len(seq), m <= n + 1
  PROVE  SubSeq(seq, m, n) = [ k \in 1..(n - m + 1) |-> seq[m + k - 1] ]
OBVIOUS

LEMMA FirstPart ==
  ASSUME NEW S, NEW seq \in Seq(S), NEW n \in Nat, n <= Len(seq)
  PROVE  SubSeq(seq, 1, n) \in [1..n -> S]
<1>1. /\ Len(seq) \in Nat /\ 1 \in 1..(Len(seq) + 1) /\ 1 <= n + 1
      /\ \A k \in 1..n : 1 + k - 1 = k /\ k \in 1..Len(seq)
  OBVIOUS
<1>2. SubSeq(seq, 1, n) = [ k \in 1..(n - 1 + 1) |-> seq[1 + k - 1] ]
  BY <1>1, PartIs
<1>3. n - 1 + 1 = n /\ \A k \in 1..n : seq[k] \in S
  BY <1>1
<1> QED
  BY <1>1, <1>2, <1>3

LEMMA LastPart ==
  ASSUME NEW S, NEW seq \in Seq(S), NEW n \in Nat, n <= Len(seq)
  PROVE  /\ Len(seq) - n \in Nat
         /\ SubSeq(seq, n + 1, Len(seq)) \in [1..(Len(seq) - n) -> S]
<1> DEFINE m == n + 1
<1>1. /\ Len(seq) \in Nat /\ m \in 1..(Len(seq) + 1) /\ Len(seq) <= Len(seq)
      /\ m <= Len(seq) + 1 /\ Len(seq) - m + 1 = Len(seq) - n
      /\ Len(seq) - n \in Nat
      /\ \A k \in 1..(Len(seq) - n) : m + k - 1 \in 1..Len(seq)
  OBVIOUS
<1> HIDE DEF m
<1>2. SubSeq(seq, m, Len(seq)) = [ k \in 1..(Len(seq) - m + 1) |-> seq[m + k - 1] ]
  BY <1>1, PartIs
<1>3. \A k \in 1..(Len(seq) - n) : seq[m + k - 1] \in S
  BY <1>1
<1>4. SubSeq(seq, m, Len(seq)) \in [1..(Len(seq) - n) -> S]
  BY <1>1, <1>2, <1>3
<1> QED
  BY <1>1, <1>4 DEF m

LEMMA TotalIsFold ==
  ASSUME NEW n \in Nat, NEW values, DOMAIN values = 1..n
  PROVE  \E g : /\ Folds("sequence", 0, 0, values, SUBSET (1..n), g)
                /\ Total(values) = g[1..n]
<1> DEFINE Is(g) ==
             g = [ s \in SUBSET DOMAIN values |->
                     IF s = {} THEN 0
                     ELSE g[s \ {Max(s)}] + values[Max(s)] ]
           iter == CHOOSE g : Is(g)
<1>1. Total(values) = iter[DOMAIN values]
  BY DEF Total, FoldLeft, MapThenFoldSet
<1>2. ASSUME NEW g
      PROVE  Is(g) <=> Folds("sequence", 0, 0, values, SUBSET (1..n), g)
  <2> DEFINE A(s) == IF s = {} THEN 0 ELSE g[s \ {Max(s)}] + values[Max(s)]
             B(s) == IF s = {} THEN 0
                     ELSE Combined("sequence", 0, values[Chosen("sequence", s)],
                                   g[s \ {Chosen("sequence", s)}])
  <2>1. \A s \in SUBSET DOMAIN values : A(s) = B(s)
    BY DEF Combined, Chosen
  <2>2. [ s \in SUBSET DOMAIN values |-> A(s) ] = [ s \in SUBSET DOMAIN values |-> B(s) ]
    <3> HIDE DEF A, B
    <3> QED
      BY <2>1
  <2> QED
    BY <2>2 DEF Folds
<1>3. \E g : Is(g)
  BY <1>2, GreatestIsChosen, FoldExists
<1>4. Is(iter)
  <2> HIDE DEF Is
  <2> QED
    BY <1>3
<1> HIDE DEF Is, iter
<1> QED
  BY <1>1, <1>2, <1>4

LEMMA TotalType ==
  ASSUME NEW n \in Nat, NEW T, T = Int \/ T = Nat, NEW values \in [1..n -> T]
  PROVE  Total(values) \in T
<1>1. DOMAIN values = 1..n
  OBVIOUS
<1>2. PICK g : /\ Folds("sequence", 0, 0, values, SUBSET (1..n), g)
               /\ Total(values) = g[1..n]
  BY <1>1, TotalIsFold
<1>3. Chooses("sequence", 1..n)
  BY GreatestIsChosen
<1>4. \A x \in 1..n : \A r \in T : Combined("sequence", 0, values[x], r) \in T
  BY DEF Combined
<1>5. 0 \in T
  OBVIOUS
<1>6. g[1..n] \in T
  BY <1>2, <1>3, <1>4, <1>5, FoldType
<1> QED
  BY <1>2, <1>6

LEMMA MeanType ==
  ASSUME NEW n \in Nat, n > 0, NEW T, T = Int \/ T = Nat,
         NEW values \in [1..n -> T]
  PROVE  Mean(values) \in T
<1>1. Total(values) \in T
  BY TotalType
<1>2. Len(values) = n
  OBVIOUS
<1> QED
  BY <1>1, <1>2 DEF Mean

(* An exponential average is a number wherever its window is filled.       *)
LEMMA EmaType ==
  ASSUME NEW values \in Seq(Int), NEW window \in Nat, window > 0,
         window <= Len(values)
  PROVE  Ema(values, window) \in Int
<1> DEFINE base == Mean(SubSeq(values, 1, window))
           later == SubSeq(values, window + 1, Len(values))
           n == Len(values) - window
           Is(g) ==
             g = [ s \in SUBSET DOMAIN later |->
                     IF s = {} THEN base
                     ELSE (2 * later[Max(s)] + (window - 1) * g[s \ {Max(s)}])
                          \div (window + 1) ]
           iter == CHOOSE g : Is(g)
<1>1. base \in Int
  <2>1. SubSeq(values, 1, window) \in [1..window -> Int]
    BY FirstPart
  <2> QED
    BY <2>1, MeanType
<1>2. n \in Nat /\ later \in [1..n -> Int]
  BY LastPart
<1>3. Ema(values, window) = iter[DOMAIN later]
  BY DEF Ema, FoldLeft, MapThenFoldSet
<1> HIDE DEF base, later, n
<1>0. DOMAIN later = 1..n
  BY <1>2
<1>4. ASSUME NEW g
      PROVE  Is(g) <=> Folds("average", window, base, later, SUBSET (1..n), g)
  <2> DEFINE A(s) == IF s = {} THEN base
                     ELSE (2 * later[Max(s)] + (window - 1) * g[s \ {Max(s)}])
                          \div (window + 1)
             B(s) == IF s = {} THEN base
                     ELSE Combined("average", window, later[Chosen("average", s)],
                                   g[s \ {Chosen("average", s)}])
  <2>1. \A s \in SUBSET DOMAIN later : A(s) = B(s)
    BY DEF Combined, Chosen
  <2>2. [ s \in SUBSET DOMAIN later |-> A(s) ] = [ s \in SUBSET DOMAIN later |-> B(s) ]
    <3> HIDE DEF A, B
    <3> QED
      BY <2>1
  <2> QED
    BY <1>0, <2>2 DEF Folds
<1>5. Chooses("average", 1..n)
  BY <1>2, GreatestIsChosen
<1>6. Is(iter)
  <2>1. \E g : Is(g)
    BY <1>4, <1>5, FoldExists
  <2> HIDE DEF Is
  <2> QED
    BY <2>1
<1> HIDE DEF Is, iter
<1>7. Folds("average", window, base, later, SUBSET (1..n), iter)
  BY <1>4, <1>6
<1>8. ASSUME NEW x \in 1..n, NEW r \in Int
      PROVE  Combined("average", window, later[x], r) \in Int
  <2>1. later[x] \in Int
    BY <1>2
  <2>2. PICK total \in Int : total = 2 * later[x] + (window - 1) * r
    BY <2>1
  <2>3. total \div (window + 1) \in Int
    OBVIOUS
  <2> QED
    BY <2>2, <2>3 DEF Combined
<1>9. iter[1..n] \in Int
  BY <1>1, <1>5, <1>7, <1>8, FoldType
<1> QED
  BY <1>0, <1>3, <1>9

LEMMA SmaType ==
  ASSUME NEW closes \in Seq(Int), NEW window \in Nat, window > 0,
         window <= Len(closes)
  PROVE  Sma(closes, window) \in Int
<1> DEFINE n == Len(closes) - window
<1>1. n \in Nat /\ n <= Len(closes) /\ Len(closes) - n = window
      /\ n + 1 = Len(closes) - window + 1
  OBVIOUS
<1> HIDE DEF n
<1>2. SubSeq(closes, n + 1, Len(closes)) \in [1..(Len(closes) - n) -> Int]
  BY <1>1, LastPart
<1>3. Newest(closes, window) \in [1..window -> Int]
  BY <1>1, <1>2 DEF Newest
<1> QED
  BY <1>3, MeanType DEF Sma

LEMMA RsiType ==
  ASSUME NEW closes \in Seq(Int), NEW window \in Nat, window > 0,
         window < Len(closes)
  PROVE  Rsi(closes, window) \in Int
<1> DEFINE changes == [ k \in 1..window |->
             closes[Len(closes) - window + k] - closes[Len(closes) - window + k - 1] ]
           up == [ k \in 1..window |-> IF changes[k] > 0 THEN changes[k] ELSE 0 ]
           down == [ k \in 1..window |-> IF changes[k] < 0 THEN -changes[k] ELSE 0 ]
<1>1. \A k \in 1..window : changes[k] \in Int
  <2>1. \A k \in 1..window : /\ Len(closes) - window + k \in 1..Len(closes)
                             /\ Len(closes) - window + k - 1 \in 1..Len(closes)
    OBVIOUS
  <2> QED
    BY <2>1
<1> HIDE DEF changes
<1>2. up \in [1..window -> Nat] /\ down \in [1..window -> Nat]
  BY <1>1
<1> HIDE DEF up, down
<1>3. PICK gains \in Nat, losses \in Nat : gains = Total(up) /\ losses = Total(down)
  BY <1>2, TotalType
<1>4. Rsi(closes, window) = IF gains + losses = 0 THEN 50 * Unit
                            ELSE (100 * Unit * gains) \div (gains + losses)
  BY <1>3 DEF Rsi, changes, up, down
<1>5. Unit \in Nat
  BY UnitAssumption
<1>6. PICK scaled \in Nat : scaled = 100 * Unit * gains
  BY <1>5
<1>7. gains + losses # 0 => scaled \div (gains + losses) \in Int
  OBVIOUS
<1> QED
  BY <1>4, <1>5, <1>6, <1>7

LEMMA VarianceType ==
  ASSUME NEW closes \in Seq(Int), NEW window \in Nat, window > 0,
         window <= Len(closes)
  PROVE  /\ Variance(closes, window) \in Nat
         /\ Distance(closes, window) \in Int
<1> DEFINE n == Len(closes) - window
           newest == Newest(closes, window)
<1>1. n \in Nat /\ n <= Len(closes) /\ Len(closes) - n = window
      /\ n + 1 = Len(closes) - window + 1
  OBVIOUS
<1> HIDE DEF n
<1>2. SubSeq(closes, n + 1, Len(closes)) \in [1..(Len(closes) - n) -> Int]
  BY <1>1, LastPart
<1>3. newest \in [1..window -> Int]
  BY <1>1, <1>2 DEF Newest
<1> HIDE DEF newest
<1>4. Mean(newest) \in Int
  BY <1>3, MeanType
<1>5. \A d \in Int : d * d \in Nat
  OBVIOUS
<1>6. \A k \in 1..window : (newest[k] - Mean(newest)) * (newest[k] - Mean(newest)) \in Nat
  <2> TAKE k \in 1..window
  <2>1. PICK d \in Int : d = newest[k] - Mean(newest)
    BY <1>3, <1>4
  <2> QED
    BY <1>5, <2>1
<1>7. [ k \in 1..window |-> (newest[k] - Mean(newest)) * (newest[k] - Mean(newest)) ]
        \in [1..window -> Nat]
  BY <1>6
<1>8. Variance(closes, window) \in Nat
  BY <1>7, MeanType DEF Variance, newest
<1>9. Distance(closes, window) \in Int
  <2>1. PICK d \in Int : d = closes[Len(closes)] - Sma(closes, window)
    BY SmaType
  <2> QED
    BY <1>5, <2>1 DEF Distance
<1> QED
  BY <1>8, <1>9

LEMMA FrontIs ==
  ASSUME NEW S, NEW seq \in Seq(S), Len(seq) > 0
  PROVE  /\ Front(seq) \in Seq(S) /\ Len(Front(seq)) = Len(seq) - 1
         /\ \A k \in 1..(Len(seq) - 1) : Front(seq)[k] = seq[k]
<1> DEFINE n == Len(seq) - 1
<1>1. /\ n \in Nat /\ n <= Len(seq) /\ n - 1 + 1 = n /\ 1 <= n + 1
      /\ 1 \in 1..(Len(seq) + 1)
      /\ \A k \in 1..n : 1 + k - 1 = k
  OBVIOUS
<1>2. Front(seq) = SubSeq(seq, 1, n)
  BY DEF Front
<1> HIDE DEF n
<1>3. Front(seq) \in [1..n -> S]
  BY <1>1, <1>2, FirstPart
<1>4. SubSeq(seq, 1, n) = [ k \in 1..(n - 1 + 1) |-> seq[1 + k - 1] ]
  BY <1>1, PartIs
<1>5. \A k \in 1..n : Front(seq)[k] = seq[k]
  BY <1>1, <1>2, <1>4
<1>6. Front(seq) \in Seq(S) /\ Len(Front(seq)) = n
  BY <1>1, <1>3
<1> QED
  BY <1>5, <1>6 DEF n

(* What a sequence and its front have in common.                           *)
LEMMA PartOfFront ==
  ASSUME NEW seq \in Seq(Int), NEW n \in Nat, n < Len(seq)
  PROVE  SubSeq(Front(seq), 1, n) = SubSeq(seq, 1, n)
<1>1. /\ Front(seq) \in Seq(Int) /\ Len(Front(seq)) = Len(seq) - 1
      /\ \A k \in 1..(Len(seq) - 1) : Front(seq)[k] = seq[k]
  <2>1. Len(seq) > 0
    OBVIOUS
  <2> QED
    BY <2>1, FrontIs
<1>2. /\ Len(seq) \in Nat /\ 1 \in 1..(Len(seq) + 1) /\ 1 \in 1..(Len(Front(seq)) + 1)
      /\ n <= Len(seq) /\ n <= Len(Front(seq)) /\ 1 <= n + 1
      /\ \A k \in 1..(n - 1 + 1) : 1 + k - 1 \in 1..(Len(seq) - 1)
  BY <1>1
<1>3. SubSeq(seq, 1, n) = [ k \in 1..(n - 1 + 1) |-> seq[1 + k - 1] ]
  BY <1>2, PartIs
<1>4. SubSeq(Front(seq), 1, n) = [ k \in 1..(n - 1 + 1) |-> Front(seq)[1 + k - 1] ]
  BY <1>1, <1>2, PartIs
<1>5. \A k \in 1..(n - 1 + 1) : Front(seq)[1 + k - 1] = seq[1 + k - 1]
  BY <1>1, <1>2
<1> QED
  BY <1>3, <1>4, <1>5

LEMMA MacdType ==
  ASSUME NEW closes \in Seq(Int), NEW p,
         p.fast \in Nat, p.slow \in Nat, p.fast > 0, p.fast <= p.slow,
         p.slow <= Len(closes)
  PROVE  Macd(closes, p) \in [1..(Len(closes) - p.slow + 1) -> Int]
<1>1. ASSUME NEW k \in 1..(Len(closes) - p.slow + 1)
      PROVE  LET seen == SubSeq(closes, 1, p.slow + k - 1)
             IN  Ema(seen, p.fast) - Ema(seen, p.slow) \in Int
  <2> DEFINE n == p.slow + k - 1
             seen == SubSeq(closes, 1, n)
  <2>1. n \in Nat /\ n <= Len(closes) /\ p.slow <= n /\ p.fast <= n /\ p.slow > 0
    OBVIOUS
  <2> HIDE DEF n
  <2>2. seen \in [1..n -> Int]
    BY <2>1, FirstPart
  <2> HIDE DEF seen
  <2>3. seen \in Seq(Int) /\ Len(seen) = n
    BY <2>1, <2>2
  <2>4. Ema(seen, p.fast) \in Int /\ Ema(seen, p.slow) \in Int
    BY <2>1, <2>3, EmaType
  <2>5. Ema(seen, p.fast) - Ema(seen, p.slow) \in Int
    BY <2>4
  <2> QED
    BY <2>5 DEF seen, n
<1> QED
  BY <1>1 DEF Macd

LEMMA MacdOfFront ==
  ASSUME NEW closes \in Seq(Int), NEW p,
         p.fast \in Nat, p.slow \in Nat, p.fast > 0, p.fast <= p.slow,
         p.slow < Len(closes)
  PROVE  Front(Macd(closes, p)) = Macd(Front(closes), p)
<1> DEFINE n == Len(closes) - p.slow
           Value(c, k) == LET seen == SubSeq(c, 1, p.slow + k - 1)
                          IN  Ema(seen, p.fast) - Ema(seen, p.slow)
<1>1. /\ n \in Nat /\ n > 0 /\ Len(closes) - p.slow + 1 = n + 1
      /\ Len(closes) \in Nat /\ Len(closes) > 0
      /\ \A k \in 1..n : p.slow + k - 1 \in Nat /\ p.slow + k - 1 < Len(closes)
  OBVIOUS
<1>2. Len(Front(closes)) - p.slow + 1 = n
  <2>1. Len(Front(closes)) = Len(closes) - 1
    BY <1>1, FrontIs
  <2> QED
    BY <1>1, <2>1
<1> HIDE DEF n
<1>3. Macd(closes, p) = [ k \in 1..(n + 1) |-> Value(closes, k) ]
  BY <1>1 DEF Macd
<1>4. Macd(Front(closes), p) = [ k \in 1..n |-> Value(Front(closes), k) ]
  BY <1>2 DEF Macd
<1>5. \A k \in 1..n : Value(Front(closes), k) = Value(closes, k)
  BY <1>1, PartOfFront
<1> HIDE DEF Value
<1>6. Front(Macd(closes, p)) = [ k \in 1..n |-> Value(closes, k) ]
  <2> DEFINE macd == Macd(closes, p)
  <2>1. macd \in [1..(n + 1) -> Int]
    <3>1. p.slow <= Len(closes)
      BY <1>1
    <3> QED
      BY <1>1, <3>1, MacdType
  <2>2. \A k \in 1..n : macd[k] = Value(closes, k)
    BY <1>1, <1>3
  <2> HIDE DEF macd
  <2>3. macd \in Seq(Int) /\ Len(macd) = n + 1
    BY <1>1, <2>1
  <2>4. Front(macd) = [ k \in 1..n |-> macd[k] ]
    <3>1. Front(macd) \in [1..n -> Int] /\ \A k \in 1..n : Front(macd)[k] = macd[k]
      <4>1. /\ Front(macd) \in Seq(Int) /\ Len(Front(macd)) = n
            /\ \A k \in 1..n : Front(macd)[k] = macd[k]
        <5>1. Len(macd) > 0 /\ Len(macd) - 1 = n
          BY <1>1, <2>3
        <5> QED
          BY <2>3, <5>1, FrontIs
      <4> QED
        BY <1>1, <4>1
    <3> QED
      BY <3>1
  <2>5. Front(macd) = [ k \in 1..n |-> Value(closes, k) ]
    BY <2>2, <2>4
  <2> QED
    BY <2>5 DEF macd
<1> QED
  BY <1>4, <1>5, <1>6

-----------------------------------------------------------------------------
(* What every strategy's signals respect: it does not enter against its    *)
(* rule, and does not stay when its rule turns against it.                 *)

Respects(signal, before, now) ==
  /\ signal \in Actions
  /\ signal = "ENTER_LONG" => ~now
  /\ signal # "EXIT_LONG" /\ ~before => ~now

LEMMA CrossingRespects ==
  ASSUME NEW a \in Int, NEW b \in Int, NEW c \in Int, NEW d \in Int
  PROVE  Respects(Crossing([before |-> a, now |-> b], [before |-> c, now |-> d]),
                  a < c, b < d)
BY DEF Crossing, Respects, Actions

(* The parameters a schema accepts.                                        *)
LEMMA CrossoverWindows ==
  ASSUME NEW p, p \in SmaParameters \/ p \in EmaParameters
  PROVE  /\ p.fast \in Nat /\ p.slow \in Nat /\ p.fast > 0 /\ p.slow > 0
         /\ p.fast < p.slow
BY DEF SmaParameters, EmaParameters

LEMMA TripleEmaWindows ==
  ASSUME NEW p \in TripleEmaParameters
  PROVE  /\ p.fast \in Nat /\ p.middle \in Nat /\ p.slow \in Nat
         /\ p.fast > 0 /\ p.middle > 0 /\ p.fast < p.middle /\ p.middle < p.slow
BY DEF TripleEmaParameters

LEMMA MacdWindows ==
  ASSUME NEW p \in MacdParameters
  PROVE  /\ p.fast \in Nat /\ p.slow \in Nat /\ p.signal \in Nat
         /\ p.fast > 0 /\ p.fast < p.slow /\ p.signal > 0
BY DEF MacdParameters

LEMMA RsiLevels ==
  ASSUME NEW p, p \in RsiMeanReversionParameters \/ p \in RsiThresholdParameters
  PROVE  /\ p.window \in Nat /\ p.window > 0 /\ p.entry \in Nat /\ p.exit \in Nat
         /\ p.entry < p.exit
BY DEF RsiMeanReversionParameters, RsiThresholdParameters, Levels

LEMMA BollingerWindow ==
  ASSUME NEW p \in BollingerParameters
  PROVE  p.window \in Nat /\ p.window > 0 /\ p.deviation \in Nat
BY DEF BollingerParameters

LEMMA SmaRespects ==
  ASSUME NEW p \in SmaParameters, NEW closes \in Seq(Int), Len(closes) > p.slow + 1
  PROVE  Respects(SmaSignal(closes, p),
                  Sma(Front(closes), p.fast) < Sma(Front(closes), p.slow),
                  Sma(closes, p.fast) < Sma(closes, p.slow))
<1>1. /\ p.fast \in Nat /\ p.slow \in Nat /\ p.fast > 0 /\ p.slow > 0
      /\ p.fast < p.slow
  BY CrossoverWindows
<1>2. /\ Len(closes) \in Nat /\ Len(closes) > 0 /\ ~(Len(closes) < p.slow + 1)
      /\ p.fast <= Len(closes) /\ p.slow <= Len(closes)
      /\ p.fast <= Len(closes) - 1 /\ p.slow <= Len(closes) - 1
  BY <1>1
<1>3. Front(closes) \in Seq(Int) /\ Len(Front(closes)) = Len(closes) - 1
  BY <1>2, FrontIs
<1>4. /\ Sma(closes, p.fast) \in Int /\ Sma(closes, p.slow) \in Int
      /\ Sma(Front(closes), p.fast) \in Int /\ Sma(Front(closes), p.slow) \in Int
  BY <1>1, <1>2, <1>3, SmaType
<1>5. SmaSignal(closes, p) =
        Crossing([before |-> Sma(Front(closes), p.fast), now |-> Sma(closes, p.fast)],
                 [before |-> Sma(Front(closes), p.slow), now |-> Sma(closes, p.slow)])
  BY <1>2 DEF SmaSignal, Moved
<1> QED
  BY <1>4, <1>5, CrossingRespects

LEMMA EmaRespects ==
  ASSUME NEW p \in EmaParameters, NEW closes \in Seq(Int), Len(closes) > p.slow + 1
  PROVE  Respects(EmaSignal(closes, p),
                  Ema(Front(closes), p.fast) < Ema(Front(closes), p.slow),
                  Ema(closes, p.fast) < Ema(closes, p.slow))
<1>1. /\ p.fast \in Nat /\ p.slow \in Nat /\ p.fast > 0 /\ p.slow > 0
      /\ p.fast < p.slow
  BY CrossoverWindows
<1>2. /\ Len(closes) \in Nat /\ Len(closes) > 0 /\ ~(Len(closes) < p.slow + 1)
      /\ p.fast <= Len(closes) /\ p.slow <= Len(closes)
      /\ p.fast <= Len(closes) - 1 /\ p.slow <= Len(closes) - 1
  BY <1>1
<1>3. Front(closes) \in Seq(Int) /\ Len(Front(closes)) = Len(closes) - 1
  BY <1>2, FrontIs
<1>4. /\ Ema(closes, p.fast) \in Int /\ Ema(closes, p.slow) \in Int
      /\ Ema(Front(closes), p.fast) \in Int /\ Ema(Front(closes), p.slow) \in Int
  BY <1>1, <1>2, <1>3, EmaType
<1>5. EmaSignal(closes, p) =
        Crossing([before |-> Ema(Front(closes), p.fast), now |-> Ema(closes, p.fast)],
                 [before |-> Ema(Front(closes), p.slow), now |-> Ema(closes, p.slow)])
  BY <1>2 DEF EmaSignal, Moved
<1> QED
  BY <1>4, <1>5, CrossingRespects

LEMMA TripleEmaRespects ==
  ASSUME NEW p \in TripleEmaParameters, NEW closes \in Seq(Int),
         Len(closes) > p.slow + 1
  PROVE  Respects(TripleEmaSignal(closes, p),
                  Falling(Three(Front(closes), p)), Falling(Three(closes, p)))
<1>1. /\ p.fast \in Nat /\ p.middle \in Nat /\ p.slow \in Nat
      /\ p.fast > 0 /\ p.middle > 0 /\ p.fast < p.middle /\ p.middle < p.slow
  BY TripleEmaWindows
<1>2. /\ Len(closes) \in Nat /\ ~(Len(closes) < p.slow + 1)
      /\ p.fast <= Len(closes) /\ p.middle <= Len(closes) /\ p.slow <= Len(closes)
  BY <1>1
<1>3. /\ Ema(closes, p.fast) \in Int /\ Ema(closes, p.middle) \in Int
      /\ Ema(closes, p.slow) \in Int
  BY <1>1, <1>2, EmaType
<1> DEFINE before == Three(Front(closes), p)
           now == Three(closes, p)
<1>4. TripleEmaSignal(closes, p) =
        IF ~Rising(before) /\ Rising(now) THEN "ENTER_LONG"
        ELSE IF ~Falling(before) /\ Falling(now) THEN "EXIT_LONG"
        ELSE "HOLD"
  BY <1>2 DEF TripleEmaSignal, Moved
<1>5. Rising(now) => ~Falling(now)
  BY <1>3 DEF Rising, Falling, Three
<1> HIDE DEF before, now
<1>6. Respects(TripleEmaSignal(closes, p), Falling(before), Falling(now))
  BY <1>4, <1>5 DEF Respects, Actions
<1> QED
  BY <1>6 DEF before, now

LEMMA MacdRespects ==
  ASSUME NEW p \in MacdParameters, NEW closes \in Seq(Int),
         Len(closes) > p.slow + p.signal + 1
  PROVE  LET macd == Macd(closes, p)
             earlier == Macd(Front(closes), p)
         IN  Respects(MacdSignal(closes, p),
                      earlier[Len(earlier)] < Ema(earlier, p.signal),
                      macd[Len(macd)] < Ema(macd, p.signal))
<1> DEFINE macd == Macd(closes, p)
           earlier == Macd(Front(closes), p)
           n == Len(closes) - p.slow + 1
<1>1. /\ p.fast \in Nat /\ p.slow \in Nat /\ p.signal \in Nat
      /\ p.fast > 0 /\ p.fast < p.slow /\ p.signal > 0
  BY MacdWindows
<1>2. /\ ~(Len(closes) < p.slow + p.signal + 1) /\ p.fast <= p.slow
      /\ p.slow < Len(closes) /\ p.slow <= Len(closes)
      /\ n \in Nat /\ n > 1 /\ ~(n < p.signal + 1)
      /\ p.signal <= n /\ p.signal <= n - 1 /\ n \in 1..n /\ n - 1 \in 1..(n - 1)
  <2>1. PICK slow \in Nat, signal \in Nat, length \in Nat :
          slow = p.slow /\ signal = p.signal /\ length = Len(closes)
    BY <1>1
  <2>2. length > slow + signal + 1 /\ signal > 0 /\ n = length - slow + 1
    BY <1>1, <2>1
  <2> HIDE DEF n
  <2>3. /\ n \in Nat /\ n > 1 /\ ~(n < signal + 1) /\ signal <= n
        /\ signal <= n - 1 /\ n \in 1..n /\ n - 1 \in 1..(n - 1)
    BY <2>2
  <2>4. ~(length < slow + signal + 1) /\ slow < length /\ slow <= length
    BY <2>2
  <2>5. p.fast <= p.slow
    BY <1>1
  <2> QED
    BY <2>1, <2>3, <2>4, <2>5
<1>3. earlier = Front(macd)
  BY <1>1, <1>2, MacdOfFront
<1>4. macd \in [1..n -> Int]
  BY <1>1, <1>2, MacdType
<1>5. MacdSignal(closes, p) =
        IF Len(closes) < p.slow + p.signal + 1 \/ Len(macd) < p.signal + 1 THEN "HOLD"
        ELSE Crossing([before |-> earlier[Len(earlier)], now |-> macd[Len(macd)]],
                      [before |-> Ema(earlier, p.signal), now |-> Ema(macd, p.signal)])
  BY <1>3 DEF MacdSignal, Moved
<1> HIDE DEF macd, earlier, n
<1>6. macd \in Seq(Int) /\ Len(macd) = n
  BY <1>2, <1>4
<1>7. earlier \in Seq(Int) /\ Len(earlier) = n - 1
  <2>1. Len(macd) > 0
    BY <1>2, <1>6
  <2> QED
    BY <1>3, <1>6, <2>1, FrontIs
<1>8. /\ macd[Len(macd)] \in Int /\ Ema(macd, p.signal) \in Int
  BY <1>1, <1>2, <1>4, <1>6, EmaType
<1>9. earlier[Len(earlier)] \in Int /\ Ema(earlier, p.signal) \in Int
  <2>1. Ema(earlier, p.signal) \in Int
    BY <1>1, <1>2, <1>7, EmaType
  <2> QED
    BY <1>2, <1>7, <2>1
<1>10. Respects(MacdSignal(closes, p),
                earlier[Len(earlier)] < Ema(earlier, p.signal),
                macd[Len(macd)] < Ema(macd, p.signal))
  <2>1. MacdSignal(closes, p) =
          Crossing([before |-> earlier[Len(earlier)], now |-> macd[Len(macd)]],
                   [before |-> Ema(earlier, p.signal), now |-> Ema(macd, p.signal)])
    BY <1>2, <1>5, <1>6
  <2> QED
    BY <1>8, <1>9, <2>1, CrossingRespects
<1> QED
  BY <1>10 DEF macd, earlier

LEMMA LevelsInOrder ==
  ASSUME NEW low \in Nat, NEW high \in Nat, low < high
  PROVE  low * Unit \in Nat /\ high * Unit \in Nat /\ low * Unit < high * Unit
<1>1. Unit \in Nat /\ Unit > 0
  BY UnitAssumption
<1>2. PICK gap \in Nat : high = low + gap /\ gap > 0
  <2>1. high - low \in Nat /\ high = low + (high - low) /\ high - low > 0
    OBVIOUS
  <2> QED
    BY <2>1
<1>3. high * Unit = low * Unit + gap * Unit
  BY <1>1, <1>2
<1>4. PICK x \in Nat, y \in Nat : x = low * Unit /\ y = gap * Unit
  BY <1>1
<1>5. y > 0
  BY <1>1, <1>2, <1>4
<1> QED
  BY <1>3, <1>4, <1>5

LEMMA RsiMeanReversionRespects ==
  ASSUME NEW p \in RsiMeanReversionParameters, NEW closes \in Seq(Int),
         Len(closes) > p.window + 1
  PROVE  Respects(RsiMeanReversionSignal(closes, p),
                  Rsi(Front(closes), p.window) >= p.exit * Unit,
                  Rsi(closes, p.window) >= p.exit * Unit)
<1>1. /\ p.window \in Nat /\ p.window > 0 /\ p.entry \in Nat /\ p.exit \in Nat
      /\ p.entry < p.exit
  BY RsiLevels
<1>2. /\ Len(closes) \in Nat /\ ~(Len(closes) < p.window + 1)
      /\ p.window < Len(closes)
  BY <1>1
<1>3. PICK now \in Int : now = Rsi(closes, p.window)
  BY <1>1, <1>2, RsiType
<1>4. PICK low \in Nat, high \in Nat :
        low = p.entry * Unit /\ high = p.exit * Unit /\ low < high
  BY <1>1, LevelsInOrder
<1>5. RsiMeanReversionSignal(closes, p) =
        IF now <= low THEN "ENTER_LONG" ELSE IF now >= high THEN "EXIT_LONG" ELSE "HOLD"
  BY <1>2, <1>3, <1>4 DEF RsiMeanReversionSignal
<1>6. Respects(RsiMeanReversionSignal(closes, p),
               Rsi(Front(closes), p.window) >= high, now >= high)
  BY <1>4, <1>5 DEF Respects, Actions
<1> QED
  BY <1>3, <1>4, <1>6

LEMMA RsiThresholdRespects ==
  ASSUME NEW p \in RsiThresholdParameters, NEW closes \in Seq(Int),
         Len(closes) > p.window + 1
  PROVE  Respects(RsiThresholdSignal(closes, p),
                  Rsi(Front(closes), p.window) > p.exit * Unit,
                  Rsi(closes, p.window) > p.exit * Unit)
<1>1. /\ p.window \in Nat /\ p.window > 0 /\ p.entry \in Nat /\ p.exit \in Nat
      /\ p.entry < p.exit
  BY RsiLevels
<1>2. /\ Len(closes) \in Nat /\ Len(closes) > 0 /\ ~(Len(closes) < p.window + 2)
      /\ p.window < Len(closes) /\ p.window < Len(closes) - 1
  BY <1>1
<1>3. Front(closes) \in Seq(Int) /\ Len(Front(closes)) = Len(closes) - 1
  BY <1>2, FrontIs
<1>4. PICK before \in Int, now \in Int :
        before = Rsi(Front(closes), p.window) /\ now = Rsi(closes, p.window)
  BY <1>1, <1>2, <1>3, RsiType
<1>5. PICK low \in Nat, high \in Nat :
        low = p.entry * Unit /\ high = p.exit * Unit /\ low < high
  BY <1>1, LevelsInOrder
<1>6. RsiThresholdSignal(closes, p) =
        IF before >= low /\ now < low THEN "ENTER_LONG"
        ELSE IF before <= high /\ now > high THEN "EXIT_LONG"
        ELSE "HOLD"
  BY <1>2, <1>4, <1>5 DEF RsiThresholdSignal, Moved
<1>7. Respects(RsiThresholdSignal(closes, p), before > high, now > high)
  BY <1>4, <1>5, <1>6 DEF Respects, Actions
<1> QED
  BY <1>4, <1>5, <1>7

LEMMA BollingerRespects ==
  ASSUME NEW p \in BollingerParameters, NEW closes \in Seq(Int),
         Len(closes) > p.window + 1, NEW before
  PROVE  Respects(BollingerSignal(closes, p), before,
                  Distance(closes, p.window)
                    < -(p.deviation * p.deviation * Variance(closes, p.window)))
<1>1. p.window \in Nat /\ p.window > 0 /\ p.deviation \in Nat
  BY BollingerWindow
<1>2. ~(Len(closes) < p.window + 1) /\ p.window <= Len(closes)
  BY <1>1
<1>3. PICK distance \in Int, variance \in Nat :
        /\ distance = Distance(closes, p.window)
        /\ variance = Variance(closes, p.window)
  BY <1>1, <1>2, VarianceType
<1>4. PICK square \in Nat : square = p.deviation * p.deviation
  BY <1>1
<1>5. PICK band \in Nat : band = square * variance
  OBVIOUS
<1>6. BollingerSignal(closes, p) =
        IF distance > band THEN "ENTER_LONG"
        ELSE IF distance < -band THEN "EXIT_LONG"
        ELSE "HOLD"
  BY <1>2, <1>3, <1>4, <1>5 DEF BollingerSignal
<1>7. Respects(BollingerSignal(closes, p), before, distance < -band)
  BY <1>6 DEF Respects, Actions
<1> QED
  BY <1>3, <1>4, <1>5, <1>7

LEMMA SignalRespects ==
  ASSUME revision \in Revisions, NEW closes \in Seq(Int),
         Len(closes) > RequiredHistory
  PROVE  Respects(Signal(revision.strategy, revision.parameters, closes),
                  Against(Front(closes)), Against(closes))
<1> DEFINE s == revision.strategy
           p == revision.parameters
<1>1. s \in Registered /\ Valid(s, p) /\ HistoryOf(s, p) = RequiredHistory
  BY RevisionsAssumption DEF Compatible
<1>2. CASE s = "sma_crossover"
  <2>1. p \in SmaParameters /\ Len(closes) > p.slow + 1
    BY <1>1, <1>2 DEF Valid, HistoryOf
  <2> QED
    BY <1>2, <2>1, SmaRespects DEF Signal, Against
<1>3. CASE s = "ema_crossover"
  <2>1. p \in EmaParameters /\ Len(closes) > p.slow + 1
    BY <1>1, <1>3 DEF Valid, HistoryOf
  <2> QED
    BY <1>3, <2>1, EmaRespects DEF Signal, Against
<1>4. CASE s = "triple_ema_crossover"
  <2>1. p \in TripleEmaParameters /\ Len(closes) > p.slow + 1
    BY <1>1, <1>4 DEF Valid, HistoryOf
  <2> QED
    BY <1>4, <2>1, TripleEmaRespects DEF Signal, Against
<1>5. CASE s = "macd_signal"
  <2>1. p \in MacdParameters /\ Len(closes) > p.slow + p.signal + 1
    BY <1>1, <1>5 DEF Valid, HistoryOf
  <2> QED
    BY <1>5, <2>1, MacdRespects DEF Signal, Against
<1>6. CASE s = "rsi_mean_reversion"
  <2>1. p \in RsiMeanReversionParameters /\ Len(closes) > p.window + 1
    BY <1>1, <1>6 DEF Valid, HistoryOf
  <2> QED
    BY <1>6, <2>1, RsiMeanReversionRespects DEF Signal, Against
<1>7. CASE s = "rsi_threshold_reversion"
  <2>1. p \in RsiThresholdParameters /\ Len(closes) > p.window + 1
    BY <1>1, <1>7 DEF Valid, HistoryOf
  <2> QED
    BY <1>7, <2>1, RsiThresholdRespects DEF Signal, Against
<1>8. CASE s = "bollinger_breakout"
  <2>1. p \in BollingerParameters /\ Len(closes) > p.window + 1
    BY <1>1, <1>8 DEF Valid, HistoryOf
  <2> QED
    BY <1>8, <2>1, BollingerRespects DEF Signal, Against
<1> QED
  BY <1>1, <1>2, <1>3, <1>4, <1>5, <1>6, <1>7, <1>8 DEF Registered

(* The closes a strategy is given are those of the bar before and one more. *)
LEMMA ClosesGrow ==
  ASSUME AccountTypes, NEW n \in 1..LastBar
  PROVE  /\ Closes(n) \in Seq(Int) /\ Len(Closes(n)) = n
         /\ Front(Closes(n)) = Closes(n - 1)
<1>1. /\ n \in Nat /\ n - 1 \in Nat /\ \A k \in 1..n : k \in 1..LastBar
      /\ \A k \in 1..(n - 1) : k \in 1..n
  <2>1. LastBar \in Nat
    BY DatasetType
  <2> QED
    BY <2>1
<1>2. \A k \in 1..n : dataset[k].close * Unit \in Int
  <2> TAKE k \in 1..n
  <2>1. dataset[k].close \in Nat
    BY <1>1, DatasetType
  <2> QED
    BY <2>1, UnitAssumption
<1>3. Closes(n) \in [1..n -> Int] /\ Closes(n - 1) \in [1..(n - 1) -> Int]
  BY <1>1, <1>2 DEF Closes
<1>4. \A k \in 1..(n - 1) : Closes(n)[k] = Closes(n - 1)[k]
  BY <1>1 DEF Closes
<1>5. Closes(n) \in Seq(Int) /\ Len(Closes(n)) = n
  BY <1>1, <1>3
<1>6. /\ Front(Closes(n)) \in Seq(Int) /\ Len(Front(Closes(n))) = n - 1
      /\ \A k \in 1..(n - 1) : Front(Closes(n))[k] = Closes(n)[k]
  <2>1. Len(Closes(n)) > 0
    BY <1>5
  <2> QED
    BY <1>5, <2>1, FrontIs
<1>7. Front(Closes(n)) \in [1..(n - 1) -> Int]
  BY <1>1, <1>6
<1> QED
  BY <1>3, <1>4, <1>5, <1>6, <1>7

Guided == revision \in Revisions \cup {None}

(* A bar answered by a built-in is a bar answered by anybody.              *)
LEMMA AnswersAreActions ==
  AccountTypes /\ Progress /\ Guided /\ stage = "loop" /\ index < LastBar
    => Answers \subseteq Actions
<1> SUFFICES ASSUME AccountTypes, Progress, Guided, stage = "loop",
                    index < LastBar, revision # None
             PROVE  Signal(revision.strategy, revision.parameters, Closes(index))
                      \in Actions
  BY DEF Answers
<1>1. revision \in Revisions
  BY DEF Guided
<1>2. Len(answers) \in Nat /\ RequiredHistory \in Nat /\ LastBar \in Nat
  BY NumbersAssumption, DatasetType DEF AccountTypes
<1>3. index \in 1..LastBar /\ index > RequiredHistory
  BY <1>2 DEF Progress, AccountTypes
<1>4. Closes(index) \in Seq(Int) /\ Len(Closes(index)) = index
  BY <1>3, ClosesGrow
<1> QED
  BY <1>1, <1>3, <1>4, SignalRespects DEF Respects

RunInv == AccountInv /\ Guided /\ PositionsFollowTheRule

LEMMA SNextIsNext ==
  RunInv /\ [SNext]_<<vars, revision>> => [Next]_vars /\ UNCHANGED revision
<1> SUFFICES ASSUME AccountTypes, Progress, Guided, [SNext]_<<vars, revision>>
             PROVE  [Next]_vars /\ UNCHANGED revision
  BY DEF RunInv, AccountInv
<1>1. ASSUME NEW signal \in Answers, Bar(signal)
      PROVE  signal \in Actions
  BY <1>1, AnswersAreActions DEF Bar
<1> QED
  BY <1>1 DEF SNext, Next

(* A position is opened or kept only on the right side of the rule.        *)
LEMMA BarFollows ==
  ASSUME AccountTypes, Progress, revision \in Revisions, PositionsFollowTheRule,
         revision # None, NEW signal \in Answers, Bar(signal), position' # None
  PROVE  ~Against(Closes(index))
<1>1. Len(answers) \in Nat /\ RequiredHistory \in Nat /\ LastBar \in Nat
  BY NumbersAssumption, DatasetType DEF AccountTypes
<1>2. stage = "loop" /\ index \in 1..LastBar /\ index > RequiredHistory
  BY <1>1 DEF Bar, Progress, AccountTypes
<1>3. /\ Closes(index) \in Seq(Int) /\ Len(Closes(index)) = index
      /\ Front(Closes(index)) = Closes(index - 1)
  BY <1>2, ClosesGrow
<1>4. Respects(signal, Against(Closes(index - 1)), Against(Closes(index)))
  <2>1. signal = Signal(revision.strategy, revision.parameters, Closes(index))
    BY DEF Answers
  <2>2. Len(Closes(index)) > RequiredHistory
    BY <1>2, <1>3
  <2>3. Respects(Signal(revision.strategy, revision.parameters, Closes(index)),
                 Against(Front(Closes(index))), Against(Closes(index)))
    BY <1>3, <2>2, SignalRespects
  <2> QED
    BY <1>3, <2>1, <2>3
<1>5. CASE signal = "ENTER_LONG"
  BY <1>4, <1>5 DEF Respects
<1>6. CASE signal # "ENTER_LONG"
  <2>1. signal # "EXIT_LONG" /\ position # None
    BY <1>6 DEF Bar, Exit, Ignored
  <2>2. ~Against(Closes(index - 1))
    BY <1>2, <2>1 DEF PositionsFollowTheRule
  <2> QED
    BY <1>4, <2>1, <2>2 DEF Respects
<1> QED
  BY <1>5, <1>6

LEMMA AgainstNext ==
  ASSUME UNCHANGED <<dataset, revision>>, (index - 1)' = index
  PROVE  Against(Closes(index - 1))' <=> Against(Closes(index))
<1>1. Closes(index - 1)' = Closes(index)
  BY DEF Closes
<1> QED
  BY <1>1 DEF Against

LEMMA RunKeepsRule ==
  RunInv /\ [SNext]_<<vars, revision>> => PositionsFollowTheRule'
<1> SUFFICES ASSUME RunInv, [SNext]_<<vars, revision>>,
                    revision' # None, stage' = "loop", position' # None
             PROVE  ~Against(Closes(index - 1))'
  BY DEF PositionsFollowTheRule
<1>1. AccountTypes /\ Progress /\ Guided /\ PositionsFollowTheRule
  BY DEF RunInv, AccountInv
<1>2. UNCHANGED revision /\ revision # None /\ revision \in Revisions
  BY <1>1, SNextIsNext DEF Guided
<1>3. CASE UNCHANGED <<vars, revision>>
  <2>1. ~Against(Closes(index - 1))
    BY <1>1, <1>2, <1>3 DEF PositionsFollowTheRule, vars, account
  <2>2. Closes(index - 1)' = Closes(index - 1)
    BY <1>3 DEF Closes, vars
  <2> QED
    BY <1>3, <2>1, <2>2 DEF Against
<1>4. ASSUME NEW signal \in Answers, Bar(signal)
      PROVE  ~Against(Closes(index - 1))'
  <2>1. ~Against(Closes(index))
    BY <1>1, <1>2, <1>4, BarFollows
  <2>2. UNCHANGED dataset /\ (index - 1)' = index
    BY <1>1, <1>4 DEF Bar, inputs, AccountTypes
  <2> QED
    BY <1>2, <2>1, <2>2, AgainstNext
<1>5. ~(Reject \/ Begin \/ ForceClose \/ Measure)
  BY <1>1 DEF Reject, Begin, ForceClose, Measure, Progress, account
<1> QED
  BY <1>3, <1>4, <1>5 DEF SNext

LEMMA RunInvHolds == SSpec => []RunInv
<1>1. SInit => RunInv
  <2>1. SInit => AccountInv
    BY InitEstablishes DEF SInit
  <2>2. SInit => Guided /\ PositionsFollowTheRule
    BY DEF SInit, Init, Guided, PositionsFollowTheRule
  <2> QED
    BY <2>1, <2>2 DEF RunInv
<1>2. RunInv /\ [SNext]_<<vars, revision>> => RunInv'
  <2> SUFFICES ASSUME RunInv, [SNext]_<<vars, revision>>
               PROVE  RunInv'
    OBVIOUS
  <2>1. AccountInv'
    BY SNextIsNext, NextKeepsInv DEF RunInv
  <2>2. Guided'
    BY SNextIsNext DEF RunInv, Guided
  <2> QED
    BY <2>1, <2>2, RunKeepsRule DEF RunInv
<1> QED
  BY <1>1, <1>2, PTL DEF SSpec

(* A run with a built-in strategy in it is a run of the backtester, so all *)
(* that holds for answers of any kind holds for those of the strategies.   *)
THEOREM BuiltInsAreRuns == SSpec => Spec
<1>1. SInit => Init
  BY DEF SInit
<1> QED
  BY <1>1, SNextIsNext, RunInvHolds, PTL DEF SSpec, Spec

(* No position outlives the bar whose close puts its strategy on the other *)
(* side of its rule, whatever the dataset and the accepted parameters.     *)
THEOREM RulesAreFollowed == SSpec => []PositionsFollowTheRule
<1>1. RunInv => PositionsFollowTheRule
  BY DEF RunInv
<1> QED
  BY <1>1, RunInvHolds, PTL

=============================================================================
