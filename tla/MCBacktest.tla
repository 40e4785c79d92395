----------------------------- MODULE MCBacktest -----------------------------
(***************************************************************************)
(* Instances of StrategyBacktest small enough for TLC.                     *)
(***************************************************************************)
EXTENDS StrategyBacktest

Bar1(open, close) == [open |-> open, close |-> close]
Flat == Bar1(2, 2)
RisingFallingFlat == { Bar1(1, 3), Bar1(3, 1), Flat }

Assumptions(initial, quantity, commission, slippage, close) ==
  [ initial_cash |-> initial, quantity |-> quantity, commission |-> commission,
    slippage |-> slippage, force_close_at_end |-> close ]

(* With Basis 2 a unit lot at price 1 costs 4 units without costs, 9 with  *)
(* both; 18 units afford a lot at 2 with costs exactly.                    *)
ModestSpecs ==
  { Assumptions(amount, 1, cost, cost, close) :
      amount \in {8, 18}, cost \in {0, 1}, close \in BOOLEAN }

(* Costs beyond the price.                                                 *)
SteepSpecs ==
  { Assumptions(40, 1, commission, slippage, TRUE) :
      commission \in {0, 5}, slippage \in {0, 3} }

AmpleSpec == Assumptions(40, 1, 0, 0, TRUE)
AllSpecs == ModestSpecs \cup SteepSpecs \cup {AmpleSpec}

(* Every revision asks for six bars.                                       *)
Revision(strategy, parameters) ==
  [ strategy |-> strategy, parameters |-> parameters ]
Average == [ fast |-> 2, slow |-> 5 ]
Strength == [ window |-> 5, entry |-> 30, exit |-> 70 ]

OnePerStrategy ==
  { Revision("sma_crossover", Average), Revision("ema_crossover", Average),
    Revision("triple_ema_crossover", [ fast |-> 2, middle |-> 3, slow |-> 5 ]),
    Revision("macd_signal", [ fast |-> 2, slow |-> 3, signal |-> 2 ]),
    Revision("rsi_mean_reversion", Strength),
    Revision("rsi_threshold_reversion", Strength),
    Revision("bollinger_breakout", [ window |-> 5, deviation |-> 1 ]) }

(* Datasets that are flat up to a bar.  Without a strategy the first bars  *)
(* are not read; with one, three bars more are varied than are traded.     *)
FlatUpTo(bars, length) ==
  { [ k \in 1..length |-> IF k <= bars THEN Flat ELSE rest[k] ] :
      rest \in [(bars + 1)..length -> RisingFallingFlat] }

Runs(choice) ==
  IF choice = None THEN UNION { FlatUpTo(6, length) : length \in Lengths \ {11} }
  ELSE FlatUpTo(3, 11)

=============================================================================
