----------------------------- MODULE Strategies -----------------------------
(***************************************************************************)
(* The built-in strategies: what each answers to the closes it has seen,   *)
(* how many bars it asks for, and which parameters its schema accepts.     *)
(* All are pure.  The code computes in floating point; here a figure is a  *)
(* whole number of 1/Unit, rounded down at every operation.                *)
(***************************************************************************)
EXTENDS Integers, Sequences, SequencesExt

CONSTANT Unit

ASSUME UnitAssumption == Unit \in Nat \ {0}

-----------------------------------------------------------------------------
(* Parameters: the schema of each strategy bounds them one by one and then *)
(* orders them.  Levels and deviations are taken in whole numbers.         *)

Levels == 0..100

SmaParameters ==
  { p \in [ fast : 2..250, slow : 3..500 ] : p.fast < p.slow }
EmaParameters ==
  { p \in [ fast : 2..250, slow : 3..500 ] : p.fast < p.slow }
TripleEmaParameters ==
  { p \in [ fast : 2..100, middle : 3..200, slow : 4..500 ] :
      p.fast < p.middle /\ p.middle < p.slow }
MacdParameters ==
  { p \in [ fast : 2..100, slow : 3..250, signal : 2..100 ] : p.fast < p.slow }
RsiMeanReversionParameters ==
  { p \in [ window : 2..250, entry : Levels, exit : Levels ] : p.entry < p.exit }
RsiThresholdParameters ==
  { p \in [ window : 2..250, entry : Levels, exit : Levels ] : p.entry < p.exit }
BollingerParameters == [ window : 2..250, deviation : 1..10 ]

Valid(strategy, p) ==
  CASE strategy = "sma_crossover" -> p \in SmaParameters
    [] strategy = "ema_crossover" -> p \in EmaParameters
    [] strategy = "triple_ema_crossover" -> p \in TripleEmaParameters
    [] strategy = "macd_signal" -> p \in MacdParameters
    [] strategy = "rsi_mean_reversion" -> p \in RsiMeanReversionParameters
    [] strategy = "rsi_threshold_reversion" -> p \in RsiThresholdParameters
    [] strategy = "bollinger_breakout" -> p \in BollingerParameters

Registered ==
  { "bollinger_breakout", "ema_crossover", "macd_signal",
    "rsi_mean_reversion", "rsi_threshold_reversion", "sma_crossover",
    "triple_ema_crossover" }

(* Every built-in supports daily bars of equities only.                    *)
Compatible(strategy, type, interval) ==
  strategy \in Registered /\ type = "EQUITY" /\ interval = "1d"

HistoryOf(strategy, p) ==
  CASE strategy = "macd_signal" -> p.slow + p.signal + 1
    [] strategy \in {"sma_crossover", "ema_crossover", "triple_ema_crossover"} ->
         p.slow + 1
    [] OTHER -> p.window + 1

-----------------------------------------------------------------------------
(* Figures over closes, which are in units of 1/Unit already.              *)

Newest(values, n) == SubSeq(values, Len(values) - n + 1, Len(values))
Total(values) == FoldLeft(LAMBDA sum, v : sum + v, 0, values)
Mean(values) == Total(values) \div Len(values)
Sma(closes, window) == Mean(Newest(closes, window))

(* The mean of the first window, then 2/(window + 1) of every later value. *)
Ema(values, window) ==
  FoldLeft(LAMBDA r, v : (2 * v + (window - 1) * r) \div (window + 1),
           Mean(SubSeq(values, 1, window)),
           SubSeq(values, window + 1, Len(values)))

Rsi(closes, window) ==
  LET changes == [ k \in 1..window |->
        closes[Len(closes) - window + k] - closes[Len(closes) - window + k - 1] ]
      gains == Total([ k \in 1..window |-> IF changes[k] > 0 THEN changes[k] ELSE 0 ])
      losses == Total([ k \in 1..window |-> IF changes[k] < 0 THEN -changes[k] ELSE 0 ])
  IN IF gains + losses = 0 THEN 50 * Unit
     ELSE (100 * Unit * gains) \div (gains + losses)

(* The difference of two averages at every bar that has both.              *)
Macd(closes, p) ==
  [ k \in 1..(Len(closes) - p.slow + 1) |->
      LET seen == SubSeq(closes, 1, p.slow + k - 1)
      IN Ema(seen, p.fast) - Ema(seen, p.slow) ]

(* The square of the distance to the mean, signed, and the variance.       *)
Distance(closes, window) ==
  LET d == closes[Len(closes)] - Sma(closes, window)
  IN IF d < 0 THEN -(d * d) ELSE d * d
Variance(closes, window) ==
  LET newest == Newest(closes, window)
  IN Mean([ k \in 1..window |-> (newest[k] - Mean(newest)) * (newest[k] - Mean(newest)) ])

-----------------------------------------------------------------------------
(* Signals.                                                                *)

(* Mutant: an exit needs the faster average to have been above.            *)
CrossingStrictly(fast, slow) ==
  IF fast.before <= slow.before /\ fast.now > slow.now THEN "ENTER_LONG"
  ELSE IF fast.before > slow.before /\ fast.now < slow.now THEN "EXIT_LONG"
  ELSE "HOLD"

(* One figure crosses another between two bars; touching is not crossing.  *)
Crossing(fast, slow) ==
  IF fast.before <= slow.before /\ fast.now > slow.now THEN "ENTER_LONG"
  ELSE IF fast.before >= slow.before /\ fast.now < slow.now THEN "EXIT_LONG"
  ELSE "HOLD"

(* A figure before the last value and with it.                             *)
Moved(values, Figure(_)) == [ before |-> Figure(Front(values)), now |-> Figure(values) ]

SmaSignal(closes, p) ==
  IF Len(closes) < p.slow + 1 THEN "HOLD"
  ELSE Crossing(Moved(closes, LAMBDA c : Sma(c, p.fast)),
                Moved(closes, LAMBDA c : Sma(c, p.slow)))

EmaSignal(closes, p) ==
  IF Len(closes) < p.slow + 1 THEN "HOLD"
  ELSE Crossing(Moved(closes, LAMBDA c : Ema(c, p.fast)),
                Moved(closes, LAMBDA c : Ema(c, p.slow)))

MacdSignal(closes, p) ==
  LET macd == Macd(closes, p) IN
  IF Len(closes) < p.slow + p.signal + 1 \/ Len(macd) < p.signal + 1 THEN "HOLD"
  ELSE Crossing(Moved(macd, LAMBDA m : m[Len(m)]),
                Moved(macd, LAMBDA m : Ema(m, p.signal)))

Rising(x) == x[1] > x[2] /\ x[2] > x[3]
Falling(x) == x[1] < x[2] /\ x[2] < x[3]
Three(closes, p) == << Ema(closes, p.fast), Ema(closes, p.middle), Ema(closes, p.slow) >>

TripleEmaSignal(closes, p) ==
  LET averages == Moved(closes, LAMBDA c : Three(c, p)) IN
  IF Len(closes) < p.slow + 1 THEN "HOLD"
  ELSE IF ~Rising(averages.before) /\ Rising(averages.now) THEN "ENTER_LONG"
  ELSE IF ~Falling(averages.before) /\ Falling(averages.now) THEN "EXIT_LONG"
  ELSE "HOLD"

RsiMeanReversionSignal(closes, p) ==
  IF Len(closes) < p.window + 1 THEN "HOLD"
  ELSE IF Rsi(closes, p.window) <= p.entry * Unit THEN "ENTER_LONG"
  ELSE IF Rsi(closes, p.window) >= p.exit * Unit THEN "EXIT_LONG"
  ELSE "HOLD"

RsiThresholdSignal(closes, p) ==
  LET rsi == Moved(closes, LAMBDA c : Rsi(c, p.window)) IN
  IF Len(closes) < p.window + 2 THEN "HOLD"
  ELSE IF rsi.before >= p.entry * Unit /\ rsi.now < p.entry * Unit THEN "ENTER_LONG"
  ELSE IF rsi.before <= p.exit * Unit /\ rsi.now > p.exit * Unit THEN "EXIT_LONG"
  ELSE "HOLD"

BollingerSignal(closes, p) ==
  LET distance == Distance(closes, p.window)
      band == p.deviation * p.deviation * Variance(closes, p.window) IN
  IF Len(closes) < p.window + 1 THEN "HOLD"
  ELSE IF distance > band THEN "ENTER_LONG"
  ELSE IF distance < -band THEN "EXIT_LONG"
  ELSE "HOLD"

Signal(strategy, p, closes) ==
  CASE strategy = "sma_crossover" -> SmaSignal(closes, p)
    [] strategy = "ema_crossover" -> EmaSignal(closes, p)
    [] strategy = "triple_ema_crossover" -> TripleEmaSignal(closes, p)
    [] strategy = "macd_signal" -> MacdSignal(closes, p)
    [] strategy = "rsi_mean_reversion" -> RsiMeanReversionSignal(closes, p)
    [] strategy = "rsi_threshold_reversion" -> RsiThresholdSignal(closes, p)
    [] strategy = "bollinger_breakout" -> BollingerSignal(closes, p)

=============================================================================
