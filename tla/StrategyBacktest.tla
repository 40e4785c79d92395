-------------------------- MODULE StrategyBacktest --------------------------
(***************************************************************************)
(* The backtester with a strategy in it.  Backtest lets every bar have any *)
(* answer; here a run either keeps that freedom (no revision) or takes its *)
(* answers from a built-in strategy under one parameter revision.          *)
(***************************************************************************)
EXTENDS Backtest, Strategies

CONSTANTS
  Revisions,    \* parameter revisions, [strategy, parameters]
  Scenario(_),  \* the datasets that are run under a revision, or under None
  Ample         \* the assumptions of the runs that have a strategy

ASSUME RevisionsAssumption ==
  \A r \in Revisions :
    /\ Valid(r.strategy, r.parameters)
    /\ Compatible(r.strategy, "EQUITY", "1d")
    /\ HistoryOf(r.strategy, r.parameters) = RequiredHistory
ASSUME AmpleAssumption == Ample \in Specs /\ None \notin Revisions

VARIABLE revision

SInit ==
  /\ revision \in Revisions \cup {None}
  /\ dataset \in Scenario(revision)
  /\ spec \in IF revision = None THEN Specs ELSE {Ample}
  /\ Init

Closes(n) == [ k \in 1..n |-> dataset[k].close * Unit ]

(* The strategy is given the bars up to and with the one at index.         *)
Answers ==
  IF revision = None THEN Actions
  ELSE {Signal(revision.strategy, revision.parameters, Closes(index))}

SNext ==
  /\ \/ Reject \/ Begin
     \/ stage = "loop" /\ \E signal \in Answers : Bar(signal)
     \/ ForceClose \/ Measure
  /\ UNCHANGED revision

SSpec == SInit /\ [][SNext]_<<vars, revision>>

-----------------------------------------------------------------------------
(* The side of its rule on which a strategy has no business to be long,    *)
(* from the closes alone and without a look at the bar before.             *)
Against(closes) ==
  LET p == revision.parameters
      macd == Macd(closes, p)
  IN CASE revision.strategy = "sma_crossover" ->
            Sma(closes, p.fast) < Sma(closes, p.slow)
       [] revision.strategy = "ema_crossover" ->
            Ema(closes, p.fast) < Ema(closes, p.slow)
       [] revision.strategy = "triple_ema_crossover" -> Falling(Three(closes, p))
       [] revision.strategy = "macd_signal" ->
            macd[Len(macd)] < Ema(macd, p.signal)
       [] revision.strategy = "rsi_mean_reversion" ->
            Rsi(closes, p.window) >= p.exit * Unit
       [] revision.strategy = "rsi_threshold_reversion" ->
            Rsi(closes, p.window) > p.exit * Unit
       [] OTHER ->
            Distance(closes, p.window)
              < -(p.deviation * p.deviation * Variance(closes, p.window))

(* A crossing is only answered at the bar where it happens, and a position *)
(* may be opened, refused or kept in between: still no position outlives   *)
(* the bar whose close puts the strategy on the other side of its rule.    *)
PositionsFollowTheRule ==
  revision # None /\ stage = "loop" /\ position # None =>
    ~Against(Closes(index - 1))

=============================================================================
