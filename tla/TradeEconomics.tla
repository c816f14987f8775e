---------------------------- MODULE TradeEconomics ----------------------------
(***************************************************************************)
(* Whether a candidate is expected to earn its costs, and how candidates   *)
(* that do are ranked (profitability_ranking.py, trade_economics.py).      *)
(* Probabilities and qualities are in percent, R in hundredths, costs in   *)
(* hundredths of a percent (bps) of the notional.  w is what the sizing    *)
(* has read, d the decision about its strategy, notional the size.         *)
(***************************************************************************)
EXTENDS Sizing

CONSTANT Economics  \* candidate_model, cost and break-even policy, quotes

-----------------------------------------------------------------------------
(* What the gross results of the strategy say.                              *)

\* Without a gross win and a gross loss nothing is estimated.
GrossEvidence(g) == g.wins > 0 /\ g.losses > 0

Root(x) == Max({k \in 0..x : k * k <= x})

\* The posterior mean, from a neutral prior ...
WinProbability(g) == (100 * g.wins + 50 * Economics.prior_wins) \div (g.count + Economics.prior_wins)

\* ... and z standard deviations below it.
Below(p, trials) == Max({0, p - (Economics.z * Root((p * (100 - p)) \div trials)) \div 100})
CautiousProbability(g) == Below(WinProbability(g), g.count + Economics.prior_wins + 1)

Shrunk(mean, count) == (mean * count + 100 * Economics.prior_payoffs) \div (count + Economics.prior_payoffs)

TargetR(g) == Min({Economics.max_target, Shrunk(g.win, g.wins)})
LossR(g) == Min({100, Shrunk(g.loss, g.losses)})

GrossR(g, p) == (p * TargetR(g) - (100 - p) * LossR(g)) \div 100

-----------------------------------------------------------------------------
(* Costs.                                                                   *)

InR(bps, w) == (bps * w.price) \div (100 * w.distance)

SpreadBps(w) == (w.spread * Economics.spread_unit) \div 100

\* The authoritative quote: recent, two-sided, and no wider than allowed.
ValidQuote(w) == w.fresh /\ SpreadBps(w) \in 0..Economics.max_spread

\* Slippage, shortfall, impact, delay, holding and uncertainty do not depend
\* on the candidate in this model.
CostR(w) == InR(SpreadBps(w) + Economics.other_costs, w)

\* The ask, half a spread above the price, leaves room below the target.
TargetAboveLimit(w, g) == SpreadBps(w) * w.price < 2 * w.distance * TargetR(g)

-----------------------------------------------------------------------------
(* The candidate within the portfolio, and its measures.                    *)

DiversificationFactor(w, notional) ==
  100 - Max({Quality(NotionalOf(OfSymbol(w.positions, w.symbol)) + notional, Limits.symbol),
             Quality(NotionalOf(OfCluster(w.positions, w.cluster)) + notional, Limits.cluster)})

MeasuresFrom(w, d, notional, g, cost, net, cautious) ==
  [cost |-> cost, gross |-> net + cost, net |-> net, cautious |-> cautious,
   break_even |-> (100 * (LossR(g) + cost)) \div (TargetR(g) + LossR(g)),
   daily |-> net \div d.metrics.days,
   efficiency |-> (100 * net * w.distance) \div w.price,
   marginal |-> (cautious * DiversificationFactor(w, notional)) \div 100]
MeasuresAt(w, d, notional, g, cost) ==
  MeasuresFrom(w, d, notional, g, cost, GrossR(g, WinProbability(g)) - cost,
               GrossR(g, CautiousProbability(g)) - cost)
Measures(w, d, notional) == MeasuresAt(w, d, notional, d.metrics.gross, CostR(w))

EconomicsAllow(m) ==
  /\ m.gross > 0 /\ m.net > 0 /\ m.cautious > 0
  /\ m.break_even <= Economics.max_break_even
  /\ 100 * m.cost <= Economics.max_cost * m.gross
  /\ m.marginal >= 0

\* Why a candidate is dropped: no authority, no evidence, no quote, no edge.
Profitable(w, d, notional) ==
  LET g == d.metrics.gross
  IN /\ d.state \in Executable
     /\ GrossEvidence(g) /\ d.metrics.days > 0 /\ ValidQuote(w) /\ TargetAboveLimit(w, g)
     /\ EconomicsAllow(Measures(w, d, notional))

-----------------------------------------------------------------------------
(* Ranking of the candidates that remain.                                   *)

\* Weighted components in percent; the weights sum to 100.
QualityScore(w, d, notional, g, m) ==
  (25 * Quality(m.cautious, 15) + 15 * Quality(m.net, Settings.target_expectancy)
     + 10 * (100 - Quality(100 * m.cost, Economics.max_cost * m.gross))
     + 10 * Quality(m.daily, 2) + 10 * ((100 * g.count) \div (g.count + Economics.prior_wins))
     + 10 * d.score + 7 * Quality(TargetR(g), 300)
     + 5 * Share(d.metrics.positive_regimes, d.metrics.regimes)
     + 4 * (100 - Quality(d.metrics.drawdown, Settings.hard_drawdown))
     + 4 * DiversificationFactor(w, notional)) \div 100

\* The greatest key comes first; symbols decide last, in their own order.
KeyOf(w, d, notional, m) ==
  <<m.cautious, m.net, m.daily, m.efficiency, m.marginal,
    QualityScore(w, d, notional, d.metrics.gross, m), w.score, -w.rank>>
RankingKey(w, d, notional) == KeyOf(w, d, notional, Measures(w, d, notional))

Before(k, l) == \E i \in DOMAIN k : k[i] > l[i] /\ \A j \in 1..i - 1 : k[j] = l[j]
=============================================================================
