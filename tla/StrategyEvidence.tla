-------------------------- MODULE StrategyEvidence --------------------------
(***************************************************************************)
(* What the trades of a strategy, in shadow and on paper, say about it:    *)
(* its metrics, their score, whether its profitability is validated within *)
(* the family of all strategies, and the state it may trade in             *)
(* (strategy_performance.py, profitability_validation.py).  Results are in *)
(* hundredths of R; qualities and scores in hundredths.                    *)
(***************************************************************************)
EXTENDS Integers, FiniteSets, SequencesExt, TLC

CONSTANTS
  Settings,   \* thresholds of profitability_engine
  Validation  \* policy of profitability_validation

StateRank(s) ==
  CASE s = "RESEARCH_ONLY" -> 0 [] s = "PROBE" -> 1 [] s = "EXPLORATION" -> 2
    [] s = "THROTTLED" -> 3 [] s = "ACTIVE" -> 4 [] OTHER -> -1

MoreConservative(a, b) == IF StateRank(b) < StateRank(a) THEN b ELSE a

-----------------------------------------------------------------------------
(* Observations: completed out-of-sample paths, and closed lifecycles       *)
(* whose attribution is available.                                          *)

IsShadow(t) == t.class = "shadow_oos" /\ t.complete
IsActual(t) == t.class = "actual_paper" /\ t.complete /\ t.risk > 0
Observations(trades) == SelectSeq(trades, LAMBDA t : IsShadow(t) \/ IsActual(t))
OfClass(os, class) == SelectSeq(os, LAMBDA t : t.class = class)

\* A ratio to its target, clamped, in hundredths.
Quality(x, target) == Max({0, Min({100, (100 * x) \div target})})

Results(os) == [i \in DOMAIN os |-> os[i].r]
Total(v) == FoldLeft(LAMBDA a, b : a + b, 0, v)
Expectancy(v) == IF v = <<>> THEN 0 ELSE Total(v) \div Len(v)
Wins(v) == SelectSeq(v, LAMBDA r : r > 0)
Losses(v) == SelectSeq(v, LAMBDA r : r < 0)
AverageWin(v) == Expectancy(Wins(v))
AverageLoss(v) == -Expectancy(Losses(v))

GrossLoss(v) == -Total(Losses(v))

\* No loss at all is an infinite profit factor, no result is none.
FactorReaches(v, percent) ==
  /\ Wins(v) # <<>>
  /\ 100 * Total(Wins(v)) >= percent * GrossLoss(v)

\* The means of all windows of the last trades, and the last of them.
WindowMeans(v) ==
  LET n == Settings.window
  IN {Expectancy(SubSeq(v, i, i + n - 1)) : i \in {j \in DOMAIN v : j + n - 1 <= Len(v)}}
Recent(v) == Expectancy(SubSeq(v, Max({1, Len(v) - Settings.window + 1}), Len(v)))

Drawdown(v) ==
  FoldLeft(LAMBDA d, r : LET curve == d.curve + r
                             peak == Max({d.peak, curve})
                         IN [curve |-> curve, peak |-> peak, fall |-> Max({d.fall, peak - curve})],
           [curve |-> 0, peak |-> 0, fall |-> 0], v).fall

LosingStreak(v) ==
  FoldLeft(LAMBDA d, r : LET now == IF r < 0 THEN d.now + 1 ELSE 0
                         IN [now |-> now, worst |-> Max({d.worst, now})],
           [now |-> 0, worst |-> 0], v).worst

Regimes(os) == {os[i].regime : i \in DOMAIN os}
InRegime(os, g) == SelectSeq(os, LAMBDA t : t.regime = g)
MatureRegimes(os) == {g \in Regimes(os) : Len(InRegime(os, g)) >= Settings.regime_samples}
RegimeExpectancies(os) == [g \in MatureRegimes(os) |-> Expectancy(Results(InRegime(os, g)))]

\* The share of all profit that the most profitable symbol made.
LargestShare(os) ==
  LET profit(y) == Total(Wins(Results(SelectSeq(os, LAMBDA t : t.symbol = y))))
      symbols == {os[i].symbol : i \in DOMAIN os}
      all == Total(Wins(Results(os)))
  IN IF all = 0 THEN 0 ELSE Max({(100 * profit(y)) \div all : y \in symbols})

\* The share of all profit that the five best trades made.
TopFive(os) ==
  LET best == SortSeq(Wins(Results(os)), >)
  IN IF best = <<>> THEN 0 ELSE (100 * Total(SubSeq(best, 1, Min({5, Len(best)})))) \div Total(best)

Divergence(os) ==
  LET s == OfClass(os, "shadow_oos") a == OfClass(os, "actual_paper")
      gap == Expectancy(Results(s)) - Expectancy(Results(a))
  IN IF s = <<>> \/ a = <<>> THEN 0 ELSE IF gap < 0 THEN -gap ELSE gap

\* Costs in percent of the gross result, where both are known.
CostDrag(os) ==
  LET gross == Total([i \in DOMAIN os |-> os[i].g])
      paid == Total([i \in DOMAIN os |-> Max({0, os[i].g - os[i].r})])
  IN IF gross = 0 THEN 50 ELSE Min({100, (100 * paid) \div (IF gross < 0 THEN -gross ELSE gross)})

HoldingDays(os) == Expectancy([i \in DOMAIN os |-> os[i].closed - os[i].opened])

\* The same results before costs.
GrossMetrics(os) ==
  LET g == [i \in DOMAIN os |-> os[i].g]
  IN [count |-> Len(g), wins |-> Len(Wins(g)), losses |-> Len(Losses(g)),
      win |-> AverageWin(g), loss |-> AverageLoss(g)]

MetricsOf(os, v, by_regime, stale) ==
  [count |-> Len(v), shadow |-> Len(OfClass(os, "shadow_oos")),
  paper |-> Len(OfClass(os, "actual_paper")), expectancy |-> Expectancy(v),
  factor_ok |-> FactorReaches(v, Settings.target_factor),
  payoff |-> IF AverageLoss(v) = 0 THEN 0 ELSE (100 * AverageWin(v)) \div AverageLoss(v),
  drawdown |-> Drawdown(v), streak |-> LosingStreak(v),
  factor |-> IF GrossLoss(v) = 0 THEN IF Wins(v) = <<>> THEN 0 ELSE 100
             ELSE Quality(100 * Total(v), GrossLoss(v) * (Settings.target_factor - 100)),
  recent |-> Recent(v), windows |-> WindowMeans(v), drag |-> CostDrag(os),
  regimes |-> Cardinality(DOMAIN by_regime),
  positive_regimes |-> Cardinality({g \in DOMAIN by_regime : by_regime[g] > 0}),
  worst_regime |-> IF DOMAIN by_regime = {} THEN 0 ELSE Min({by_regime[g] : g \in DOMAIN by_regime}),
  largest |-> LargestShare(os), top_five |-> TopFive(os), divergence |-> Divergence(os),
  gross |-> GrossMetrics(os), days |-> HoldingDays(os),
  fresh |-> os # <<>> /\ ~stale, versions |-> os # <<>>]

MetricsFrom(os, stale) == MetricsOf(os, Results(os), RegimeExpectancies(os), stale)
Metrics(trades, stale) == MetricsFrom(Observations(trades), stale)

-----------------------------------------------------------------------------
(* The score: six weighted qualities less two penalties.                    *)

Share(n, of) == IF of = 0 THEN 0 ELSE (100 * n) \div of

Profitability(m) ==
  (60 * Quality(m.expectancy, Settings.target_expectancy) + 30 * m.factor
     + 10 * Quality(m.payoff, 200)) \div 100
Downside(m) ==
  (70 * (100 - Quality(m.drawdown, Settings.target_drawdown))
     + 30 * (100 - Quality(m.streak, Settings.target_streak))) \div 100
Stability(m) ==
  LET change == m.recent - m.expectancy
      distance == IF change < 0 THEN -change ELSE change
  IN ((IF m.recent > 0 THEN 100 ELSE 0)
        + Share(Cardinality({w \in m.windows : w > 0}), Cardinality(m.windows))
        + 100 - Quality(distance, Settings.target_expectancy)) \div 3
RegimeQuality(m) ==
  (Share(m.positive_regimes, m.regimes)
     + Quality(m.worst_regime + Settings.target_expectancy, 2 * Settings.target_expectancy)) \div 2
\* No order of the strategy reported its price: fill rate neutral, shortfall at its target.
ExecutionQuality(m) == (50 + 0 + 100 - m.drag) \div 3
EvidenceQuality(m) ==
  (Quality(m.shadow, Settings.min_shadow) + (IF m.fresh THEN 100 ELSE 0)
     + (IF m.versions THEN 200 ELSE 0)) \div 4

ConcentrationPenalty(m) == (5 * Quality(m.top_five - 60, 30) + 5 * Quality(m.largest - 35, 40)) \div 100
DivergencePenalty(m) ==
  IF m.paper < Settings.divergence_from THEN 0
  ELSE (10 * Quality(m.divergence, Settings.target_divergence)) \div 100

Score(m) ==
  LET weighted == 30 * Profitability(m) + 20 * Downside(m) + 15 * Stability(m)
                    + 15 * RegimeQuality(m) + 10 * ExecutionQuality(m) + 10 * EvidenceQuality(m)
  IN Max({0, weighted \div 100 - ConcentrationPenalty(m) - DivergencePenalty(m)})

-----------------------------------------------------------------------------
(* Profitability validation over the whole family of strategies.            *)

\* Chronological folds: a training prefix, an embargo, a test window; trades
\* whose outcome reaches into the test window are purged from the training.
Fold(os, boundary) ==
  LET start == boundary + Validation.embargo + 1
      end == boundary + Validation.embargo + Validation.test
      train == {i \in 1..boundary : os[i].closed < os[start].opened}
  IN [fits |-> end <= Len(os) /\ Cardinality(train) >= Validation.train,
      positive |-> end <= Len(os) /\ Total(Results(SubSeq(os, start, end))) > 0]

FoldStarts(os) ==
  {b \in 1..Len(os) :
     /\ b >= Validation.train
     /\ (b - Validation.train) % (Validation.embargo + Validation.test) = 0
     /\ b + Validation.embargo < Len(os)}
Folds(os) == {b \in FoldStarts(os) : Fold(os, b).fits}

\* The seeded block bootstrap: a lower bound of the mean and a p value.  The
\* draws are not computed; a sample without losses bounds it above zero, one
\* without gains does not, and any other may do either.
BootstrapOutcomes(v) ==
  {o \in [positive : BOOLEAN, p : {1, 100}] :
     /\ Losses(v) = <<>> /\ v # <<>> => o.positive
     /\ Wins(v) = <<>> => ~o.positive}

\* Benjamini-Hochberg over the family, p values in hundredths.
DiscoveryAccepted(p) ==
  LET rank(h) == Cardinality({g \in DOMAIN p : p[g] <= p[h]})
      rejected == {rank(h) : h \in {g \in DOMAIN p :
                     p[g] * Cardinality(DOMAIN p) <= Validation.fdr_alpha * rank(g)}}
  IN [h \in DOMAIN p |-> rank(h) <= Max({0} \cup rejected)]

\* family: for each strategy its observations; boot: what the bootstrap said.
ValidatedBy(os, boot, accepted) ==
  LET folds == Folds(os)
      positive == {b \in folds : Fold(os, b).positive}
  IN IF Len(os) < Validation.samples \/ Cardinality(folds) < Validation.folds THEN "insufficient"
     ELSE IF /\ boot.positive /\ accepted
             /\ 100 * Cardinality(positive) >= Validation.positive_folds * Cardinality(folds)
          THEN "validated" ELSE "failed"

ValidationStatus(family, boot) ==
  LET accepted == DiscoveryAccepted([s \in DOMAIN family |->
                    IF Len(family[s]) >= Validation.samples THEN boot[s].p ELSE 100])
  IN [s \in DOMAIN family |-> ValidatedBy(family[s], boot[s], accepted[s])]

-----------------------------------------------------------------------------
(* The state the evidence permits.                                          *)

\* For the version of the strategy that the code implements.
ProbeEligible(m) ==
  /\ Settings.probe_shadow <= m.shadow /\ m.shadow < Settings.min_shadow
  /\ m.versions /\ m.fresh
  /\ m.expectancy >= Settings.target_expectancy /\ m.factor_ok
  /\ ConcentrationPenalty(m) <= Settings.probe_concentration
  /\ m.drawdown <= Settings.hard_drawdown /\ m.streak <= Settings.hard_streak
  /\ m.paper < Settings.divergence_from \/ m.divergence <= Settings.hard_divergence

HardGates(m) ==
  /\ m.fresh /\ m.versions
  /\ m.drawdown <= Settings.hard_drawdown /\ m.streak <= Settings.hard_streak
  /\ m.paper < Settings.divergence_from \/ m.divergence <= Settings.hard_divergence

MaturityCeiling(m) ==
  CASE m.shadow < Settings.min_shadow -> IF ProbeEligible(m) THEN "PROBE" ELSE "RESEARCH_ONLY"
    [] m.paper < Settings.min_throttled -> "EXPLORATION"
    [] m.paper < Settings.min_active -> "THROTTLED"
    [] OTHER -> "ACTIVE"

StateOfScore(q) ==
  CASE q >= Settings.score_active -> "ACTIVE"
    [] q >= Settings.score_throttled -> "THROTTLED"
    [] q >= Settings.score_exploration -> "EXPLORATION"
    [] OTHER -> "RESEARCH_ONLY"

\* An ACTIVE strategy has profit, in enough regimes.
Matured(m, state) ==
  IF state = "ACTIVE" /\ m.regimes < Settings.min_regimes THEN "THROTTLED"
  ELSE IF state = "ACTIVE" /\ m.expectancy <= 0 THEN "SUSPENDED" ELSE state

ScoredState(m) == Matured(m, MoreConservative(MaturityCeiling(m), StateOfScore(Score(m))))

RefreshedState(m, status) ==
  CASE status = "failed" -> "SUSPENDED"
    [] status # "failed" /\ m.shadow < Settings.min_shadow -> MaturityCeiling(m)
    [] status = "insufficient" /\ m.shadow >= Settings.min_shadow -> "SUSPENDED"
    [] OTHER -> IF HardGates(m) THEN ScoredState(m) ELSE "SUSPENDED"

\* What refresh_strategy finds of one strategy ...
Evaluated(m, status) ==
  [state |-> RefreshedState(m, status), status |-> status, score |-> Score(m), metrics |-> m]

\* ... and the snapshot and decision it persists.
Persisted(found, config) == found @@ [present |-> found.metrics.count > 0, config |-> config]
RefreshedDecision(trades, stale, status, config) ==
  Persisted(Evaluated(Metrics(trades, stale), status), config)

-----------------------------------------------------------------------------
(* Which persisted decisions a reader may use.                              *)

NoDecision == [state |-> "none"]

ProbePolicyValid(d) == d.state = "PROBE" => ProbeEligible(d.metrics)

ValidationAuthorityValid(d) ==
  /\ d.status = "failed" => d.state = "SUSPENDED"
  /\ d.status = "insufficient" => d.state \in {"RESEARCH_ONLY", "PROBE"}

PolicyValid(d, config) ==
  /\ d # NoDecision
  /\ d.config = config
  /\ ProbePolicyValid(d)
  /\ ValidationAuthorityValid(d)
  /\ d.metrics.versions \/ (~d.present /\ d.state = "RESEARCH_ONLY")
  /\ d.present => d.metrics.fresh

LatestValidPolicy(d, config) == IF PolicyValid(d, config) THEN d ELSE NoDecision

\* The stop risk of one trade that a state permits.
StateRisk(state, base, is_add) ==
  CASE state = "ACTIVE" -> base
    [] state = "THROTTLED" -> base \div 2
    [] state \in {"PROBE", "EXPLORATION"} -> IF is_add THEN 0 ELSE Settings.fixed_risk[state]
    [] OTHER -> 0
=============================================================================
