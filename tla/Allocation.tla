----------------------------- MODULE Allocation -----------------------------
(***************************************************************************)
(* Who may trade and how much of the risk budget it gets: the execution    *)
(* registry (strategy_execution_registry.py), the division of the          *)
(* available stop risk into strategy sleeves (phase4_allocator.py), and    *)
(* the verification of a persisted allocation (allocation_authority.py).   *)
(* Money and risk are in hundredths of a percent of equity.                *)
(***************************************************************************)
EXTENDS StrategyEvidence

CONSTANTS
  Strategies,
  Entries,    \* strategy -> its entry in the registry's configuration
  Authority,  \* the global conditions of the registry's configuration
  Phase4      \* settings of the allocator

-----------------------------------------------------------------------------
(* The registry.                                                            *)

Executable == {"PROBE", "EXPLORATION", "THROTTLED", "ACTIVE"}

GlobalAuthority(config) ==
  /\ Authority.paper_only /\ Authority.live_disabled
  /\ Authority.autonomous => Authority.autonomous_capabilities
  /\ config \in Authority.known_configurations

EntryAuthorized(s) ==
  LET e == Entries[s]
  IN /\ e.implementation_available /\ e.implementation_current
     /\ e.execution_eligible /\ e.paper_eligible /\ ~e.live_eligible
     /\ e.human_authorized \/ Authority.autonomous
     /\ e.config_authorized /\ ~e.suspended /\ e.in_window

PolicyAuthorizes(d, config) ==
  /\ d # NoDecision
  /\ d.state \in Executable
  /\ d.config = config
  /\ d.present /\ d.metrics.fresh /\ d.metrics.versions
  /\ 0 <= d.score /\ d.score <= 100

\* policies: the valid decisions the evaluation was given.
Evaluate(policies, config) ==
  {s \in Strategies :
     GlobalAuthority(config) /\ EntryAuthorized(s) /\ PolicyAuthorizes(policies[s], config)}

\* A persisted evaluation: its raw inputs and its decisions.
RegistrySnapshot(policies, config) ==
  [policies |-> policies, config |-> config, authorized |-> Evaluate(policies, config)]
NoRegistry == [authorized |-> {}, config |-> 0]

\* load_verified replays the evaluation from the persisted inputs.
RegistryVerified(r) == r # NoRegistry /\ r.authorized = Evaluate(r.policies, r.config)

-----------------------------------------------------------------------------
(* Estimates from the out-of-sample outcomes.                               *)

SquareRoot(x) == CHOOSE k \in 0..1000 : k * k <= x /\ x < (k + 1) * (k + 1)
SumOfSquares(v, mean) == Total([i \in DOMAIN v |-> (v[i] - mean) * (v[i] - mean)])
Variance(v) == IF Len(v) < 2 THEN 0 ELSE SumOfSquares(v, Expectancy(v)) \div (Len(v) - 1)
Deviation(v) == SquareRoot(Variance(v))

\* The standard error, and what is taken for it where there is none.
StandardError(v) == IF Len(v) < 2 THEN 0 ELSE Deviation(v) \div SquareRoot(Len(v))
Absolute(x) == IF x < 0 THEN -x ELSE x
Margin(error, mean) == IF error # 0 THEN error ELSE IF mean # 0 THEN Absolute(mean) ELSE 100

\* The fall of the latest results below the earlier ones, in deviations.
LatestCount(n) == Min({n, Max({5, Min({20, n \div 3})})})
Deterioration(v, earlier, latest) ==
  IF earlier = <<>> THEN 0
  ELSE Max({0, (100 * (Expectancy(earlier) - Expectancy(latest))) \div Max({1, Deviation(v)})})
DeteriorationAt(v, k) == Deterioration(v, SubSeq(v, 1, k), SubSeq(v, k + 1, Len(v)))

EstimatedState(v, mean, conservative, deterioration, regimes, stale) ==
  CASE v = <<>> -> "EXPLORATION"
    [] v # <<>> /\ stale -> "SUSPENDED"
    [] v # <<>> /\ ~stale /\ (deterioration >= Phase4.suspend_at \/ mean <= 0
                                \/ 2 * Len(Wins(v)) <= Len(v)) -> "SUSPENDED"
    [] OTHER -> IF Len(v) < Phase4.min_samples \/ regimes < Phase4.min_regimes THEN "EXPLORATION"
                ELSE IF conservative <= 0 THEN "THROTTLED" ELSE "ACTIVE"

EstimateFrom(v, mean, error, shrunk, conservative, deterioration, variance, regimes, stale) ==
  [n |-> Len(v), known |-> v # <<>>, conservative |-> conservative, deterioration |-> deterioration,
   quality |-> (Min({100, (100 * Len(v)) \div Phase4.min_samples})
                  * Min({100, (100 * regimes) \div Phase4.min_regimes})) \div 100,
   uncertainty |-> Min({100, (100 * (IF error = 0 THEN 100 ELSE error)) \div Max({1, Absolute(shrunk)})}),
   variance |-> IF variance = 0 THEN Phase4.fallback_variance ELSE variance,
   state |-> EstimatedState(v, mean, conservative, deterioration, regimes, stale)]
EstimateShrunk(v, mean, error, shrunk, regimes, stale) ==
  EstimateFrom(v, mean, error, shrunk, shrunk - (Phase4.confidence * Margin(error, mean)) \div 100,
               DeteriorationAt(v, Len(v) - LatestCount(Len(v))), Variance(v), regimes, stale)
EstimateOf(v, mean, error, regimes, stale) ==
  EstimateShrunk(v, mean, error, (mean * Len(v)) \div (Len(v) + Phase4.prior), regimes, stale)
EstimateOver(os, v, stale) ==
  EstimateOf(v, Expectancy(v), StandardError(v), Cardinality(Regimes(os)), stale)
Outcomes(trades) == OfClass(Observations(trades), "shadow_oos")
Estimate(trades, stale) == EstimateOver(Outcomes(trades), Results(Outcomes(trades)), stale)

\* Correlation of two strategies over the sessions both closed a trade in;
\* with fewer than five of them a conservative value, then shrunk.
Correlation(a, b) ==
  LET dates == {a[i].closed : i \in DOMAIN a} \cap {b[i].closed : i \in DOMAIN b}
      on(os, d) == Expectancy(Results(SelectSeq(os, LAMBDA t : t.closed = d)))
      series(os) == LET ds == SetToSortSeq(dates, <) IN [i \in DOMAIN ds |-> on(os, ds[i])]
      va == series(a) vb == series(b)
      covariance == Total([i \in DOMAIN va |-> (va[i] - Expectancy(va)) * (vb[i] - Expectancy(vb))])
      scale == Max({1, SquareRoot(SumOfSquares(va, Expectancy(va)))})
                 * Max({1, SquareRoot(SumOfSquares(vb, Expectancy(vb)))})
      raw == IF Cardinality(dates) >= 5 THEN (100 * covariance) \div scale ELSE Phase4.fallback_correlation
  IN ((100 - Phase4.shrinkage) * raw) \div 100

-----------------------------------------------------------------------------
(* Weights, in hundredths of the available risk.                            *)

StateCap(state) == IF state = "ACTIVE" THEN Phase4.max_weight ELSE Phase4.max_weight \div 2

\* Percent, by the outcomes in the present regime once there are enough.
RegimeFactor(os, regime) ==
  LET v == Results(InRegime(os, regime))
      error == IF Len(v) < 2 THEN 0 ELSE Deviation(v) \div SquareRoot(Len(v))
      expected == Expectancy(v) - (Phase4.confidence * error) \div 100
  IN IF Len(v) < Settings.regime_samples THEN 75
     ELSE IF expected <= 0 THEN 50 ELSE Min({125, 100 + 5 * expected})

\* The share one weighted strategy may claim: the least of its state's cap,
\* its fractional Kelly ceiling and its evidence, less what it shares with
\* peers; around is the factor of the regime and the drawdown in percent.
RawWeight(state, e, score, overlap, around) ==
  LET cap == StateCap(state)
      kelly == IF e.known /\ e.conservative > 0
               THEN (Min({cap, (Phase4.kelly * e.conservative) \div e.variance})
                       * e.quality * (100 - e.uncertainty)) \div 10000
               ELSE IF e.known THEN 0 ELSE cap \div 2
      quality == IF e.known THEN e.quality ELSE score
      uncertainty == IF e.known THEN e.uncertainty ELSE Max({50, 100 - score})
      penalty == Max({35, 100 - Max({0, overlap})})
      decay == IF e.n = 0 THEN 100 ELSE Max({0, 100 - Min({100, e.deterioration})})
      supported == (((cap * quality * (100 - uncertainty)) \div 10000) * penalty * decay * around) \div 1000000
  IN Max({0, Min({cap, kelly, supported})})

\* Scaled down to the invested maximum, then to the largest stress loss.
StressLoss(w) ==
  LET invested == FoldFunction(LAMBDA a, b : a + b, 0, w)
      largest == Max({0} \cup {w[s] : s \in DOMAIN w})
  IN Max({8 * invested, 15 * largest})

ScaledWeights(w) ==
  LET invested == FoldFunction(LAMBDA a, b : a + b, 0, w)
      bounded == IF invested > Phase4.max_invested
                 THEN [s \in DOMAIN w |-> (w[s] * Phase4.max_invested) \div invested] ELSE w
      loss == StressLoss(bounded)
  IN IF loss > Phase4.max_stress
     THEN [s \in DOMAIN w |-> (bounded[s] * Phase4.max_stress) \div loss] ELSE bounded

Weights(authorized, policies, trades, stale, regime, drawdown) ==
  LET weighted == {s \in authorized : policies[s].state \in {"ACTIVE", "THROTTLED"}}
      outcomes(s) == OfClass(Observations(trades[s]), "shadow_oos")
      around(s) == (RegimeFactor(outcomes(s), regime) * Max({0, 100 - drawdown \div 6})) \div 100
      overlap(s) == Max({0} \cup {Correlation(outcomes(s), outcomes(t)) :
                                    t \in weighted \ {s}})
  IN ScaledWeights([s \in authorized |->
       IF s \in weighted
       THEN RawWeight(policies[s].state, Estimate(trades[s], stale[s]), policies[s].score, overlap(s), around(s))
       ELSE 0])

-----------------------------------------------------------------------------
(* Sleeves.                                                                 *)

\* Fixed budgets are handed out in the registry's order until their heat is
\* used up.
FixedBudgets(state, per_strategy, heat, authorized, policies) ==
  LET before(s) == {t \in authorized : policies[t].state = state /\ Entries[t].order < Entries[s].order}
  IN [s \in authorized |->
        IF policies[s].state # state THEN 0
        ELSE Min({per_strategy, Max({0, heat - per_strategy * Cardinality(before(s))})})]

ProbeBudgets(authorized, policies) ==
  FixedBudgets("PROBE", Settings.fixed_risk.PROBE, Phase4.probe_heat, authorized, policies)
ExplorationBudgets(authorized, policies) ==
  FixedBudgets("EXPLORATION", Settings.fixed_risk.EXPLORATION, Phase4.exploration_heat, authorized, policies)

\* Total stop-risk capacity, cut by the drawdown.
DrawdownMultiplier(drawdown) ==
  CASE drawdown >= 600 -> 0 [] drawdown \in 400..599 -> 50
    [] drawdown \in 200..399 -> 75 [] OTHER -> 100
AvailableRisk(drawdown) ==
  IF drawdown >= Phase4.drawdown_halt THEN 0
  ELSE (Phase4.max_heat * DrawdownMultiplier(drawdown)) \div 100

\* The share of each authorized strategy, scaled to what is available ...
Shares(authorized, policies, weights, available) ==
  LET probe == ProbeBudgets(authorized, policies)
      explore == ExplorationBudgets(authorized, policies)
      desired(s) == LET state == policies[s].state
                    IN CASE state = "PROBE" -> probe[s]
                         [] state = "EXPLORATION" -> explore[s]
                         [] OTHER -> (available * Min({weights[s], StateCap(state)})) \div 100
      total == FoldFunction(LAMBDA a, b : a + b, 0, [s \in authorized |-> desired(s)])
  IN [s \in authorized |-> IF total > available THEN (desired(s) * available) \div total ELSE desired(s)]

\* ... less what it holds, has reserved and has pending.
Sleeves(authorized, shares, consumed) ==
  [s \in authorized |-> Max({0, shares[s] - consumed[s]})]

\* The mode in which a strategy's orders are sized; without a budget or a
\* weight it is blocked.
Mode(s, authorized, policies, weights) ==
  LET state == policies[s].state
  IN CASE s \in authorized /\ ProbeBudgets(authorized, policies)[s] > 0 -> "probe"
       [] s \in authorized /\ ExplorationBudgets(authorized, policies)[s] > 0 -> "exploration"
       [] s \in authorized /\ state \in {"ACTIVE", "THROTTLED"} /\ weights[s] > 0 ->
            IF state = "ACTIVE" THEN "adaptive" ELSE "throttled"
       [] OTHER -> "blocked"

\* Phase 4's run over a verified registry snapshot, whose policies replace
\* the caller's; weights and shares are the ones of its authorized strategies.
\* book is what the caller read: consumption, complete, the active
\* reservations it included and the claims it found pending; an incomplete
\* attribution of what is held authorizes nobody.
Allocate(r, weights, shares, book) ==
  LET authorized == IF RegistryVerified(r) /\ book.complete THEN r.authorized ELSE {}
      sleeves == Sleeves(authorized, shares, book.consumption)
      mode(s) == Mode(s, authorized, r.policies, weights)
  IN [registry |-> r, authorized |-> authorized, sleeves |-> sleeves,
      weights |-> [s \in authorized |-> weights[s]],
      included |-> book.included, pending |-> book.pending,
      modes |-> [s \in Strategies |-> mode(s)],
      executable |-> \E s \in authorized : mode(s) # "blocked"]

\* The persisted allocation is the one its own inputs give, and executable.
AllocationReplayed(al) == al.executable

\* It is of the same registry snapshot, and speaks for this strategy.
AllocationVerified(al, r, s) ==
  /\ AllocationReplayed(al)
  /\ al.registry = r /\ RegistryVerified(r)
  /\ s \in al.authorized /\ al.authorized \subseteq Evaluate(r.policies, r.config)
  /\ DOMAIN al.sleeves = al.authorized
  /\ \A t \in al.authorized : al.sleeves[t] >= 0 /\ al.weights[t] \in 0..100
  /\ FoldFunction(LAMBDA a, b : a + b, 0, al.weights) <= 100

RiskMultiplier(weight) == Max({0, Min({100, (100 * weight) \div Phase4.max_weight})})

\* Candidates of one scan, best rank first, share the sleeves and what is
\* globally left; one that gets less than its minimum gets nothing.
CandidateShare(budget, c) ==
  LET left == IF c.strategy \in DOMAIN budget.sleeves THEN budget.sleeves[c.strategy] ELSE 0
      offered == Min({c.risk, left, budget.global})
  IN IF offered < c.minimum THEN 0 ELSE offered

AllocateCandidates(ranked, sleeves, global) ==
  FoldLeft(
    LAMBDA budget, c :
      LET given == CandidateShare(budget, c)
      IN [sleeves |-> [s \in DOMAIN budget.sleeves |-> budget.sleeves[s] - (IF s = c.strategy THEN given ELSE 0)],
          global |-> budget.global - given,
          given |-> budget.given @@ (c.id :> given)],
    [sleeves |-> sleeves, global |-> global, given |-> <<>>], ranked)
=============================================================================
