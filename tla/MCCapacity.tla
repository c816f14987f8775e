----------------------------- MODULE MCCapacity -----------------------------
(***************************************************************************)
(* An instance of Capacity for TLC: the configured risk limits with small  *)
(* sample counts.  s1 has two proposals, the second an ADD, and evidence   *)
(* that worsens; s2 has none, but shares the family and the budget.  All   *)
(* compete for one cluster with what is held.                              *)
(***************************************************************************)
EXTENDS Capacity

TheSettings ==
  [window |-> 2, regime_samples |-> 1, target_factor |-> 175, target_expectancy |-> 25,
   target_drawdown |-> 300, target_streak |-> 4, target_divergence |-> 50, min_shadow |-> 4,
   min_throttled |-> 1, min_active |-> 2, divergence_from |-> 4, probe_shadow |-> 2,
   probe_concentration |-> 5, hard_drawdown |-> 600, hard_streak |-> 8, hard_divergence |-> 150,
   min_regimes |-> 2, score_active |-> 75, score_throttled |-> 60, score_exploration |-> 45,
   fixed_risk |-> [PROBE |-> 3, EXPLORATION |-> 8]]
TheValidation ==
  [embargo |-> 1, test |-> 1, train |-> 1, folds |-> 2, samples |-> 4, positive_folds |-> 50, fdr_alpha |-> 10]

Entry(order) ==
  [implementation_available |-> TRUE, implementation_current |-> TRUE, execution_eligible |-> TRUE,
   paper_eligible |-> TRUE, live_eligible |-> FALSE, human_authorized |-> TRUE,
   config_authorized |-> TRUE, suspended |-> FALSE, in_window |-> TRUE, order |-> order]
TheEntries == [s1 |-> Entry(1), s2 |-> Entry(2)]
TheAuthority ==
  [paper_only |-> TRUE, live_disabled |-> TRUE, autonomous |-> FALSE, autonomous_capabilities |-> FALSE,
   known_configurations |-> {Config}]
ThePhase4 ==
  [prior |-> 2, confidence |-> 196, suspend_at |-> 150, min_samples |-> 4, min_regimes |-> 2,
   fallback_variance |-> 100, fallback_correlation |-> 35, shrinkage |-> 50, max_weight |-> 35, kelly |-> 20,
   max_invested |-> 75, max_stress |-> 500, probe_heat |-> 25, exploration_heat |-> 25, max_heat |-> 50,
   drawdown_halt |-> 600]
TheLimits ==
  [base_risk |-> 10, add_risk |-> 10, max_trade |-> 35, exploration_max |-> 10, min_stop |-> 50,
   max_stop |-> 2000, defensive_heat |-> 50, max_heat |-> 175, favorable_gross |-> 4000, normal_gross |-> 3000,
   exploration_gross |-> 750, hard_gross |-> 5000, cash_reserve |-> 2000, cash_usage |-> 1000, symbol |-> 600,
   cluster |-> 360, total |-> 5000, probe_gross |-> 750, probe_max_active |-> 3, probe_min_score |-> 72,
   daily_throttle |-> 75, weekly_throttle |-> 150, add_multiplier |-> 50, minimum |-> 5, per_trade |-> 35,
   open_risk |-> 175]
TheGuard ==
  [max_age |-> 30, min_bars |-> 50, max_gap |-> 500, max_emergency |-> 80, max_notional |-> 1000,
   max_move |-> 150, hard_move |-> 600, stage_cap |-> FALSE, stage_add |-> 0, stage_entry |-> 0, allow_add |-> TRUE]

\* The economics with its samples scaled down like the other counts, and z with
\* them: in exploration the wider stop earns its costs, the closer one does not.
TheEconomics ==
  [prior_wins |-> 4, prior_payoffs |-> 2, z |-> 135, max_target |-> 400, spread_unit |-> 40, max_spread |-> 50,
   other_costs |-> 17, max_break_even |-> 75, max_cost |-> 50]

\* One trade a day in two regimes and two symbols, the first ones in shadow.
TradesOf(shadow, paper) ==
  LET results == shadow \o paper
  IN [i \in DOMAIN results |->
        [class |-> IF i <= Len(shadow) THEN "shadow_oos" ELSE "actual_paper", complete |-> TRUE, risk |-> 100,
         r |-> results[i], g |-> results[i] + 4, regime |-> IF i % 2 = 0 THEN "high" ELSE "normal",
         symbol |-> i % 2, opened |-> i,
         closed |-> i + 1]]
Good == <<100, 108, 100, 108>>
\* s1 is active, then back to exploration; s2 is researched, then a probe.
TheHistory ==
  [s1 |-> <<TradesOf(Good, <<100, 104, -6>>), TradesOf(Good, <<100, 104, -6, -90, -90>>)>>,
   s2 |-> <<TradesOf(<<100>>, <<>>), TradesOf(<<100, 108, 100>>, <<>>)>>]
TheBootstraps == {[positive |-> TRUE, p |-> 1], [positive |-> TRUE, p |-> 100]}

Held == [shares |-> 500, price |-> 20, stop |-> 19, tightened |-> 20, credit |-> 0]
Signal(symbol, strategy, action, rank) ==
  [symbol |-> symbol, cluster |-> "g", strategy |-> strategy, action |-> action, rank |-> rank, score |-> 90,
   liquid |-> TRUE, quality |-> 90, reward |-> 220, execution |-> 80, volume |-> 400, spread |-> 20,
   fresh |-> TRUE, healthy |-> TRUE, negative_regime |-> FALSE, holding |-> Held]
TheSetups ==
  [c1 |-> Signal("y1", "s1", "entry", 1), c2 |-> Signal("y2", "s1", "add", 2)]
TheHoldings ==
  {[id |-> "h", symbol |-> "y2", cluster |-> "g", strategy |-> "s1", notional |-> 100, quantity |-> 500,
    risk |-> 5, stop |-> 19, mode |-> "adaptive", state |-> "ACTIVE"]}
TheQuotes ==
  {[price |-> 20, range |-> 1, levels |-> {19}], [price |-> 22, range |-> 1, levels |-> {18, 19}]}
TheAccount ==
  [regime |-> "normal", drawdown |-> 0, losses |-> [daily |-> 0, weekly |-> 0], cash |-> 9000,
   buying_power |-> 9000]
Calm ==
  [entry_known |-> TRUE, loss |-> 0, adverse |-> 0, trend |-> "above", volatility |-> 20, minutes |-> 200,
   recent |-> TRUE, selling |-> FALSE]
Falling == [Calm EXCEPT !.loss = 1000, !.adverse = 150, !.trend = "below_ma200", !.volatility = 51]
Open ==
  [market_open |-> TRUE, kill_switch |-> FALSE, up |-> Facilities \cup {"telegram"}, telegram_required |-> TRUE,
   losses |-> [known |-> TRUE, daily |-> 0, weekly |-> 0], universe |-> <<>>, approved |-> TRUE,
   protective |-> FALSE, quoted |-> TRUE, healthy |-> TRUE, blocked |-> FALSE, marks |-> [y2 |-> Calm]]
TheEnvironments == {Open, [Open EXCEPT !.healthy = FALSE, !.blocked = TRUE, !.marks = [y2 |-> Falling]]}
=============================================================================
