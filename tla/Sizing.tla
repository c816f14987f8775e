-------------------------------- MODULE Sizing --------------------------------
(***************************************************************************)
(* The size of one entry or ADD: the least of its target and of every      *)
(* ceiling that what is held, reserved and pending leaves open             *)
(* (service.py, phase3_risk.py, position_sizing.py, canonical_sizing.py).  *)
(* Money and risk are in hundredths of a percent of equity, prices in      *)
(* dollars, quantities in hundredths of the unit that a price buys.        *)
(***************************************************************************)
EXTENDS Allocation

CONSTANT Limits  \* position_sizing, phase3 risk profile, risk_budget, phase4 caps

-----------------------------------------------------------------------------
(* Claims on capacity: positions, active reservations, pending proposals.  *)
(* [id, symbol, cluster, strategy, notional, risk, mode, state]             *)

NotionalOf(claims) == MapThenSumSet(LAMBDA k : k.notional, claims)
RiskOf(claims) == MapThenSumSet(LAMBDA k : k.risk, claims)
OfSymbol(claims, y) == {k \in claims : k.symbol = y}
OfCluster(claims, g) == {k \in claims : k.cluster = g}
OfStrategy(claims, s) == {k \in claims : k.strategy = s}
Explorations(claims) == {k \in claims : k.mode = "exploration"}
Probes(claims, s) == {k \in OfStrategy(claims, s) : k.state = "PROBE"}

\* Every position is explained by lots and every lot by a position.
AttributionComplete(positions, lots) == positions = lots

\* Risk of each strategy: lots at the current mark, reservations, proposals
\* that wait for their approval.
StrategyConsumption(positions, reserved, waiting) ==
  [s \in Strategies |-> RiskOf(OfStrategy(positions, s)) + RiskOf(OfStrategy(reserved, s))
                          + RiskOf(OfStrategy(waiting, s))]

-----------------------------------------------------------------------------
(* Risk of one trade.                                                       *)

\* Percent; the classes of regimes that the words of a regime name.
RegimeMultiplier(regime) ==
  CASE regime = "extreme" -> 50 [] regime = "high" -> 75
    [] regime = "favorable" -> 115 [] regime = "normal" -> 100 [] OTHER -> 75

\* The states of one evaluation now, by which every sleeve is on or off.
StrategyStates(policies, config, healthy) ==
  [s \in Strategies |->
     IF ~healthy \/ policies[s] = NoDecision THEN "SUSPENDED"
     ELSE IF policies[s].state \in Executable /\ s \notin Evaluate(policies, config)
          THEN "SUSPENDED" ELSE policies[s].state]
EqualShare(states, s) == states[s] \in Executable

\* Fixed risk for PROBE and EXPLORATION; in the adaptive mode the full base,
\* scaled by the weight, whatever the state permits.
FullRisk(is_add) == IF is_add THEN Limits.add_risk ELSE Limits.base_risk
TradeBase(state, mode, full, is_add) ==
  CASE mode = "exploration" ->
         Min({StateRisk(state, full, is_add), Settings.fixed_risk.EXPLORATION, Limits.exploration_max})
    [] mode = "adaptive" -> full
    [] OTHER -> StateRisk(state, full, is_add)
TradeShare(mode, base, weight) ==
  CASE mode = "exploration" -> (100 * base) \div Limits.base_risk
    [] mode = "adaptive" -> RiskMultiplier(weight)
    [] OTHER -> 100
RiskOfBase(base, mode, weight, regime, drawdown) ==
  Min({Limits.max_trade, (((base * RegimeMultiplier(regime)) \div 100) * DrawdownMultiplier(drawdown)
                            * TradeShare(mode, base, weight)) \div 10000})
TradeRisk(state, mode, weight, regime, drawdown, is_add) ==
  RiskOfBase(TradeBase(state, mode, FullRisk(is_add), is_add), mode, weight, regime, drawdown)

\* The wider of the distance by true range and of that to the lowest
\* technical level below the price.
StopDistance(m, price) ==
  LET levels == {t \in m.levels : 0 < t /\ t < price}
  IN Max({0} \cup (IF m.range > 0 THEN {m.range} ELSE {})
             \cup (IF levels # {} THEN {price - Min(levels)} ELSE {}))
StopEvidence(stop, distance, price) == 0 < stop /\ stop < price /\ price - stop = distance
StopValid(distance, price) ==
  /\ StopEvidence(price - distance, distance, price)
  /\ 10000 * distance >= Limits.min_stop * price /\ 10000 * distance <= Limits.max_stop * price

NotionalFromRisk(risk, price, distance) == (Max({0, risk}) * price) \div distance
RiskFromNotional(notional, price, distance) == (notional * distance) \div price

-----------------------------------------------------------------------------
(* The ceilings.  w is what the sizing has read: symbol, cluster, strategy, *)
(* price, distance, state, mode, weight, sleeve, regime, drawdown, is_add,  *)
(* score, liquid, losses, cash, positions, reserved, pending.               *)

Committed(w) == w.reserved \cup w.pending
Room(limit, used) == Max({0, limit - used})

HeatCap(w) ==
  LET heat == IF RegimeMultiplier(w.regime) <= 50 THEN Limits.defensive_heat ELSE Limits.max_heat
  IN IF w.mode = "exploration" THEN Min({heat, Phase4.exploration_heat}) ELSE heat
GrossCap(w) ==
  LET gross == IF RegimeMultiplier(w.regime) >= 100 THEN Limits.favorable_gross ELSE Limits.normal_gross
  IN IF w.mode = "exploration" THEN Min({gross, Limits.exploration_gross}) ELSE gross

\* Cash, buying power and the exposure of the symbol, the cluster and the
\* portfolio, with what is committed but not held yet.
ExposureCaps(w) ==
  [cash_available |-> Room(w.cash, Limits.cash_reserve),
   cash_usage |-> Limits.cash_usage,
   buying_power |-> Room(w.buying_power, NotionalOf(Committed(w))),
   symbol |-> Room(Limits.symbol, NotionalOf(OfSymbol(w.positions, w.symbol))
                                    + NotionalOf(OfSymbol(Committed(w), w.symbol))),
   cluster |-> Room(Limits.cluster, NotionalOf(OfCluster(w.positions, w.cluster))
                                      + NotionalOf(OfCluster(Committed(w), w.cluster))),
   portfolio |-> Room(Limits.total, NotionalOf(w.positions) + NotionalOf(Committed(w)))]

RiskCaps(w, risk) ==
  LET worth(r) == NotionalFromRisk(r, w.price, w.distance)
  IN [stop_risk |-> worth(Limits.max_trade),
      allocation |-> worth(risk),
      phase3_heat_cap |-> worth(HeatCap(w) - RiskOf(w.positions) - RiskOf(Committed(w))),
      gross_exposure_cap |-> Room(GrossCap(w), NotionalOf(w.positions) + NotionalOf(Committed(w))),
      strategy_sleeve |-> worth(w.sleeve)]

\* All reservations count against the exploration heat, held lots do not.
ExplorationCaps(w) ==
  LET worth(r) == NotionalFromRisk(r, w.price, w.distance) waiting == Explorations(w.pending)
  IN [exploration_heat_cap |-> worth(Phase4.exploration_heat - RiskOf(waiting) - RiskOf(w.reserved)),
      exploration_strategy_cap |-> worth(Limits.exploration_max - RiskOf(OfStrategy(waiting, w.strategy)))]

ProbeCaps(w) ==
  LET probes == Probes(w.positions \cup w.reserved, w.strategy)
  IN [probe_heat_cap |-> NotionalFromRisk(Phase4.probe_heat - RiskOf(probes), w.price, w.distance),
      probe_gross_cap |-> Room(Limits.probe_gross, NotionalOf(probes)),
      probe_active_count_cap |-> IF Cardinality(probes) >= Limits.probe_max_active THEN 0 ELSE Limits.total]

Caps(w, risk) ==
  ExposureCaps(w) @@ RiskCaps(w, risk)
    @@ (IF w.mode = "exploration" THEN ExplorationCaps(w) ELSE <<>>)
    @@ (IF w.mode = "probe" THEN ProbeCaps(w) ELSE <<>>)

SizingRefused(w, permitted) ==
  \/ permitted <= 0
  \/ w.mode = "blocked"
  \/ w.mode = "adaptive" /\ RiskMultiplier(w.weight) = 0
  \/ w.mode = "probe" /\ (w.is_add \/ w.score < Limits.probe_min_score)
  \/ ~StopValid(w.distance, w.price)
  \/ w.losses.daily >= Limits.daily_throttle \/ w.losses.weekly >= Limits.weekly_throttle
  \/ DrawdownMultiplier(w.drawdown) = 0
  \/ ~w.liquid
  \/ w.regime = "extreme"

NoSize == [notional |-> 0, risk |-> 0, caps |-> <<>>]

\* _calculate_dynamic_size
Target(worth, is_add) == IF is_add THEN (worth * Limits.add_multiplier) \div 100 ELSE worth
SizeOf(w, notional, caps) ==
  IF SizingRefused(w, StateRisk(w.state, FullRisk(w.is_add), w.is_add)) \/ notional < Limits.minimum THEN NoSize
  ELSE [notional |-> notional, risk |-> RiskFromNotional(notional, w.price, w.distance), caps |-> caps]
SizeWithin(w, risk, caps) ==
  SizeOf(w, Min({Target(NotionalFromRisk(risk, w.price, w.distance), w.is_add)} \cup Range(caps)), caps)
SizeAtRisk(w, risk) == SizeWithin(w, risk, Caps(w, risk))
DynamicSize(w) == SizeAtRisk(w, TradeRisk(w.state, w.mode, w.weight, w.regime, w.drawdown, w.is_add))

-----------------------------------------------------------------------------
(* The budget of one scan: candidates in rank order, each with the size its *)
(* own sizing gave, take what the ones before left.                         *)

\* The exposure and risk limits that the earlier candidates left open.
Offered(budget, c, positions, reserved) ==
  LET used == NotionalOf(positions) + NotionalOf(reserved) + NotionalOf(budget.taken)
  IN Min({c.notional,
          Limits.total - used,
          Limits.symbol - NotionalOf(OfSymbol(positions \cup budget.taken, c.symbol)),
          Limits.cluster - NotionalOf(OfCluster(positions \cup budget.taken, c.cluster)),
          c.buying_power - NotionalOf(reserved) - NotionalOf(budget.taken),
          NotionalFromRisk(Limits.per_trade, c.price, c.distance),
          NotionalFromRisk(Limits.open_risk - RiskOf(positions \cup reserved \cup budget.taken), c.price, c.distance)})

\* The share of the sleeves that this candidate's risk gets.
SleeveShare(budget, c, offered) ==
  AllocateCandidates(<<[id |-> c.id, strategy |-> c.strategy,
                        risk |-> RiskFromNotional(offered, c.price, c.distance),
                        minimum |-> RiskFromNotional(Limits.minimum, c.price, c.distance)]>>,
                     budget.sleeves, budget.global)

Taken(budget, c, offered, shared, final) ==
  IF offered < Limits.minimum \/ shared.given[c.id] <= 0 \/ final < Limits.minimum THEN budget
  ELSE [taken |-> budget.taken \cup {[c.claim EXCEPT !.notional = final,
                                       !.risk = RiskFromNotional(final, c.price, c.distance)]},
        sleeves |-> shared.sleeves, global |-> shared.global]
TakenShare(budget, c, offered, shared) ==
  Taken(budget, c, offered, shared, Min({offered, NotionalFromRisk(shared.given[c.id], c.price, c.distance)}))
TakenOffer(budget, c, offered) == TakenShare(budget, c, offered, SleeveShare(budget, c, offered))
BudgetStep(budget, c, positions, reserved) == TakenOffer(budget, c, Offered(budget, c, positions, reserved))

RankedBudget(ranked, sleeves, positions, reserved) ==
  FoldLeft(LAMBDA budget, c : BudgetStep(budget, c, positions, reserved),
           [taken |-> {}, sleeves |-> sleeves,
            global |-> FoldFunction(LAMBDA a, b : a + b, 0, sleeves)], ranked).taken

-----------------------------------------------------------------------------
(* Canonical terms of an order and the ceilings its approval displayed.     *)

\* By quantity, at the most conservative price; the risk is recomputed.
CanonicalTerms(quantity, reference, stop) ==
  [quantity |-> quantity, notional |-> (quantity * reference) \div 100,
   risk |-> (quantity * Max({0, reference - stop})) \div 100]

\* Mutant: the ceiling on the notional alone.
NotionalWithinApproved(terms, displayed) == terms.notional <= displayed.notional

WithinApproved(terms, displayed) ==
  /\ terms.quantity <= displayed.quantity
  /\ terms.notional <= displayed.notional
  /\ terms.risk <= displayed.risk
=============================================================================
