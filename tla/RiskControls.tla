----------------------------- MODULE RiskControls -----------------------------
(***************************************************************************)
(* What an order must pass after it was sized: the risk engine over the    *)
(* portfolio as it is (risk_engine.py), the combined risk of an ADD with   *)
(* the position it adds to (position_risk.py), and the ceilings that hold  *)
(* in the transaction that reserves (execution_risk_snapshot.py,           *)
(* execution.py).                                                          *)
(***************************************************************************)
EXTENDS Conviction

CONSTANT Guard  \* settings of the risk engine

-----------------------------------------------------------------------------
(* The portfolio around one proposal p.  b is a state of broker and         *)
(* database: positions, reserved (active reservations), orders and intents  *)
(* (open, each [key, symbol, side, quantity, state]), held risk, blocker.   *)
(* own is the key of the proposal's own intent, or none.                    *)

IsEntry(p) == p.action \in {"entry", "add"}
NoIntent == "none"

\* Broker orders are authoritative; an intent counts only where no order
\* carries its key.
ActiveOrders(p, b, own) ==
  LET known == {o.key : o \in b.orders}
  IN {o \in b.orders \cup {i \in b.intents : i.key \notin known /\ i.key # own} : o.symbol = p.symbol}

Conflicts(p, b, own, side) == \E o \in ActiveOrders(p, b, own) : o.side = side
OpenSell(p, b, own) ==
  MapThenSumSet(LAMBDA o : o.quantity, {o \in ActiveOrders(p, b, own) : o.side = "sell"})
Holding(p, b) == MapThenSumSet(LAMBDA k : k.quantity, OfSymbol(b.positions, p.symbol))

\* What is held and reserved, with the proposal unless it is reserved already.
Projected(p, b, increment) ==
  LET held == NotionalOf(b.positions) reserved == NotionalOf(b.reserved)
  IN [total |-> held + reserved + increment,
      symbol |-> NotionalOf(OfSymbol(b.positions, p.symbol)) + NotionalOf(OfSymbol(b.reserved, p.symbol)) + increment,
      cluster |-> NotionalOf(OfCluster(b.positions, p.cluster)) + NotionalOf(OfCluster(b.reserved, p.cluster)) + increment]

UnknownBuys(b, own) ==
  {i \in b.intents : i.key # own /\ i.side = "buy" /\ i.state \in {"unknown", "reconciliation_required"}}

\* Loss of what is held from the current price to its stop.
HeldStopRisk(positions, price) ==
  MapThenSumSet(LAMBDA k : (k.quantity * Room(price, k.stop)) \div 100, positions)

\* The canonical snapshot: what is held, what is reserved, and both.
CanonicalSnapshot(b, price) ==
  LET gross == NotionalOf(b.positions) reserved == NotionalOf(b.reserved)
      held == HeldStopRisk(b.positions, price)
  IN [gross |-> gross, reserved |-> reserved, projected_gross |-> gross + reserved,
      held_risk |-> held, projected_risk |-> held + RiskOf(b.reserved),
      unknown |-> NotionalOf({k \in b.reserved : \E i \in b.intents : i.key = k.id /\ i.state = "unknown"})]

\* PROBE commitments as the service's own context carries them.
ProbeProjection(p, w) ==
  LET probes == Probes(w.positions \cup w.reserved, p.strategy)
      is_probe == IF p.mode = "probe" THEN 1 ELSE 0
  IN [known |-> TRUE, count |-> Cardinality(probes) + (IF p.action = "entry" THEN is_probe ELSE 0),
      heat |-> RiskOf(probes) + is_probe * p.risk, gross |-> NotionalOf(probes) + is_probe * p.notional]
NoProbeProjection == [known |-> FALSE]

\* How pressing an exit of a held position is, as the scan scores it: points
\* for its loss (bps of the entry price, if that is known), its trend, the move
\* against it (hundredths of a true range), volatility (percent), the minutes
\* the session lasts, and for evidence that would let it be sold.
Points(value, steps) == Max({0} \cup {t[2] : t \in {u \in steps : value >= u[1]}})
TrendPoints == [above |-> 0, below_ma50 |-> 12, below_falling_ma50 |-> 16, below_ma200 |-> 20]

EmergencyScore(x) ==
  (IF x.entry_known
   THEN Points(x.loss, {<<400, 10>>, <<600, 20>>, <<800, 28>>, <<1000, 35>>})
          + Points(x.adverse, {<<75, 5>>, <<100, 10>>, <<150, 15>>})
   ELSE 35 + 15)
    + TrendPoints[x.trend]
    + Points(x.volatility, {<<25, 4>>, <<36, 7>>, <<51, 10>>})
    + (IF x.minutes > 90 THEN 0 ELSE IF x.minutes >= 30 THEN 5 ELSE 10)
    + 3 + (IF x.recent THEN 5 ELSE 0) + (IF x.selling THEN 0 ELSE 2)

\* The worst of the positions held.
Emergency(b) ==
  Max({0} \cup {EmergencyScore(b.marks[k.symbol]) : k \in {h \in b.positions : h.symbol \in DOMAIN b.marks}})

\* The context the service builds for its own checks ...
PortfolioContext(p, b, w) ==
  [projected |-> Projected(p, b, p.notional), buying_power |-> Room(b.buying_power, NotionalOf(b.reserved)),
   conflicting_buy |-> Conflicts(p, b, NoIntent, "buy"), conflicting_sell |-> Conflicts(p, b, NoIntent, "sell"),
   sellable |-> Room(Holding(p, b), OpenSell(p, b, NoIntent)), held |-> Holding(p, b) > 0,
   exit_pending |-> b.blocked, unknown |-> UnknownBuys(b, NoIntent) # {}, emergency |-> Emergency(b),
   probe |-> ProbeProjection(p, w)]

\* ... and the one of the risk snapshot the executor captures: the emergency
\* score and the PROBE commitments are not in it.
CandidateIncrement(p, b, own) ==
  IF IsEntry(p) /\ p.side = "buy" /\ ~\E k \in b.reserved : k.id = own THEN p.notional ELSE 0

CapturedContext(p, b, own) ==
  LET others == {i \in b.intents : i.key # own}
  IN [projected |-> Projected(p, b, CandidateIncrement(p, b, own)), buying_power |-> Room(b.buying_power, NotionalOf(b.reserved)),
      conflicting_buy |-> Conflicts(p, b, own, "buy"), conflicting_sell |-> Conflicts(p, b, own, "sell"),
      sellable |-> Room(Holding(p, b), OpenSell(p, b, own)), held |-> Holding(p, b) > 0,
      exit_pending |-> b.blocked \/ (\E i \in others : i.side = "sell"),
      unknown |-> UnknownBuys(b, own) # {}, emergency |-> 0, probe |-> NoProbeProjection]

\* What every order reserves against: exposure by the positions read from the
\* broker, risk by the latest persisted snapshot, and the configured ceilings.
ReservationLimits(p, b, stop_risk) ==
  [base |-> [total |-> NotionalOf(b.positions), symbol |-> NotionalOf(OfSymbol(b.positions, p.symbol)),
             cluster |-> NotionalOf(OfCluster(b.positions, p.cluster)), risk |-> stop_risk],
   ceiling |-> [total |-> Limits.total, symbol |-> Limits.symbol, cluster |-> Limits.cluster,
                risk |-> Limits.open_risk, buying_power |-> b.buying_power]]

-----------------------------------------------------------------------------
(* The risk engine.  e is the environment it measured: up (facilities),     *)
(* market_open, kill_switch, telegram_required, losses, runtime_authorized, *)
(* universe, approved, quoted.                                              *)

Facilities == {"power", "internet", "database", "broker"}

HealthAllows(p, e) ==
  /\ e.market_open /\ ~e.kill_switch
  /\ Facilities \subseteq e.up
  /\ IsEntry(p) /\ e.telegram_required => "telegram" \in e.up
  /\ p.autonomous => Authority.autonomous /\ Authority.autonomous_capabilities

MarketDataAllows(p) ==
  /\ p.price > 0
  /\ -5 <= p.age /\ p.age <= Guard.max_age
  /\ IsEntry(p) => p.bars >= Guard.min_bars /\ p.gap <= Guard.max_gap /\ StopEvidence(p.stop, p.distance, p.price)

ExposureAllows(p, c) ==
  IsEntry(p) => /\ c.projected.total <= Limits.total
                /\ c.projected.symbol <= Limits.symbol
                /\ c.projected.cluster <= Limits.cluster

NothingPending(p, c) ==
  IsEntry(p) => ~c.exit_pending /\ ~c.unknown /\ c.emergency <= Guard.max_emergency

\* The largest order of the configuration, and every ceiling its sizing found.
MaximumNotional(is_add) ==
  Min({Guard.max_notional} \cup (IF Guard.stage_cap THEN {IF is_add THEN Guard.stage_add ELSE Guard.stage_entry} ELSE {}))
SizeAllows(p, c) ==
  IF IsEntry(p)
  THEN /\ Limits.minimum <= p.notional /\ p.notional <= MaximumNotional(p.action = "add")
       /\ \A n \in DOMAIN p.caps : p.notional <= p.caps[n]
       /\ p.notional <= c.buying_power
  ELSE p.quantity > 0

OrdersAllow(p, c) ==
  /\ p.side = "buy" /\ IsEntry(p) => ~c.conflicting_buy
  /\ p.side = "sell" /\ ~IsEntry(p) => ~c.conflicting_sell /\ p.quantity <= c.sellable
  /\ p.side = "sell" => ~IsEntry(p)
  /\ c.held /\ IsEntry(p) => p.action = "add" /\ Guard.allow_add

UniverseAllows(p, e) ==
  /\ p.profile.active /\ p.profile.execution /\ p.profile.proposals /\ p.asset_class = "equity"
  /\ \/ p.source = "watchlist"
     \/ /\ p.source = "dynamic" /\ p.symbol \in DOMAIN e.universe
        /\ LET info == e.universe[p.symbol]
           IN info.tier = "paper_tradable" /\ info.compatible /\ info.executable
                /\ info.lane \notin {"global_research_only", "excluded_or_low_quality"}

LossesAllow(p, e) ==
  IsEntry(p) => /\ e.losses.known
                /\ e.losses.daily < Limits.daily_throttle /\ e.losses.weekly < Limits.weekly_throttle

ProbeAllows(p, c, e) ==
  IsEntry(p) /\ (p.mode = "probe" \/ p.state = "PROBE") =>
    /\ p.state = "PROBE" /\ p.action = "entry" /\ p.score >= Limits.probe_min_score
    /\ c.probe.known
    /\ c.probe.count <= Limits.probe_max_active
    /\ c.probe.heat <= Phase4.probe_heat /\ c.probe.gross <= Limits.probe_gross
    /\ p.liquid

StrategyAllows(p, e) == IsEntry(p) => p.current /\ p.strategy \in e.runtime_authorized

\* final: the executor's own evaluation, over the captured context.
FinalAllows(p, e) ==
  /\ e.approved
  /\ e.protective \/ (e.quoted /\ p.order_type = "limit")

EngineAllows(p, c, e, final) ==
  /\ HealthAllows(p, e) /\ MarketDataAllows(p) /\ ExposureAllows(p, c) /\ NothingPending(p, c)
  /\ SizeAllows(p, c) /\ OrdersAllow(p, c) /\ UniverseAllows(p, e) /\ LossesAllow(p, e)
  /\ ProbeAllows(p, c, e) /\ StrategyAllows(p, e)
  /\ final => FinalAllows(p, e)

-----------------------------------------------------------------------------
(* An ADD: the risk of the whole position, before and after.  a: shares,    *)
(* price and stop held, shares and price added, the tightened stop, the     *)
(* verified profit credit, the deployment mode, its allowance (-1: none is  *)
(* configured) and the caps, and what else is exposed.                      *)

AddRisk(a) ==
  LET lot(q, price, stop) == (q * Room(price, stop)) \div 100
      before == lot(a.shares, a.price, a.stop)
      after == lot(a.shares, a.price, a.tightened) + lot(a.added, a.add_price, a.tightened)
      credit == Min({a.credit, before, after})
  IN [before |-> before - credit + a.reserved_risk, after |-> after - credit + a.reserved_risk,
      notional |-> (a.shares * a.price + a.added * a.add_price) \div 100]

Allowance(a) ==
  IF a.mode \in {"DEFENSIVE", "NORMAL"} THEN 0 ELSE Max({0, a.allowance})

AddEligible(a) ==
  LET r == AddRisk(a)
  IN /\ a.mode # "DEFENSIVE"
     /\ a.tightened >= a.stop
     /\ a.mode \in {"OPPORTUNISTIC", "AGGRESSIVE"} => a.allowance >= 0
     /\ r.after - r.before <= Allowance(a)
     /\ r.after <= Min({DeploymentLimit[a.mode].trade, a.conviction_cap, Limits.max_trade})
     /\ a.other_risk + r.after <= Limits.max_heat
     /\ r.notional + a.symbol_reserved <= Limits.symbol
     /\ r.notional + a.other_cluster <= Limits.cluster
     /\ r.notional + a.other_gross <= Limits.hard_gross

-----------------------------------------------------------------------------
(* The transaction that creates the intent and its reservation.  active is  *)
(* what is reserved now, claim what this order would reserve.               *)

ExposureReservable(limits, active, claim) ==
  LET within(base, others, name) == base + others + claim.notional <= limits.ceiling[name]
  IN /\ within(limits.base.total, NotionalOf(active), "total")
     /\ within(limits.base.symbol, NotionalOf(OfSymbol(active, claim.symbol)), "symbol")
     /\ within(limits.base.cluster, NotionalOf(OfCluster(active, claim.cluster)), "cluster")
     /\ limits.base.risk + RiskOf(active) + claim.risk <= limits.ceiling.risk
     /\ NotionalOf(active) + claim.notional <= limits.ceiling.buying_power

\* The captured limits carry no PROBE count, heat or gross: one slot it is.
ProbeReservable(active, lots, claim) ==
  claim.mode = "probe" => {k \in active \cup lots : k.state = "PROBE"} = {}

\* What the strategy reserved since its sleeve was allocated, beyond what the
\* allocation had counted as pending, comes off the sleeve.
PendingRisk(al, id) == RiskOf({k \in al.pending : k.id = id})
\* Mutant: what the allocation read is what it still is.
NothingSince(al, active, s) == 0

SinceAllocation(al, active, s) ==
  MapThenSumSet(LAMBDA k : Room(k.risk, PendingRisk(al, k.id)),
                {k \in OfStrategy(active, s) : k.id \notin al.included})

SleeveReservable(al, r, active, supplied, claim) ==
  LET s == claim.strategy
      own == Room(claim.risk, PendingRisk(al, claim.id))
  IN /\ AllocationVerified(al, r, s)
     /\ supplied <= al.sleeves[s]
     /\ SinceAllocation(al, active, s) + own <= Min({supplied, al.sleeves[s]})

Reservable(terms, displayed, limits, active, lots, al, r, supplied, claim) ==
  /\ WithinApproved(terms, displayed)
  /\ ExposureReservable(limits, active, claim)
  /\ ProbeReservable(active, lots, claim)
  /\ SleeveReservable(al, r, active, supplied, claim)
=============================================================================
