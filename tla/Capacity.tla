------------------------------ MODULE Capacity ------------------------------
(***************************************************************************)
(* The capacity of one paper account, shared by the scanner, which sizes   *)
(* and proposes entries and ADDs in its cycles, and by the scanner and the *)
(* listener, which each revalidate, reserve and send what was approved.    *)
(* Evidence about the strategies arrives meanwhile; each process uses the  *)
(* registry it froze, orders fill and are booked between any two reads.    *)
(* Money and risk are in hundredths of a percent of equity.                *)
(***************************************************************************)
EXTENDS RiskControls, TradeEconomics

CONSTANTS
  Setups,        \* proposal -> what its signal fixes, and its rank
  Holdings,      \* claims of the positions held throughout
  History,       \* strategy -> stage -> the trades known of it by then
  Stages,        \* the stages of the evidence, bounds its changes
  Bootstraps,    \* the outcomes of a bootstrap that are considered
  Quotes,        \* what the broker may quote at a final revalidation
  Account,       \* regime, drawdown, losses, cash and buying power
  Environments,  \* what the risk engine may measure
  MaxCycles      \* bounds the cycles of the scanner

ASSUME CapacityAssumption == MaxCycles \in Nat /\ Stages \subseteq Nat /\ 1 \in Stages

Processes == {"scanner", "listener"}
Plans == DOMAIN Setups
Config == 1

VARIABLES
  adaptive,   \* adaptive conviction and sizing are enabled
  evidence,   \* stage of the evidence, and what its bootstrap says
  refreshed,  \* the evidence of the latest persisted decisions
  frozen,     \* per process, the evidence of the registry it keeps
  plan,       \* the proposals, with their intents and reservations
  job,        \* per process, the locals of the approval it executes
  held_risk,  \* stop risk of the positions in the last persisted snapshot
  cycles

vars == <<adaptive, evidence, refreshed, frozen, plan, job, held_risk, cycles>>

-----------------------------------------------------------------------------
(* Evidence and what is derived from it, for every value it can have.      *)

Boots(n) ==
  {b \in [Strategies -> Bootstraps] :
     \A s \in Strategies :
       LET v == Results(Observations(History[s][n]))
       IN b[s] \in BootstrapOutcomes(v) /\ (Len(v) < Validation.samples => b[s].p = 100)}
Versions == UNION {{[stage |-> n, boot |-> b] : b \in Boots(n)} : n \in Stages}
NoVersion == [stage |-> 0]

Trades(n) == [s \in Strategies |-> History[s][n]]
Stale == [s \in Strategies |-> FALSE]

\* refresh_all: one family, one decision for each strategy.
RefreshedAll(stage, status) ==
  [s \in Strategies |-> RefreshedDecision(History[s][stage], Stale[s], status[s], Config)]
Decisions(v) ==
  RefreshedAll(v.stage, ValidationStatus([s \in Strategies |-> Observations(History[s][v.stage])], v.boot))

\* valid_policy_map.
ValidOf(decisions) == [s \in Strategies |-> LatestValidPolicy(decisions[s], Config)]
Unknown == [s \in Strategies |-> NoDecision]

RegistryTable ==
  [v \in Versions |-> RegistrySnapshot(ValidOf(Decisions(v)), Config)]
    @@ (NoVersion :> RegistrySnapshot(Unknown, Config))
PoliciesOf(v) == RegistryTable[v].policies

\* The weights and shares that the trades known by stage n give a registry.
Shared(r, weights) ==
  [registry |-> r, weights |-> weights,
   shares |-> Shares(r.authorized, r.policies, weights, AvailableRisk(Account.drawdown))]
Divided(r, n) ==
  Shared(r, Weights(r.authorized, r.policies, Trades(n), Stale, Account.regime, Account.drawdown))
DivisionTable == [x \in (Versions \cup {NoVersion}) \X Stages |-> Divided(RegistryTable[x[1]], x[2])]

-----------------------------------------------------------------------------
(* Proposals, intents, reservations, positions and lots.                   *)

NoClaim == [id |-> NoIntent]
Idle == [pc |-> "idle"]
NoPlan == [stage |-> "none", claim |-> NoClaim, displayed |-> NoDisplay, version |-> NoVersion, price |-> 0]

ClaimsIn(stages) == {plan[c].claim : c \in {d \in Plans : plan[d].stage \in stages}}
Positions == Holdings \cup ClaimsIn({"filled", "booked"})
Lots == Holdings \cup ClaimsIn({"booked"})

\* A reservation lasts until its fill is booked or it closes unfilled.
Reserved == ClaimsIn({"reserved", "sent", "filled"})

\* Mutant: what is being executed no longer waits.
PendingUntilApproved == ClaimsIn({"pending"})

\* Displayed or approved without an intent, the caller's own included ...
Pending == ClaimsIn({"pending", "approved"})
\* ... and what the consumption of a sleeve counts of them.
Waiting == ClaimsIn({"pending"})

\* What an allocation reads of the attribution; the positions are the ones
\* its caller fetched.
Book(positions) ==
  [consumption |-> StrategyConsumption(Lots, Reserved, Waiting),
   complete |-> AttributionComplete(positions, Lots),
   included |-> {k.id : k \in Reserved}, pending |-> Waiting]

\* An allocation is persisted with the inputs that give it.
Inputs(v) == [version |-> v, stage |-> evidence.stage, book |-> Book(Positions)]
AllocationFrom(division, book) == Allocate(division.registry, division.weights, division.shares, book)
AllocationOf(inputs) == AllocationFrom(DivisionTable[<<inputs.version, inputs.stage>>], inputs.book)

\* Mutant: the decisions the process froze.
FrozenPolicies(p) == PoliciesOf(IF frozen[p] = NoVersion THEN refreshed ELSE frozen[p])

\* The valid decisions as they are persisted now.
CurrentPolicies(p) == PoliciesOf(refreshed)

Permitted(state, c) ==
  LET is_add == Setups[c].action = "add"
  IN StateRisk(state, IF is_add THEN Limits.add_risk ELSE Limits.base_risk, is_add)

\* What a sizing reads, for the quote q and under the policy state of its
\* caller.
SizingInput(c, q, positions, al, state) ==
  LET s == Setups[c].strategy known == s \in al.authorized
  IN Setups[c]
       @@ [id |-> c, price |-> q.price, distance |-> StopDistance(q, q.price), is_add |-> Setups[c].action = "add",
           state |-> state, mode |-> al.modes[s],
           weight |-> IF known THEN al.weights[s] ELSE 0, sleeve |-> IF known THEN al.sleeves[s] ELSE 0,
           regime |-> Account.regime, drawdown |-> Account.drawdown, losses |-> Account.losses,
           cash |-> Account.cash, buying_power |-> Account.buying_power,
           positions |-> positions, reserved |-> Reserved, pending |-> Pending]

\* A claim with the protective stop of its proposal.
Claim(w, stop, id, notional) ==
  [id |-> id, symbol |-> w.symbol, cluster |-> w.cluster, strategy |-> w.strategy, notional |-> notional,
   quantity |-> (100 * notional) \div w.price, risk |-> (notional * Max({0, w.price - stop})) \div w.price,
   stop |-> stop, mode |-> w.mode, state |-> w.state]

\* Broker and database around an order; the exit blocker and the marks of the
\* positions are the environment's.
Rows(stages) ==
  {[key |-> c, symbol |-> plan[c].claim.symbol, side |-> "buy",
    quantity |-> plan[c].claim.quantity, state |-> plan[c].stage] : c \in {d \in Plans : plan[d].stage \in stages}}
Surroundings(e) ==
  [positions |-> Positions, reserved |-> Reserved, orders |-> Rows({"sent"}),
   intents |-> Rows({"reserved", "sent", "filled"}), buying_power |-> Account.buying_power,
   blocked |-> e.blocked, marks |-> e.marks]

\* The order as the risk engine sees it, and the environment with the
\* strategies that the registry kept by the process authorizes.
Order(c, claim, q, caps) ==
  claim @@ Setups[c]
    @@ [side |-> "buy", price |-> q.price, distance |-> q.price - claim.stop, age |-> 0,
        bars |-> Guard.min_bars, gap |-> 0, caps |-> caps, current |-> TRUE, autonomous |-> FALSE,
        profile |-> [active |-> TRUE, execution |-> TRUE, proposals |-> TRUE],
        asset_class |-> "equity", source |-> "watchlist", order_type |-> "limit"]
Measured(e, v) == e @@ [runtime_authorized |-> RegistryTable[v].authorized]

-----------------------------------------------------------------------------
(* One cycle of the scanner: refresh, freeze, allocate, size, propose.     *)

\* A strategy that the fresh evaluation does not permit gets no size.
ScanSize(w, states) ==
  IF EqualShare(states, w.strategy) THEN DynamicSize(w) ELSE NoSize

\* The combined risk of an ADD with the position it adds to.
AddInputBeside(w, notional, mode, others) ==
  w.holding
    @@ [added |-> (100 * notional) \div w.price, add_price |-> w.price, mode |-> mode,
        allowance |-> -1, conviction_cap |-> DeploymentLimit[mode].trade,
        reserved_risk |-> RiskOf(OfSymbol(w.reserved, w.symbol)),
        symbol_reserved |-> NotionalOf(OfSymbol(w.reserved, w.symbol)),
        other_risk |-> RiskOf(others), other_cluster |-> NotionalOf(OfCluster(others, w.cluster)),
        other_gross |-> NotionalOf(others)]
AddInput(w, notional) ==
  AddInputBeside(w, notional, DeploymentMode(w), {k \in w.positions \cup w.reserved : k.symbol # w.symbol})

\* The candidates found that get a size and are expected to earn their costs,
\* each with what its sizing read and its rank among them (_rank_candidates).
Candidates(policies, al, states, found, q) ==
  LET inputs == {SizingInput(c, q, Positions, al, policies[Setups[c].strategy].state) :
                   c \in {d \in found : policies[Setups[d].strategy] # NoDecision}}
      sized == {[w |-> w, size |-> ScanSize(w, states)] : w \in inputs}
  IN {x @@ [key |-> RankingKey(x.w, policies[x.w.strategy], x.size.notional)] :
        x \in {y \in sized : y.size.notional > 0 /\ Profitable(y.w, policies[y.w.strategy], y.size.notional)}}

ClaimOf(x) == Claim(x.w, x.w.price - x.w.distance, x.w.id, x.size.notional)

\* In batch mode the candidates divide the budget in rank order ...
Asking(ranked) ==
  [i \in DOMAIN ranked |-> ranked[i].w @@ [notional |-> ranked[i].size.notional, claim |-> ClaimOf(ranked[i])]]
Batched(candidates, al) ==
  RankedBudget(Asking(SetToSortSeq(candidates, LAMBDA x, y : Before(x.key, y.key))), al.sleeves, Positions, Reserved)

\* ... otherwise each is screened by the risk engine.
EngineOf(order, w, v, e) ==
  EngineAllows(order, PortfolioContext(order, Surroundings(e), w), Measured(e, v), FALSE)
Screened(x, v, e, q) ==
  EngineOf([Order(x.w.id, ClaimOf(x), q, <<>>) EXCEPT !.mode = "unset", !.state = "unset"], x.w, v, e)

Allotted(candidates, al, batching, v, e, q) ==
  IF batching THEN Batched(candidates, al) ELSE {ClaimOf(x) : x \in {y \in candidates : Screened(y, v, e, q)}}

\* The adaptive size of a proposal is taken from the ceilings of its sizing.
Adapted(x, notional) ==
  IF adaptive
  THEN AdaptedSize(x.w, [x.size EXCEPT !.notional = notional], Permitted(x.w.state, x.w.id), NoDisplay).notional
  ELSE notional
Final(candidates, claims) ==
  {[y[1] EXCEPT !.size = [@ EXCEPT !.notional = Adapted(y[1], y[2].notional)]] :
     y \in {z \in candidates \X claims : z[1].w.id = z[2].id}}

\* The final terms have passed the risk engine, those of an ADD its combined
\* risk too, and their economics once more.
Passes(x, v, e, q) ==
  /\ EngineOf(Order(x.w.id, ClaimOf(x), q, x.size.caps), x.w, v, e)
  /\ adaptive /\ x.w.is_add => AddEligible(AddInput(x.w, x.size.notional))
  /\ Profitable(x.w, PoliciesOf(v)[x.w.strategy], x.size.notional)

Accepted(candidates, v, al, e, q, batching) ==
  {ClaimOf(x) : x \in {y \in Final(candidates, Allotted(candidates, al, batching, v, e, q)) :
                         y.size.notional > 0 /\ Passes(y, v, e, q)}}

\* What is displayed is recomputed from the quantity.
DisplayTerms(k, q) == CanonicalTerms(k.quantity, q.price, k.stop)

RunCycle ==
  /\ job["scanner"] = Idle /\ cycles < MaxCycles
  /\ \E al \in {AllocationOf(Inputs(evidence))}, found \in SUBSET {c \in Plans : plan[c].stage = "none"},
        e \in Environments, q \in Quotes, policies \in {PoliciesOf(evidence)} :
       \E candidates \in {Candidates(policies, al, StrategyStates(policies, Config, e.healthy), found, q)},
          batching \in BOOLEAN :
       \E proposed \in {Accepted(candidates, evidence, al, e, q, batching)} :
          /\ plan' = [c \in Plans |->
                     IF \E k \in proposed : k.id = c
                     THEN LET k == CHOOSE j \in proposed : j.id = c
                          IN [stage |-> "pending", claim |-> k, displayed |-> DisplayTerms(k, q), version |-> evidence,
                                price |-> q.price]
                     ELSE plan[c]]
          /\ held_risk' = CanonicalSnapshot(Surroundings(e), q.price).held_risk
  /\ refreshed' = evidence
  /\ frozen' = [frozen EXCEPT !["scanner"] = evidence]
  /\ cycles' = cycles + 1
  /\ UNCHANGED <<adaptive, evidence, job>>

-----------------------------------------------------------------------------
(* One approval: the policy merge, the final size, the captured snapshot,  *)
(* the reservation, the request.                                           *)

Finish(p, stage) ==
  /\ plan' = [plan EXCEPT ![job[p].plan].stage = stage]
  /\ job' = [job EXCEPT ![p] = Idle]

Begin(p, c) ==
  LET s == Setups[c].strategy
      proposed == PoliciesOf(plan[c].version)[s]
      latest == CurrentPolicies(p)[s]
  IN /\ job[p] = Idle /\ plan[c].stage = "pending"
     /\ IF proposed = NoDecision \/ latest = NoDecision
        THEN /\ plan' = [plan EXCEPT ![c].stage = "blocked"]
             /\ UNCHANGED job
        ELSE /\ plan' = [plan EXCEPT ![c].stage = "approved"]
             /\ job' = [job EXCEPT ![p] =
                  [pc |-> "merged", plan |-> c, version |-> refreshed,
                   state |-> MoreConservative(proposed.state, latest.state), positions |-> Positions]]
     /\ UNCHANGED <<adaptive, evidence, refreshed, frozen, held_risk, cycles>>

\* A process keeps the registry of its first evaluation.
Kept(p) == IF frozen[p] = NoVersion THEN refreshed ELSE frozen[p]

\* A BUY whose price rose by more than a limit is refused; the limit widens
\* with the stop distance of the proposal.
MoveLimit(distance, price) ==
  Min({Max({Guard.max_move, (50 * Guard.max_move * distance) \div price}), Guard.hard_move})
RoseTooFar(c, q) ==
  LET shown == plan[c].price
  IN 10000 * (q.price - shown) > MoveLimit(shown - plan[c].claim.stop, shown) * shown

\* The distance to the persisted stop, as it was shown when the price is not
\* above that stop any more.
DistanceNow(c, price) ==
  LET stop == plan[c].claim.stop IN IF price > stop THEN price - stop ELSE plan[c].price - stop

\* Approval may preserve or reduce what was proposed, in the adaptive mode
\* with the stop that was displayed.
Preserved(shown, distance) ==
  {shown.quantity} \cup (IF shown.risk > 0 THEN {(100 * shown.risk) \div distance} ELSE {})
AdaptedNow(c, w, size, distance) ==
  {AdaptedSize([w EXCEPT !.distance = distance], size, Permitted(w.state, c), plan[c].displayed).notional}
    \cup {(n * w.price) \div 100 : n \in Preserved(plan[c].displayed, distance)}
FinalNotional(c, w, size) ==
  Min({plan[c].claim.notional}
        \cup (IF adaptive THEN AdaptedNow(c, w, size, DistanceNow(c, w.price)) ELSE {size.notional}))

\* The sizing sees every strategy's fresh state, but allocates by the registry
\* the process keeps.
Sized(p, c, q, w, caps, notional) ==
  IF notional = 0 THEN Finish(p, "blocked")
  ELSE /\ job' = [job EXCEPT ![p] =
            [pc |-> "sized", plan |-> c, version |-> job[p].version, quote |-> q,
             claim |-> Claim(w, plan[c].claim.stop, c, notional), caps |-> caps, inputs |-> Inputs(Kept(p))]]
       /\ UNCHANGED plan
Size(p) ==
  /\ job[p].pc = "merged"
  /\ \E al \in {AllocationOf(Inputs(Kept(p)))}, e \in Environments, q \in Quotes, c \in {job[p].plan} :
     \E w \in {SizingInput(c, q, job[p].positions, al, job[p].state)} :
     \E size \in {ScanSize(w, StrategyStates(CurrentPolicies(p), Config, e.healthy))} :
     \E notional \in {IF RoseTooFar(c, q) THEN 0 ELSE FinalNotional(c, w, size)} :
        Sized(p, c, q, w, size.caps, notional)
  /\ frozen' = [frozen EXCEPT ![p] = Kept(p)]
  /\ UNCHANGED <<adaptive, evidence, refreshed, held_risk, cycles>>

\* The executor reads the broker, then the database.
Capture(p) ==
  /\ job[p].pc = "sized"
  /\ \E e \in Environments :
       LET j == job[p] b == Surroundings(e)
           order == Order(j.plan, j.claim, j.quote, j.caps)
       IN IF EngineAllows(order, CapturedContext(order, b, NoIntent), Measured(e, frozen[p]), TRUE)
          THEN /\ job' = [job EXCEPT ![p] =
                    [pc |-> "captured", plan |-> j.plan, version |-> j.version, quote |-> j.quote,
                     claim |-> j.claim, inputs |-> j.inputs,
                     limits |-> ReservationLimits(order, b, held_risk)]]
               /\ UNCHANGED plan
          ELSE Finish(p, "blocked")
  /\ UNCHANGED <<adaptive, evidence, refreshed, frozen, held_risk, cycles>>

Reserve(p) ==
  /\ job[p].pc = "captured"
  /\ \E al \in {AllocationOf(job[p].inputs)} :
     LET j == job[p] s == j.claim.strategy price == j.quote.price
         terms == CanonicalTerms(j.claim.quantity, price, j.claim.stop)
         claim == [j.claim EXCEPT !.notional = terms.notional, !.risk = terms.risk]
     IN IF Reservable(terms, plan[j.plan].displayed, j.limits, Reserved, Lots, al,
                      RegistryTable[frozen[p]], al.sleeves[s], claim)
        THEN /\ plan' = [plan EXCEPT ![j.plan].stage = "reserved", ![j.plan].claim = claim]
             /\ job' = [job EXCEPT ![p] = [pc |-> "reserved", plan |-> j.plan, version |-> j.version]]
        ELSE Finish(p, "blocked")
  /\ UNCHANGED <<adaptive, evidence, refreshed, frozen, held_risk, cycles>>

\* The snapshot is verified once more; if it no longer holds the reservation
\* is released without a request.
Send(p) ==
  /\ job[p].pc = "reserved"
  /\ \E stage \in {"sent", "rejected"} : Finish(p, stage)
  /\ UNCHANGED <<adaptive, evidence, refreshed, frozen, held_risk, cycles>>

-----------------------------------------------------------------------------
(* Around them.                                                            *)

\* A proposal expires, the broker fills or rejects an order, the fill is
\* booked: lots appear and the reservation is released together.
Follows == [pending |-> {"expired"}, sent |-> {"filled", "rejected"}, filled |-> {"booked"}]
Outcome(c) ==
  /\ plan[c].stage \in DOMAIN Follows
  /\ \E stage \in Follows[plan[c].stage] : plan' = [plan EXCEPT ![c].stage = stage]
  /\ UNCHANGED <<adaptive, evidence, refreshed, frozen, job, held_risk, cycles>>

\* Other trades of the strategies close.
EvidenceArrives ==
  /\ \E v \in Versions : v.stage > evidence.stage /\ evidence' = v
  /\ UNCHANGED <<adaptive, refreshed, frozen, plan, job, held_risk, cycles>>

\* The listener starts anew between two approvals.
Restart ==
  /\ job["listener"] = Idle /\ frozen["listener"] # NoVersion
  /\ frozen' = [frozen EXCEPT !["listener"] = NoVersion]
  /\ UNCHANGED <<adaptive, evidence, refreshed, plan, job, held_risk, cycles>>

Init ==
  /\ adaptive \in BOOLEAN
  /\ evidence \in {v \in Versions : v.stage = 1}
  /\ refreshed = NoVersion
  /\ frozen = [p \in Processes |-> NoVersion]
  /\ plan = [c \in Plans |-> NoPlan]
  /\ job = [p \in Processes |-> Idle]
  /\ held_risk = 0 /\ cycles = 0

Next ==
  \/ RunCycle \/ EvidenceArrives \/ Restart
  \/ \E p \in Processes :
       (\E c \in Plans : Begin(p, c)) \/ Size(p) \/ Capture(p) \/ Reserve(p) \/ Send(p)
  \/ \E c \in Plans : Outcome(c)

Spec == Init /\ [][Next]_vars

-----------------------------------------------------------------------------
(* Properties.                                                             *)

\* No order is sent for more than its approval displayed, whatever the quote,
\* the policy and the claims of other orders became since
\* (execution.py:381-390).
SentWithinDisplayed ==
  [][\A c \in Plans : plan[c].stage = "reserved" /\ plan'[c].stage = "sent" =>
       /\ plan[c].claim.quantity <= plan[c].displayed.quantity
       /\ plan[c].claim.notional <= plan[c].displayed.notional
       /\ plan[c].claim.risk <= plan[c].displayed.risk]_vars

\* What is held and what may still be filled stays within the exposure
\* ceilings, although each of the two processes reads positions, reservations
\* and proposals at different moments (service.py:12480, execution.py:586).
ExposureWithinCeiling ==
  LET open == Positions \cup Reserved
  IN /\ NotionalOf(open) <= Limits.total
     /\ \A k \in open : /\ NotionalOf(OfSymbol(open, k.symbol)) <= Limits.symbol
                        /\ NotionalOf(OfCluster(open, k.cluster)) <= Limits.cluster

\* An order is only sent for a strategy that the decision in force when its
\* revalidation began permits to trade, although a process keeps the registry
\* it froze (service.py:5679, 10929).
SentUnderCurrentPolicy ==
  [][\A p \in Processes : job[p].pc = "reserved" /\ plan'[job[p].plan].stage = "sent" =>
       Setups[job[p].plan].strategy \in RegistryTable[job[p].version].authorized]_vars

\* The largest budget the sleeve of a strategy can have.
EmptyBook ==
  [consumption |-> StrategyConsumption(Holdings, {}, {}), complete |-> TRUE, included |-> {}, pending |-> {}]
SleeveOf(al, s) == IF s \in al.authorized THEN al.sleeves[s] ELSE 0
LargestSleeves ==
  [s \in Strategies |->
     Max({SleeveOf(AllocationOf([version |-> v, stage |-> n, book |-> EmptyBook]), s) : v \in Versions, n \in Stages})]

\* Active reservations of a strategy fit its sleeve, although two processes
\* allocate it before either reserves and an approved proposal is counted by
\* no allocation (service.py:11961, execution.py:848).
ReservedWithinSleeve ==
  \A s \in Strategies : RiskOf(OfStrategy(Reserved, s)) <= LargestSleeves[s]
=============================================================================
