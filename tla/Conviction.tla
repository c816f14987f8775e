------------------------------ MODULE Conviction ------------------------------
(***************************************************************************)
(* The adaptive layer over the size of an entry or ADD: how convinced the  *)
(* evidence makes it, what stop risk that recommends, and the size that    *)
(* the recommendation, the displayed ceilings and the operational ceilings *)
(* leave (adaptive_conviction.py, adaptive_sizing.py).  Scores are in      *)
(* hundredths, money and risk in hundredths of a percent of equity.        *)
(***************************************************************************)
EXTENDS Sizing

-----------------------------------------------------------------------------
(* The inputs that service.py gathers: w is what the sizing has read (see  *)
(* Sizing), with the setup's score, quality of the evidence, reward to     *)
(* risk, execution (-1: no order reported one), volume and spread in       *)
(* percent of their limits, fresh, healthy, negative_regime.               *)

\* The baseline risk checks count nothing that is pending as exposure; all
\* three kinds of claim count as heat.
Current(w) ==
  LET counted == w.positions \cup w.reserved
  IN [gross |-> NotionalOf(counted), symbol |-> NotionalOf(OfSymbol(counted, w.symbol)),
      cluster |-> NotionalOf(OfCluster(counted, w.cluster)), heat |-> RiskOf(counted \cup w.pending)]

Calibrated(w) == w.state \in {"EXPLORATION", "THROTTLED", "ACTIVE"}
Deteriorating(w) == w.negative_regime \/ w.state = "THROTTLED"

\* Only an ACTIVE strategy may go beyond the risk its own sizing permitted.
BaseRisk(w, permitted) ==
  Min({Limits.max_trade,
       IF w.state = "ACTIVE" THEN (FullRisk(w.is_add) * RiskMultiplier(w.weight)) \div 100 ELSE permitted})
AuthorizedRisk(w, permitted) ==
  IF w.state = "ACTIVE" THEN Limits.max_trade ELSE Min({Limits.max_trade, permitted})

-----------------------------------------------------------------------------
(* Scores.                                                                  *)

RegimeAlignment(regime) ==
  CASE regime = "favorable" -> 100 [] regime = "low" -> 85 [] regime = "normal" -> 75
    [] regime = "elevated" -> 45 [] regime = "high" -> 25 [] regime = "defensive" -> 20 [] OTHER -> 0

StopGeometry(w) ==
  LET distance == (10000 * w.distance) \div w.price
  IN CASE distance \in 100..400 -> 100
       [] distance \in (50..99) \cup (401..600) -> 75
       [] distance < 50 \/ distance \in 601..800 -> 50 [] OTHER -> 0

AccountHealth(w) ==
  Min({100 - Quality(w.drawdown, 600), 100 - Quality(w.losses.daily, 75), 100 - Quality(w.losses.weekly, 150)})
Execution(w) == IF w.execution < 0 THEN 50 ELSE w.execution
Diversification(w) ==
  LET at == Current(w)
  IN Min({100 - Quality(at.symbol, Limits.symbol), 100 - Quality(at.cluster, Limits.cluster)})

\* The nine signals; one without its evidence counts nothing.
Signals(w) ==
  [setup |-> w.score, evidence |-> IF Calibrated(w) THEN w.quality ELSE 0,
   regime |-> RegimeAlignment(w.regime), stop_geometry |-> StopGeometry(w),
   liquidity |-> Quality(w.volume, 500), spread |-> 100 - Quality(w.spread, 100),
   diversification |-> Diversification(w), account_health |-> AccountHealth(w),
   execution |-> Max({0, w.execution})]
Agreeing(signals, least) == Cardinality({n \in DOMAIN signals \ {"setup"} : signals[n] >= least})

CoreFailure(w) ==
  \/ w.state \notin Executable
  \/ ~StopValid(w.distance, w.price)
  \/ ~w.fresh
  \/ w.volume < 100
  \/ w.spread > 100
  \/ ~w.healthy

-----------------------------------------------------------------------------
(* Class, deployment mode and recommended stop risk.                        *)

OpportunityClass(w) ==
  LET expansion == Calibrated(w) /\ ~Deteriorating(w) /\ w.healthy
  IN CASE CoreFailure(w) -> "REJECTED"
       [] OTHER ->
            IF expansion /\ w.score >= 95 /\ w.reward >= 250 /\ Agreeing(Signals(w), 90) >= 7 THEN "EXCEPTIONAL"
            ELSE IF expansion /\ w.score >= 90 /\ w.reward >= 200 /\ Agreeing(Signals(w), 75) >= 7 THEN "HIGH_CONVICTION"
            ELSE IF expansion /\ w.score >= 85 /\ w.reward >= 150 /\ Agreeing(Signals(w), 60) >= 6 THEN "STRONG"
            ELSE "STANDARD"

ModeOfClass(w, class) ==
  LET confident(least) == /\ w.execution >= least
                          /\ AccountHealth(w) >= least /\ Diversification(w) >= least
  IN IF class = "REJECTED" \/ AccountHealth(w) < 50 \/ ~w.healthy \/ Deteriorating(w) THEN "DEFENSIVE"
     ELSE IF class = "EXCEPTIONAL" /\ confident(90) THEN "AGGRESSIVE"
     ELSE IF class \in {"HIGH_CONVICTION", "EXCEPTIONAL"} /\ confident(75) THEN "OPPORTUNISTIC"
     ELSE "NORMAL"
DeploymentMode(w) == ModeOfClass(w, OpportunityClass(w))

DeploymentLimit ==
  [DEFENSIVE |-> [trade |-> 15, heat |-> 50, gross |-> 2000],
   NORMAL |-> [trade |-> 20, heat |-> 125, gross |-> 3000],
   OPPORTUNISTIC |-> [trade |-> 30, heat |-> 150, gross |-> 4000],
   AGGRESSIVE |-> [trade |-> 35, heat |-> 175, gross |-> 5000]]

OpportunityMultiplier ==
  [REJECTED |-> 0, STANDARD |-> 85, STRONG |-> 100, HIGH_CONVICTION |-> 115, EXCEPTIONAL |-> 125]

\* In hundredths of the unit of risk.
FormulaRequest(w, permitted) ==
  FoldLeft(LAMBDA request, percent : (request * percent) \div 100, 100 * BaseRisk(w, permitted),
           <<OpportunityMultiplier[OpportunityClass(w)], 75 + RegimeAlignment(w.regime) \div 2,
             75 + (40 * AccountHealth(w)) \div 100,
             IF w.execution < 0 THEN 100 ELSE 75 + Execution(w) \div 2,
             65 + (55 * Diversification(w)) \div 100>>)

\* The least of the request and of every cap; the capacity caps shrink with
\* what is left of their target.
RecommendedWithin(deployment, at, w, permitted) ==
  LET capacity(used, target) == (deployment.trade * Room(target, used)) \div target
  IN IF OpportunityClass(w) = "REJECTED" THEN 0
     ELSE Min({FormulaRequest(w, permitted) \div 100, AuthorizedRisk(w, permitted),
               deployment.trade, Limits.max_trade, Room(deployment.heat, at.heat),
               capacity(at.gross, deployment.gross), capacity(at.symbol, Limits.symbol),
               capacity(at.cluster, Limits.cluster)})
Recommended(w, permitted) ==
  RecommendedWithin(DeploymentLimit[DeploymentMode(w)], Current(w), w, permitted)

-----------------------------------------------------------------------------
(* The adaptive size.                                                       *)

\* The ceilings of the operational sizing, less those that the mode's own
\* replace; an ACTIVE strategy is freed from its equal-risk allocation.
CeilingsWithin(deployment, at, w, sized) ==
  LET worth(r) == NotionalFromRisk(r, w.price, w.distance)
      dropped == {"phase3_heat_cap", "gross_exposure_cap"}
                   \cup (IF w.state = "ACTIVE" THEN {"allocation", "stop_risk"} ELSE {})
  IN Restrict(sized.caps, DOMAIN sized.caps \ dropped)
       @@ (IF w.state = "ACTIVE" THEN [stop_risk |-> worth(Limits.max_trade)] ELSE <<>>)
       @@ [deployment_mode_heat |-> worth(deployment.heat - at.heat),
           deployment_mode_gross |-> Room(deployment.gross, at.gross)]
AdaptiveCeilings(w, sized) ==
  CeilingsWithin(DeploymentLimit[DeploymentMode(w)], Current(w), w, sized)

DisplayedCeilings(w, displayed) ==
  [displayed_quantity |-> (displayed.quantity * w.price) \div 100,
   displayed_stop_risk |-> NotionalFromRisk(displayed.risk, w.price, w.distance)]

\* The exact recomputation wants an exact value from the operational sizing
\* for every ceiling but those it derives itself.
ExactAuthority(w, sized, ceilings) ==
  DOMAIN ceilings \subseteq
    DOMAIN sized.caps \cup {"deployment_mode_heat", "deployment_mode_gross"}
      \cup (IF w.state = "ACTIVE" THEN {"stop_risk"} ELSE {})

\* At the proposal, displayed is NoDisplay; at the final revalidation what
\* the approval showed caps the size, and zero blocks the order.
NoDisplay == [quantity |-> 0, notional |-> 0, risk |-> 0]

AdaptiveRequest(w, permitted) == NotionalFromRisk(Recommended(w, permitted), w.price, w.distance)

\* What the ceilings leave of the request, or nothing.
AtLeastMinimum(size) == IF size < Limits.minimum THEN 0 ELSE size
Constrained(w, permitted, ceilings) ==
  AtLeastMinimum(Min({AdaptiveRequest(w, permitted)} \cup Range(ceilings)))

\* The final revalidation never takes more than was displayed.
Confirmed(size, displayed) == IF displayed = NoDisplay THEN size ELSE Min({size, displayed.notional})

SizeUnder(ceilings, w, sized, permitted, displayed) ==
  IF sized.notional = 0 \/ ~ExactAuthority(w, sized, ceilings) THEN 0
  ELSE Confirmed(Constrained(w, permitted, ceilings), displayed)

AdaptiveSize(w, sized, permitted, displayed) ==
  SizeUnder(AdaptiveCeilings(w, sized)
              @@ (IF displayed = NoDisplay THEN <<>> ELSE DisplayedCeilings(w, displayed)),
            w, sized, permitted, displayed)

\* _record_adaptive_conviction and _record_adaptive_sizing: the operational
\* size is replaced.  permitted is the risk of the state at the proposal, and
\* what the proposal recommended at the final revalidation.
Resized(w, sized, notional) ==
  IF notional = 0 THEN NoSize
  ELSE [sized EXCEPT !.notional = notional, !.risk = (notional * w.distance) \div w.price]
AdaptedSize(w, sized, permitted, displayed) ==
  Resized(w, sized, AdaptiveSize(w, sized, permitted, displayed))
=============================================================================
