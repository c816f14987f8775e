------------------------- MODULE HeldPositionProofs -------------------------
(***************************************************************************)
(* What HeldPosition keeps for any number of prices, lifecycles, ADDs and  *)
(* milestones: one ADD per milestone, the protection an ADD was shown      *)
(* with, stops and modes that never move back, and hits that were earned.  *)
(*                                                                         *)
(* The argument is about what a process still holds from an earlier read:  *)
(* the scanner's row is of the lifecycle that was active when it read it,  *)
(* and the listener's decision is for the proposal it executes.            *)
(***************************************************************************)
EXTENDS HeldPosition, TLAPS

\* A decision that was taken moves the mode along the allowed transitions.
Lawful(d) ==
  /\ d \in Decision
  /\ d.prev # "none" => d.mode \in ALLOWED_TRANSITIONS[d.prev]

\* What is about to be persisted was decided, the listener's for the proposal
\* in hand and with no less than the stop it showed.
Decided ==
  /\ scan.pc = "persist" => Lawful(scan.dec)
  /\ final.pc = "persist" =>
       /\ Lawful(final.dec)
       /\ final.dec.life = add[final.add].life
       /\ final.dec.stop >= add[final.add].floor

\* A proposal keeps its lifecycle, and the listener works on one that waits.
Shown == \A a \in Adds : add[a].state # "none" => add[a].life \in Lives

Busy == final.pc # "idle" => final.add \in Adds /\ add[final.add].state = "waiting"

\* Nothing is of a lifecycle that has not been opened yet.
Past ==
  /\ active <= last /\ row.life <= last /\ scan.life <= last
  /\ \A a \in Adds : add[a].life <= last

\* While the row is the active lifecycle's, the scanner writes it for no other.
ReadInTime ==
  scan.pc = "upsert" /\ active # 0 /\ row.life = active => scan.life = active

\* A hit that the scanner will write back was earned.
HitReadEarned ==
  scan.pc = "upsert" /\ scan.hit /\ scan.life \in Lives => scan.life \in taken

\* An ADD order belongs to the proposal that claimed its milestone.
Claimed ==
  \A e \in adds :
    /\ add[e[1]].state # "none" /\ add[e[1]].life = e[2]
    /\ ms[<< e[2], e[3] >>].status # "none" /\ ms[<< e[2], e[3] >>].by = e[1]

FloorHeld(a) ==
  active # 0 /\ add[a].life = active => row.life = active /\ row.stop >= add[a].floor

\* The floor holds from the listener's write of the stop on.
FloorsHeld ==
  /\ final.pc \in { "approve", "create" } => FloorHeld(final.add)
  /\ \A e \in adds : FloorHeld(e[1])

IInv ==
  /\ TypeOK /\ Decided /\ Shown /\ Busy /\ Past /\ ReadInTime
  /\ HitReadEarned /\ HitIsEarned /\ Claimed /\ FloorsHeld

(***************************************************************************)
(* The operators.                                                          *)
(***************************************************************************)

\* Max returns an element that no other exceeds, where there is one.
LEMMA MaxOf ==
  ASSUME NEW S, NEW m \in S, \A y \in S : m >= y
  PROVE  Max(S) \in S /\ \A y \in S : Max(S) >= y
BY DEF Max

\* Of two integers, the target of a trailing stop (classify, evaluate).
LEMMA MaxOfTwo ==
  ASSUME NEW x \in Int, NEW y \in Int
  PROVE  Max({ x, y }) \in { x, y } /\ Max({ x, y }) >= x /\ Max({ x, y }) >= y
<1>1. CASE x >= y
  BY <1>1, MaxOf
<1>2. CASE y >= x
  BY <1>2, MaxOf
<1>3. QED
  BY <1>1, <1>2

\* Of three, the stop of EvaluateTrend and of target_stop.
LEMMA MaxOfThree ==
  ASSUME NEW x \in Int, NEW y \in Int, NEW z \in Int
  PROVE  /\ Max({ x, y, z }) \in { x, y, z }
         /\ Max({ x, y, z }) >= x /\ Max({ x, y, z }) >= y /\ Max({ x, y, z }) >= z
<1>1. CASE x >= y /\ x >= z
  BY <1>1, MaxOf
<1>2. CASE y >= x /\ y >= z
  BY <1>2, MaxOf
<1>3. CASE z >= x /\ z >= y
  BY <1>3, MaxOf
<1>4. QED
  BY <1>1, <1>2, <1>3

\* Min of two integers is one of them.
LEMMA MinOfTwo ==
  ASSUME NEW x \in Int, NEW y \in Int
  PROVE  Min({ x, y }) \in { x, y }
<1>1. CASE x <= y
  BY <1>1 DEF Min
<1>2. CASE y <= x
  BY <1>2 DEF Min
<1>3. QED
  BY <1>1, <1>2

\* The mode of a decision is one that its starting mode allows.
LEMMA OperationalAllowed ==
  ASSUME NEW prev \in Modes \cup { "none" }, NEW c \in Modes
  PROVE  /\ operational(prev, c) \in Modes
         /\ prev # "none" => operational(prev, c) \in ALLOWED_TRANSITIONS[prev]
BY DEF operational, ALLOWED_TRANSITIONS, Modes, Recovering, Trending

\* Every decision about a position is lawful and names its lifecycle.
LEMMA DecisionsAreLawful ==
  ASSUME NEW l \in Lives, NEW prev \in Modes \cup { "none" }, NEW prior \in Prices,
         NEW d \in Decisions(l, prev, prior)
  PROVE  Lawful(d) /\ d.life = l
<1>1. PICK p \in Prices, c \in Modes, s \in Prices : d = evaluate(l, prev, prior, p, c, s)
  BY DEF Decisions
<1> DEFINE class == IF prior >= p THEN "EXIT_REQUIRED" ELSE c
           mode == operational(prev, class)
           stop == IF mode = "EXIT_REQUIRED" THEN prior
                   ELSE Max({ prior, Min({ s, p - 1 }) })
<1>2. d = [life |-> l, prev |-> prev, mode |-> mode, stop |-> stop]
  BY <1>1 DEF evaluate
<1>3. class \in Modes
  BY DEF Modes
<1>4. mode \in Modes /\ (prev # "none" => mode \in ALLOWED_TRANSITIONS[prev])
  BY <1>3, OperationalAllowed
<1>5. stop \in Prices
  <2>1. Min({ s, p - 1 }) \in { s, p - 1 } /\ Min({ s, p - 1 }) \in Int
    BY MinOfTwo, BoundsAssumption DEF Prices
  <2>2. ASSUME NEW m \in Int, m = Min({ s, p - 1 })
        PROVE  Max({ prior, m }) \in { prior, m } /\ Max({ prior, m }) >= prior
    BY MaxOfTwo, BoundsAssumption DEF Prices
  <2>3. /\ Max({ prior, Min({ s, p - 1 }) }) \in { prior, Min({ s, p - 1 }) }
        /\ Max({ prior, Min({ s, p - 1 }) }) >= prior
    BY <2>1, <2>2
  <2>4. QED
    BY <2>1, <2>3, BoundsAssumption DEF Prices
<1> HIDE DEF mode, stop
<1>6. QED
  BY <1>2, <1>4, <1>5 DEF Lawful, Decision

\* A stored mode is replaced only by one that ALLOWED_TRANSITIONS gives it.
LEMMA EffectiveModeAllowed ==
  ASSUME NEW r \in Row, NEW d, Lawful(d)
  PROVE  /\ effective_mode(r, d) \in Modes
         /\ r.mode # "none" => effective_mode(r, d) \in ALLOWED_TRANSITIONS[r.mode]
<1>1. d \in Decision /\ d.mode \in Modes /\ d.prev \in Modes \cup { "none" }
      /\ r.mode \in Modes \cup { "none" }
      /\ (d.prev # "none" => d.mode \in ALLOWED_TRANSITIONS[d.prev])
  BY DEF Lawful, Decision, Row
<1>2. QED
  BY <1>1 DEF effective_mode, safety_rank, ALLOWED_TRANSITIONS, Modes, Recovering, Trending

\* persist_authoritative_stop keeps the row's lifecycle, trailing stop and hits,
\* leaves at least the old stop and the decision's, and moves the mode lawfully.
LEMMA PersistedStop ==
  ASSUME TypeOK, NEW d, Lawful(d), row.life = d.life, PersistsStop(d)
  PROVE  /\ row' \in Row /\ latest' \in [Lives -> Stops]
         /\ row'.life = row.life /\ row'.trail = row.trail /\ row'.hit = row.hit
         /\ row'.stop >= row.stop /\ row'.stop >= d.stop
         /\ row.mode # "none" => row'.mode \in ALLOWED_TRANSITIONS[row.mode]
<1> DEFINE t == target_stop(row, d)
<1>1. d.life \in Lives /\ d.stop \in Prices /\ row \in Row /\ latest[d.life] \in Stops
  BY BoundsAssumption DEF TypeOK, Lawful, Decision, NoRow, Lives
<1>2. row.stop \in Stops /\ Stops \subseteq Int /\ Prices \subseteq Stops
  BY <1>1, BoundsAssumption DEF Row, Stops, Prices
<1>3. /\ target_stop(row, d) \in { d.stop, row.stop, latest[d.life] }
      /\ target_stop(row, d) >= d.stop /\ target_stop(row, d) >= row.stop
  <2>1. d.stop \in Int /\ row.stop \in Int /\ latest[d.life] \in Int
    BY <1>1, <1>2
  <2>2. QED
    BY <2>1, MaxOfThree DEF target_stop
<1>4. t \in Stops /\ t >= d.stop /\ t >= row.stop
  BY <1>1, <1>2, <1>3
<1> HIDE DEF t
<1>5. /\ row' = [row EXCEPT !.stop = t, !.mode = effective_mode(row, d)]
      /\ latest' = [latest EXCEPT ![d.life] = Max({ latest[d.life], t })]
  BY DEF PersistsStop, t
<1>6. Max({ latest[d.life], t }) \in Stops
  BY <1>1, <1>2, <1>4, MaxOfTwo
<1>7. latest' \in [Lives -> Stops]
  BY <1>5, <1>6 DEF TypeOK
<1>8. effective_mode(row, d) \in Modes
      /\ (row.mode # "none" => effective_mode(row, d) \in ALLOWED_TRANSITIONS[row.mode])
  BY <1>1, EffectiveModeAllowed
<1>9. QED
  BY <1>1, <1>4, <1>5, <1>7, <1>8 DEF Row

(***************************************************************************)
(* Types and decisions.                                                    *)
(***************************************************************************)
\* The first state is one.
LEMMA InitHolds == Init => IInv
<1> SUFFICES ASSUME Init PROVE IInv
  OBVIOUS
<1>1. (CHOOSE k \in Keys : TRUE) \in Keys
  BY NamesAssumption
<1>2. TypeOK
  BY <1>1, BoundsAssumption
  DEF Init, TypeOK, ScanIdle, FinalIdle, NoRow, Lives, Stops, Milestone, NoDecision
<1>3. QED
  BY <1>2, BoundsAssumption
  DEF Init, IInv, Decided, Shown, Busy, Past, ReadInTime, HitReadEarned, HitIsEarned,
      Claimed, FloorsHeld, ScanIdle, FinalIdle, NoRow, Lives

\* Whatever state reads, the row or none, has fields of their types.
LEMMA StateTypes ==
  ASSUME TypeOK, NEW l
  PROVE  state(l).hit \in BOOLEAN /\ state(l).trail \in Stops
<1>1. state(l) \in Row \/ state(l) = NoRow
  BY DEF TypeOK, state
<1>2. CASE state(l) \in Row
  BY <1>2 DEF Row
<1>3. CASE state(l) = NoRow
  BY <1>3 DEF NoRow, Stops
<1>4. QED
  BY <1>1, <1>2, <1>3

\* The scanner writes whole fields of the row, a missing row becoming one.
LEMMA RowWritten ==
  ASSUME TypeOK, NEW l \in {0} \cup Lives, NEW t \in Stops, NEW h \in BOOLEAN
  PROVE  [row EXCEPT !.life = l, !.trail = t, !.hit = h] \in Row
<1>1. CASE row \in Row
  BY <1>1 DEF Row
<1>2. CASE row = NoRow
  BY <1>2 DEF Row, NoRow, Stops
<1>3. QED
  BY <1>1, <1>2 DEF TypeOK

\* What EvaluateTrend decides about the row of the active lifecycle.
LEMMA TrendDecision ==
  ASSUME TypeOK, row.life = active, active # 0,
         NEW d \in Decisions(active, row.mode, Max({ 1, row.trail, row.stop }))
  PROVE  d \in Decision /\ Lawful(d) /\ d.life = active
<1>1. active \in Lives /\ row \in Row
  BY BoundsAssumption DEF TypeOK, NoRow, Lives
<1>2. row.trail \in Stops /\ row.stop \in Stops /\ row.mode \in Modes \cup { "none" }
  BY <1>1 DEF Row
<1>3. /\ Max({ 1, row.trail, row.stop }) \in { 1, row.trail, row.stop }
      /\ Max({ 1, row.trail, row.stop }) >= 1
  <2>1. 1 \in Int /\ row.trail \in Int /\ row.stop \in Int
    BY <1>2, BoundsAssumption DEF Stops, Prices
  <2>2. QED
    BY <2>1, MaxOfThree
<1>4. Max({ 1, row.trail, row.stop }) \in Prices
  BY <1>2, <1>3, BoundsAssumption DEF Stops, Prices
<1>5. QED
  BY <1>1, <1>2, <1>4, DecisionsAreLawful DEF Lawful

\* What the winner expansion decides about a row with a stop.
LEMMA HeldDecision ==
  ASSUME TypeOK, NEW l \in Lives, row.life = l, row.stop # 0,
         NEW d \in Decisions(l, row.mode, row.stop)
  PROVE  d \in Decision /\ Lawful(d) /\ d.life = l
<1>1. row \in Row
  BY BoundsAssumption DEF TypeOK, NoRow, Lives
<1>2. row.stop \in Prices /\ row.mode \in Modes \cup { "none" }
  BY <1>1 DEF Row, Stops
<1>3. QED
  BY <1>2, DecisionsAreLawful DEF Lawful

\* The proposal in the listener's hands is of a lifecycle that was opened.
LEMMA BusyLife ==
  ASSUME Shown, Busy, final.pc # "idle"
  PROVE  final.add \in Adds /\ add[final.add].life \in Lives
BY DEF Shown, Busy

AddType == [Adds -> [state : { "none", "waiting", "done" }, life : {0} \cup Lives,
                     key : Keys, floor : Stops]]

FinalType == [pc : { "idle", "persist", "approve", "create", "finish" },
              add : Adds \cup { "nobody" }, dec : Decision \cup { NoDecision }]

\* An attempt that is blocked leaves the proposal's details and an idle listener.
LEMMA BlockedTypes ==
  ASSUME TypeOK, NEW a \in Adds, Blocked(a)
  PROVE  /\ add' \in AddType /\ final' = FinalIdle /\ final' \in FinalType
         /\ \A b \in Adds : add'[b].life = add[b].life /\ add'[b].key = add[b].key
                            /\ add'[b].floor = add[b].floor
         /\ \A b \in Adds : b # a => add'[b] = add[b]
         /\ add'[a].state = "done"
<1>1. add \in AddType /\ add' = [add EXCEPT ![a].state = "done"] /\ final' = FinalIdle
  BY DEF TypeOK, Blocked, AddType
<1>2. FinalIdle \in FinalType
  BY DEF FinalIdle, FinalType
<1>3. QED
  BY <1>1, <1>2 DEF AddType

\* Moving a milestone changes one status and nobody's claim.
LEMMA MoveMilestoneTypes ==
  ASSUME TypeOK, NEW a \in Adds, add[a].life \in Lives,
         NEW s \in { "APPROVED", "SUBMITTED", "REJECTED" }, MoveMilestone(a, s)
  PROVE  /\ ms' \in [Lives \X Keys -> Milestone]
         /\ \A m \in Lives \X Keys :
              /\ ms'[m].by = ms[m].by
              /\ ms'[m].status # ms[m].status => ms'[m].status = s
<1> DEFINE k == << add[a].life, add[a].key >>
<1>1. k \in Lives \X Keys
  BY DEF TypeOK
<1> HIDE DEF k
<1>2. ms' = [ms EXCEPT ![k] = [ms[k] EXCEPT !.status = s]]
  BY DEF MoveMilestone, k
<1>3. QED
  BY <1>1, <1>2 DEF TypeOK, Milestone

\* An update of the row's fields is read back from them.
LEMMA RowLife ==
  ASSUME TypeOK
  PROVE  /\ \A l, t, h : /\ [row EXCEPT !.life = l, !.trail = t, !.hit = h].life = l
                         /\ [row EXCEPT !.life = l, !.trail = t, !.hit = h].hit = h
         /\ \A t, m : /\ [row EXCEPT !.stop = t, !.mode = m].life = row.life
                      /\ [row EXCEPT !.stop = t, !.mode = m].hit = row.hit
BY DEF TypeOK, Row, NoRow

\* state sees no hit but the row's own, of the lifecycle that was asked for.
LEMMA NoHitWithoutRow ==
  ASSUME NEW l, l # 0, state(l).hit
  PROVE  row.life = l /\ row.hit
BY DEF state, NoRow

\* Each operation of the scanner, of the listener and of the reconciliation
\* keeps the types.
LEMMA TypeStep ==
  ASSUME TypeOK, Decided, Shown, Busy, [Next]_vars
  PROVE  TypeOK'
<1> USE BoundsAssumption
<1>1. CASE OpenLife
  BY <1>1 DEF TypeOK, OpenLife, Lives
<1>2. CASE CloseLife
  BY <1>2 DEF TypeOK, CloseLife
<1>3. CASE TakeProfitFill
  <2>1. row' \in Row \cup { NoRow }
    <3>1. CASE row.life = active
      <4>1. row \in Row /\ row' = [row EXCEPT !.hit = TRUE]
        BY <1>3, <3>1 DEF TypeOK, TakeProfitFill, NoRow, Lives
      <4>2. QED
        BY <4>1 DEF Row
    <3>2. CASE row.life # active
      BY <1>3, <3>2 DEF TypeOK, TakeProfitFill
    <3>3. QED
      BY <3>1, <3>2
  <2>2. QED
    BY <1>3, <2>1 DEF TypeOK, TakeProfitFill
<1>4. CASE Classify
  <2>1. PICK exit \in BOOLEAN, calculated \in Prices \ { MaxPrice } :
          scan' = [ScanIdle EXCEPT !.pc = "record",
                     !.trail = IF exit THEN 0 ELSE Max({ state(active).trail, calculated })]
    BY <1>4 DEF Classify
  <2>2. state(active).trail \in Stops /\ calculated \in Stops /\ Stops \subseteq Int /\ 0 \in Stops
    BY StateTypes DEF Stops, Prices
  <2>3. Max({ state(active).trail, calculated }) \in Stops
    BY <2>2, MaxOfTwo
  <2>4. QED
    BY <1>4, <2>1, <2>2, <2>3 DEF TypeOK, Classify, ScanIdle
<1>5. CASE ReadPrevious
  <2>1. state(active).hit \in BOOLEAN
    BY StateTypes
  <2>2. QED
    BY <1>5, <2>1 DEF TypeOK, ReadPrevious
<1>6. CASE UpsertRow
  <2>1. row' \in Row \cup { NoRow }
    BY <1>6, RowWritten DEF TypeOK, UpsertRow
  <2>2. QED
    BY <1>6, <2>1 DEF TypeOK, UpsertRow, ScanIdle, Stops
<1>7. CASE EvaluateTrend
  <2>1. scan.pc = "trend" /\ UNCHANGED << active, last, row, latest, taken, ms, add, adds, final >>
    BY <1>7 DEF EvaluateTrend
  <2>2. CASE active = 0 \/ row.life # active
    <3>1. scan' = ScanIdle
      BY <1>7, <2>2 DEF EvaluateTrend
    <3>2. QED
      BY <2>1, <3>1 DEF TypeOK, ScanIdle, Stops
  <2>3. CASE ~(active = 0 \/ row.life # active)
    <3>1. PICK d \in Decisions(active, row.mode, Max({ 1, row.trail, row.stop })) :
            scan' = [ScanIdle EXCEPT !.pc = "persist", !.dec = d]
      BY <1>7, <2>3 DEF EvaluateTrend
    <3>2. d \in Decision
      BY <2>3, <3>1, TrendDecision
    <3>3. QED
      BY <2>1, <3>1, <3>2 DEF TypeOK, ScanIdle, Stops
  <2>4. QED
    BY <2>2, <2>3
<1>8. CASE PersistTrend
  BY <1>8, PersistedStop DEF TypeOK, Decided, PersistTrend, ScanIdle, Stops
<1>9. CASE FinalPersist
  <2>1. final.add \in Adds
    BY <1>9 DEF Busy, FinalPersist
  <2>2. CASE row.life = final.dec.life
    <3>1. PersistsStop(final.dec) /\ Lawful(final.dec)
      BY <1>9, <2>2 DEF FinalPersist, Decided
    <3>2. row' \in Row /\ latest' \in [Lives -> Stops]
      BY <2>2, <3>1, PersistedStop
    <3>3. QED
      BY <1>9, <2>2, <3>2 DEF TypeOK, FinalPersist
  <2>3. CASE row.life # final.dec.life
    BY <1>9, <2>1, <2>3, BlockedTypes DEF TypeOK, FinalPersist, AddType, FinalType
  <2>4. QED
    BY <2>2, <2>3
<1>10. CASE FinalApprove
  <2>1. final.add \in Adds
    BY <1>10 DEF Busy, FinalApprove
  <2>2. CASE MilestoneOf(final.add).status = "PROPOSED"
    <3>1. ms' \in [Lives \X Keys -> Milestone]
      BY <1>10, <2>1, <2>2, MoveMilestoneTypes, BusyLife DEF FinalApprove
    <3>2. QED
      BY <1>10, <2>2, <3>1 DEF TypeOK, FinalApprove
  <2>3. CASE MilestoneOf(final.add).status # "PROPOSED"
    BY <1>10, <2>1, <2>3, BlockedTypes DEF TypeOK, FinalApprove, AddType, FinalType
  <2>4. QED
    BY <2>2, <2>3
<1>11. CASE CreateAdd
  <2>1. final.add \in Adds /\ add[final.add].life \in Lives /\ add[final.add].key \in Keys
    BY <1>11, BusyLife DEF TypeOK, CreateAdd
  <2>2. adds' \subseteq Adds \X Lives \X Keys
    BY <1>11, <2>1 DEF TypeOK, CreateAdd
  <2>3. QED
    BY <1>11, <2>2 DEF TypeOK, CreateAdd
<1>12. CASE FinishAdd
  <2>1. final.add \in Adds
    BY <1>12 DEF Busy, FinishAdd
  <2>2. Blocked(final.add) /\ UNCHANGED << active, last, row, latest, taken, adds, scan >>
    BY <1>12 DEF FinishAdd
  <2>3. ms' \in [Lives \X Keys -> Milestone]
    <3>1. CASE MilestoneOf(final.add).status = "APPROVED"
      BY <1>12, <2>1, <3>1, MoveMilestoneTypes, BusyLife DEF FinishAdd
    <3>2. CASE MilestoneOf(final.add).status # "APPROVED"
      BY <1>12, <3>2 DEF TypeOK, FinishAdd
    <3>3. QED
      BY <3>1, <3>2
  <2>4. QED
    BY <2>1, <2>2, <2>3, BlockedTypes DEF TypeOK, AddType, FinalType
<1>13. CASE ListenerCrash
  BY <1>13, BlockedTypes DEF TypeOK, Busy, ListenerCrash, AddType, FinalType
<1>14. CASE ScannerCrash
  BY <1>14 DEF TypeOK, ScannerCrash, ScanIdle, Stops
<1>15. ASSUME NEW a \in Adds, ProposeAdd(a) PROVE TypeOK'
  <2>1. PICK k \in Keys, d \in Decisions(active, row.mode, row.stop) :
          /\ ms' = [ms EXCEPT ![<< active, k >>] = [status |-> "PROPOSED", by |-> a]]
          /\ add' = [add EXCEPT ![a] = [state |-> "waiting", life |-> active,
                                        key |-> k, floor |-> d.stop]]
    BY <1>15 DEF ProposeAdd
  <2>2. active \in Lives /\ d \in Decision
    BY <1>15, <2>1, HeldDecision DEF TypeOK, ProposeAdd
  <2>3. d.stop \in Stops /\ [status |-> "PROPOSED", by |-> a] \in Milestone
    BY <2>2 DEF Decision, Stops, Milestone
  <2>4. QED
    BY <1>15, <2>1, <2>2, <2>3 DEF TypeOK, ProposeAdd
<1>16. ASSUME NEW a \in Adds, FinalEvaluate(a) PROVE TypeOK'
  <2>1. CASE Blocked(a)
    BY <1>16, <2>1, BlockedTypes DEF TypeOK, FinalEvaluate, AddType, FinalType
  <2>2. CASE ~ Blocked(a)
    <3>1. PICK d \in Decisions(add[a].life, row.mode, row.stop) :
            final' = [pc |-> "persist", add |-> a, dec |-> d]
      BY <1>16, <2>2 DEF FinalEvaluate
    <3>2. row.life = add[a].life /\ row.stop # 0 /\ add[a].state # "none" /\ UNCHANGED add
      BY <1>16, <2>2 DEF FinalEvaluate
    <3>3. d \in Decision
      BY <3>1, <3>2, HeldDecision DEF Shown
    <3>4. QED
      BY <1>16, <3>1, <3>2, <3>3 DEF TypeOK, FinalEvaluate
  <2>3. QED
    BY <2>1, <2>2
<1>17. CASE UNCHANGED vars
  BY <1>17 DEF TypeOK, vars
<1>18. QED
  BY <1>1, <1>2, <1>3, <1>4, <1>5, <1>6, <1>7, <1>8, <1>9, <1>10, <1>11, <1>12, <1>13,
     <1>14, <1>15, <1>16, <1>17 DEF Next

(***************************************************************************)
(* The other parts of the invariant, each for the actions that touch it.   *)
(***************************************************************************)

\* The actions that touch neither the scanner's decision nor the listener's.
LEMMA DecidedStep ==
  ASSUME TypeOK, Decided, Shown, Busy, [Next]_vars
  PROVE  Decided'
<1>1. CASE UNCHANGED << add, final >> /\ (scan'.pc = "persist" => scan' = scan)
  BY <1>1 DEF Decided, Lawful
<1>2. CASE EvaluateTrend
  <2>1. UNCHANGED << add, final >>
    BY <1>2 DEF EvaluateTrend
  <2>2. scan'.pc = "persist" => Lawful(scan'.dec)
    <3>1. CASE active = 0 \/ row.life # active
      <4>1. scan' = ScanIdle
        BY <1>2, <3>1 DEF EvaluateTrend
      <4>2. QED
        BY <4>1 DEF ScanIdle
    <3>2. CASE ~(active = 0 \/ row.life # active)
      <4>1. PICK d \in Decisions(active, row.mode, Max({ 1, row.trail, row.stop })) :
              scan' = [ScanIdle EXCEPT !.pc = "persist", !.dec = d]
        BY <1>2, <3>2 DEF EvaluateTrend
      <4>2. Lawful(d) /\ scan'.dec = d
        BY <3>2, <4>1, TrendDecision DEF ScanIdle
      <4>3. QED
        BY <4>2
    <3>3. QED
      BY <3>1, <3>2
  <2>3. QED
    BY <2>1, <2>2 DEF Decided, Lawful
<1>3. ASSUME UNCHANGED scan, final'.pc # "persist" PROVE Decided'
  BY <1>3 DEF Decided, Lawful
<1>4. ASSUME NEW a \in Adds, FinalEvaluate(a) PROVE Decided'
  <2>1. CASE Blocked(a)
    BY <1>3, <1>4, <2>1 DEF FinalEvaluate, Blocked, FinalIdle
  <2>2. CASE ~ Blocked(a)
    <3>1. PICK d \in Decisions(add[a].life, row.mode, row.stop) :
            /\ keeps_floor(a, d)
            /\ final' = [pc |-> "persist", add |-> a, dec |-> d]
      BY <1>4, <2>2 DEF FinalEvaluate
    <3>2. row.life = add[a].life /\ row.stop # 0 /\ add[a].state # "none" /\ UNCHANGED << add, scan >>
      BY <1>4, <2>2 DEF FinalEvaluate
    <3>3. Lawful(d) /\ d.life = add[a].life
      BY <3>1, <3>2, HeldDecision DEF Shown
    <3>4. final'.dec = d /\ final'.add = a
      BY <3>1
    <3>5. QED
      BY <3>1, <3>2, <3>3, <3>4 DEF Decided, Lawful, keeps_floor
  <2>3. QED
    BY <2>1, <2>2
<1>5. ASSUME NEW a \in Adds, ProposeAdd(a) PROVE Decided'
  <2>1. final.pc = "persist" => add'[final.add] = add[final.add]
    BY <1>5 DEF TypeOK, Busy, ProposeAdd
  <2>2. UNCHANGED << scan, final >>
    BY <1>5 DEF ProposeAdd
  <2>3. QED
    BY <2>1, <2>2 DEF Decided, Lawful
<1>6. CASE OpenLife \/ CloseLife \/ TakeProfitFill \/ UNCHANGED vars
  BY <1>1, <1>6 DEF OpenLife, CloseLife, TakeProfitFill, vars
<1>8. CASE Classify \/ ReadPrevious \/ UpsertRow \/ PersistTrend \/ ScannerCrash
  <2>1. scan'.pc # "persist"
    <3>1. CASE Classify \/ UpsertRow
      BY <3>1 DEF Classify, UpsertRow, ScanIdle
    <3>2. CASE ReadPrevious
      BY <3>2 DEF TypeOK, ReadPrevious
    <3>3. CASE PersistTrend \/ ScannerCrash
      BY <3>3 DEF PersistTrend, ScannerCrash, ScanIdle
    <3>4. QED
      BY <1>8, <3>1, <3>2, <3>3
  <2>2. UNCHANGED << add, final >>
    BY <1>8 DEF Classify, ReadPrevious, UpsertRow, PersistTrend, ScannerCrash
  <2>3. QED
    BY <1>1, <2>1, <2>2
<1>7. CASE FinalPersist \/ FinalApprove \/ CreateAdd \/ FinishAdd \/ ListenerCrash
  BY <1>3, <1>7 DEF TypeOK, FinalPersist, FinalApprove, CreateAdd, FinishAdd, ListenerCrash,
     Blocked, FinalIdle
<1>9. QED
  BY <1>2, <1>4, <1>5, <1>6, <1>7, <1>8 DEF Next

\* Proposals come into being with a lifecycle and keep it; the listener turns
\* to one that waits and nobody else ends it.
LEMMA ShownBusyStep ==
  ASSUME TypeOK, Shown, Busy, [Next]_vars
  PROVE  Shown' /\ Busy'
<1>1. CASE UNCHANGED << add, final >>
  BY <1>1 DEF Shown, Busy
<1>2. ASSUME NEW a \in Adds, add[a].state # "none", Blocked(a) PROVE Shown' /\ Busy'
  BY <1>2, BlockedTypes DEF Shown, Busy, FinalIdle
<1>3. CASE UNCHANGED add /\ final.pc # "idle" /\ final'.add = final.add
  BY <1>3 DEF Shown, Busy
<1>4. ASSUME NEW a \in Adds, FinalEvaluate(a) PROVE Shown' /\ Busy'
  <2>1. CASE Blocked(a)
    BY <1>2, <1>4, <2>1 DEF FinalEvaluate
  <2>2. CASE ~ Blocked(a)
    BY <1>4, <2>2 DEF FinalEvaluate, Shown, Busy
  <2>3. QED
    BY <2>1, <2>2
<1>5. ASSUME NEW a \in Adds, ProposeAdd(a) PROVE Shown' /\ Busy'
  <2>1. PICK k \in Keys, d \in Decisions(active, row.mode, row.stop) :
          add' = [add EXCEPT ![a] = [state |-> "waiting", life |-> active,
                                     key |-> k, floor |-> d.stop]]
    BY <1>5 DEF ProposeAdd
  <2>2. QED
    BY <1>5, <2>1 DEF TypeOK, ProposeAdd, Shown, Busy
<1>6. CASE FinalPersist
  BY <1>2, <1>3, <1>6 DEF TypeOK, Busy, FinalPersist
<1>7. CASE FinalApprove
  BY <1>2, <1>3, <1>7 DEF TypeOK, Busy, FinalApprove
<1>8. CASE CreateAdd
  BY <1>3, <1>8 DEF TypeOK, CreateAdd
<1>9. CASE FinishAdd
  BY <1>2, <1>9 DEF Busy, FinishAdd
<1>10. CASE ListenerCrash
  BY <1>2, <1>10 DEF Busy, ListenerCrash
<1>11. CASE OpenLife \/ CloseLife \/ TakeProfitFill \/ Classify \/ ReadPrevious \/ UpsertRow
              \/ EvaluateTrend \/ PersistTrend \/ ScannerCrash \/ UNCHANGED vars
  BY <1>1, <1>11 DEF OpenLife, CloseLife, TakeProfitFill, Classify, ReadPrevious, UpsertRow,
     EvaluateTrend, PersistTrend, ScannerCrash, vars
<1>12. QED
  BY <1>4, <1>5, <1>6, <1>7, <1>8, <1>9, <1>10, <1>11 DEF Next

\* Lifecycles are numbered upwards, and what was read names an old number.
LEMMA PastStep ==
  ASSUME TypeOK, Past, [Next]_vars
  PROVE  Past'
<1>1. active \in Int /\ last \in Int /\ scan.life \in Int /\ row.life \in Int
      /\ \A a \in Adds : add[a].life \in Int
  <2>1. row.life \in Int
    BY BoundsAssumption DEF TypeOK, Row, NoRow, Lives
  <2>2. QED
    BY <2>1, BoundsAssumption DEF TypeOK, Lives
<1>2. CASE OpenLife
  BY <1>1, <1>2 DEF OpenLife, Past
<1>3. ASSUME UNCHANGED last, active' \in { 0, active }, row'.life \in { -1, row.life, scan.life },
             scan'.life \in { 0, active, scan.life },
             \A a \in Adds : add'[a].life \in { active, add[a].life },
             last >= 0
      PROVE  Past'
  BY <1>1, <1>3 DEF Past
<1>4. last >= 0
  BY BoundsAssumption DEF TypeOK, Lives
<1>5. CASE CloseLife \/ TakeProfitFill
  BY <1>3, <1>4, <1>5 DEF TypeOK, CloseLife, TakeProfitFill, NoRow, Row
<1>6. CASE Classify
  <2>1. scan'.life = 0
    BY <1>6 DEF Classify, ScanIdle
  <2>2. QED
    BY <1>3, <1>4, <1>6, <2>1 DEF Classify
<1>7. CASE ReadPrevious \/ ScannerCrash
  <2>1. scan'.life \in { 0, active }
    <3>1. CASE ReadPrevious
      BY <3>1 DEF TypeOK, ReadPrevious
    <3>2. CASE ScannerCrash
      BY <3>2 DEF ScannerCrash, ScanIdle
    <3>3. QED
      BY <1>7, <3>1, <3>2
  <2>2. UNCHANGED << active, last, row, add >>
    BY <1>7 DEF ReadPrevious, ScannerCrash
  <2>3. QED
    BY <1>3, <1>4, <2>1, <2>2
<1>8. CASE UpsertRow
  <2>1. row'.life = scan.life
    BY <1>8, RowLife DEF TypeOK, UpsertRow
  <2>2. QED
    BY <1>3, <1>4, <1>8, <2>1 DEF UpsertRow, ScanIdle
<1>9. CASE EvaluateTrend
  <2>1. scan'.life = 0
    <3>1. CASE scan' = ScanIdle
      BY <3>1 DEF ScanIdle
    <3>2. CASE \E d \in Decisions(active, row.mode, Max({ 1, row.trail, row.stop })) :
                 scan' = [ScanIdle EXCEPT !.pc = "persist", !.dec = d]
      BY <3>2 DEF ScanIdle
    <3>3. QED
      BY <1>9, <3>1, <3>2 DEF EvaluateTrend
  <2>2. QED
    BY <1>3, <1>4, <1>9, <2>1 DEF EvaluateTrend
<1>10. CASE PersistTrend \/ FinalPersist
  <2>1. row'.life = row.life
    <3>1. ASSUME NEW d, PersistsStop(d) PROVE row'.life = row.life
      BY <3>1, RowLife DEF PersistsStop
    <3>2. QED
      BY <1>10, <3>1 DEF PersistTrend, FinalPersist
  <2>2. \A a \in Adds : add'[a].life = add[a].life
    BY <1>10 DEF TypeOK, PersistTrend, FinalPersist, Blocked
  <2>3. QED
    BY <1>3, <1>4, <1>10, <2>1, <2>2 DEF PersistTrend, FinalPersist, ScanIdle
<1>11. CASE FinalApprove \/ CreateAdd \/ FinishAdd \/ ListenerCrash
  <2>1. \A a \in Adds : add'[a].life = add[a].life
    BY <1>11 DEF TypeOK, FinalApprove, CreateAdd, FinishAdd, ListenerCrash, Blocked
  <2>2. UNCHANGED << active, last, row, scan >>
    BY <1>11 DEF FinalApprove, CreateAdd, FinishAdd, ListenerCrash
  <2>3. QED
    BY <1>3, <1>4, <2>1, <2>2
<1>12. ASSUME NEW a \in Adds, ProposeAdd(a) PROVE Past'
  BY <1>3, <1>4, <1>12 DEF TypeOK, ProposeAdd
<1>13. ASSUME NEW a \in Adds, FinalEvaluate(a) PROVE Past'
  BY <1>3, <1>4, <1>13 DEF TypeOK, FinalEvaluate, Blocked
<1>14. CASE UNCHANGED vars
  BY <1>14 DEF Past, vars
<1>15. QED
  BY <1>2, <1>5, <1>6, <1>7, <1>8, <1>9, <1>10, <1>11, <1>12, <1>13, <1>14 DEF Next

\* The scanner writes the lifecycle that was active when it read the row, and
\* the hits it read are that lifecycle's; a fill is the only other way to a hit.
LEMMA ScannerStep ==
  ASSUME TypeOK, Past, ReadInTime, HitReadEarned, HitIsEarned, [Next]_vars
  PROVE  ReadInTime' /\ HitReadEarned' /\ HitIsEarned'
<1>1. active \in {0} \cup Lives /\ last \in {0} \cup Lives /\ 0 \notin Lives /\ -1 \notin Lives
      /\ Lives \subseteq Int
  BY BoundsAssumption DEF TypeOK, Lives
<1>2. CASE UNCHANGED << active, row, taken >> /\ scan'.pc # "upsert"
  BY <1>2 DEF ReadInTime, HitReadEarned, HitIsEarned
<1>3. CASE UNCHANGED << active, row, taken, scan >>
  BY <1>3 DEF ReadInTime, HitReadEarned, HitIsEarned
<1>4. CASE OpenLife
  BY <1>1, <1>4 DEF OpenLife, Past, ReadInTime, HitReadEarned, HitIsEarned
<1>5. CASE CloseLife
  BY <1>1, <1>5 DEF CloseLife, ReadInTime, HitReadEarned, HitIsEarned, NoRow
<1>6. CASE TakeProfitFill
  <2>1. row'.life = row.life /\ (row'.hit => row.hit \/ row.life = active)
    BY <1>6 DEF TypeOK, TakeProfitFill, Row, NoRow
  <2>2. QED
    BY <1>1, <1>6, <2>1 DEF TakeProfitFill, ReadInTime, HitReadEarned, HitIsEarned
<1>7. CASE Classify
  <2>1. scan'.pc = "record"
    BY <1>7 DEF Classify, ScanIdle
  <2>2. QED
    BY <1>2, <1>7, <2>1 DEF Classify
<1>8. CASE ReadPrevious
  <2>1. scan'.life = active /\ (scan'.hit <=> state(active).hit)
    BY <1>8 DEF TypeOK, ReadPrevious
  <2>2. active # 0 /\ state(active).hit => active \in taken
    BY <1>1, NoHitWithoutRow DEF TypeOK, HitIsEarned
  <2>3. QED
    BY <1>1, <1>8, <2>1, <2>2 DEF ReadPrevious, ReadInTime, HitReadEarned, HitIsEarned
<1>9. CASE UpsertRow
  <2>1. row'.life = scan.life /\ (row'.hit <=> scan.hit)
    BY <1>9, RowLife DEF TypeOK, UpsertRow
  <2>2. scan'.pc = "trend"
    BY <1>9 DEF UpsertRow, ScanIdle
  <2>3. QED
    BY <1>9, <2>1, <2>2 DEF UpsertRow, ReadInTime, HitReadEarned, HitIsEarned
<1>10. CASE EvaluateTrend
  <2>1. scan'.pc # "upsert"
    <3>1. CASE scan' = ScanIdle
      BY <3>1 DEF ScanIdle
    <3>2. CASE \E d \in Decisions(active, row.mode, Max({ 1, row.trail, row.stop })) :
                 scan' = [ScanIdle EXCEPT !.pc = "persist", !.dec = d]
      BY <3>2 DEF ScanIdle
    <3>3. QED
      BY <1>10, <3>1, <3>2 DEF EvaluateTrend
  <2>2. QED
    BY <1>2, <1>10, <2>1 DEF EvaluateTrend
<1>11. CASE PersistTrend \/ FinalPersist
  <2>1. row'.life = row.life /\ (row'.hit <=> row.hit)
    <3>1. ASSUME NEW d, PersistsStop(d) PROVE row'.life = row.life /\ (row'.hit <=> row.hit)
      BY <3>1, RowLife DEF PersistsStop
    <3>2. QED
      BY <1>11, <3>1 DEF PersistTrend, FinalPersist
  <2>2. scan' = scan \/ scan'.pc = "idle"
    BY <1>11 DEF PersistTrend, FinalPersist, ScanIdle
  <2>3. UNCHANGED << active, taken >>
    BY <1>11 DEF PersistTrend, FinalPersist
  <2>4. QED
    BY <2>1, <2>2, <2>3 DEF ReadInTime, HitReadEarned, HitIsEarned
<1>12. CASE ScannerCrash
  BY <1>2, <1>12 DEF ScannerCrash, ScanIdle
<1>13. CASE FinalApprove \/ CreateAdd \/ FinishAdd \/ ListenerCrash \/ UNCHANGED vars
            \/ \E a \in Adds : ProposeAdd(a) \/ FinalEvaluate(a)
  BY <1>3, <1>13 DEF FinalApprove, CreateAdd, FinishAdd, ListenerCrash, ProposeAdd,
     FinalEvaluate, vars
<1>14. QED
  BY <1>4, <1>5, <1>6, <1>7, <1>8, <1>9, <1>10, <1>11, <1>12, <1>13 DEF Next

\* A milestone changes its claimant only while nobody has claimed it, and an ADD
\* is created for the claimant.
LEMMA ClaimedStep ==
  ASSUME TypeOK, Shown, Busy, Claimed, [Next]_vars
  PROVE  Claimed'
<1>1. adds \subseteq Adds \X Lives \X Keys
  BY DEF TypeOK
<1>2. ASSUME NEW a \in Adds, add[a].state # "none", Blocked(a) PROVE
        \A b \in Adds : add'[b].life = add[b].life /\ (add[b].state # "none" => add'[b].state # "none")
  BY <1>2, BlockedTypes
<1>3. ASSUME UNCHANGED adds,
             \A b \in Adds : add[b].state # "none" => add'[b].life = add[b].life /\ add'[b].state # "none",
             \A m \in Lives \X Keys :
               ms[m].status # "none" => ms'[m].status # "none" /\ ms'[m].by = ms[m].by
      PROVE  Claimed'
  <2>1. SUFFICES ASSUME NEW e \in adds
                 PROVE  /\ add'[e[1]].state # "none" /\ add'[e[1]].life = e[2]
                        /\ ms'[<< e[2], e[3] >>].status # "none" /\ ms'[<< e[2], e[3] >>].by = e[1]
    BY <1>3 DEF Claimed
  <2>2. e[1] \in Adds /\ << e[2], e[3] >> \in Lives \X Keys
    BY <1>1
  <2>3. QED
    BY <1>3, <2>2 DEF Claimed
<1>4. CASE UNCHANGED << add, adds, ms >>
  BY <1>3, <1>4
<1>5. CASE FinalPersist
  <2>1. final.add \in Adds /\ add[final.add].state # "none"
    BY <1>5 DEF Busy, FinalPersist
  <2>2. QED
    BY <1>2, <1>3, <1>5, <2>1 DEF FinalPersist
<1>6. CASE FinalApprove
  <2>1. final.add \in Adds /\ add[final.add].state # "none" /\ add[final.add].life \in Lives
    BY <1>6, BusyLife DEF Busy, FinalApprove
  <2>2. CASE MilestoneOf(final.add).status = "PROPOSED"
    <3>1. MoveMilestone(final.add, "APPROVED") /\ UNCHANGED << add, adds >>
      BY <1>6, <2>2 DEF FinalApprove
    <3>2. QED
      BY <1>3, <2>1, <3>1, MoveMilestoneTypes
  <2>3. CASE MilestoneOf(final.add).status # "PROPOSED"
    BY <1>2, <1>3, <1>6, <2>1, <2>3 DEF FinalApprove
  <2>4. QED
    BY <2>2, <2>3
<1>7. CASE CreateAdd
  <2>1. CASE UNCHANGED adds
    BY <1>4, <1>7, <2>1 DEF CreateAdd
  <2>2. CASE adds' # adds
    <3>1. /\ MilestoneOf(final.add).status = "APPROVED" /\ MilestoneOf(final.add).by = final.add
          /\ adds' = adds \cup { << final.add, add[final.add].life, add[final.add].key >> }
          /\ UNCHANGED << ms, add >>
      BY <1>7, <2>2 DEF CreateAdd
    <3>2. add[final.add].state # "none"
      BY <1>7 DEF Busy, CreateAdd
    <3>3. ASSUME NEW e \in adds'
          PROVE  /\ add[e[1]].state # "none" /\ add[e[1]].life = e[2]
                 /\ ms[<< e[2], e[3] >>].status # "none" /\ ms[<< e[2], e[3] >>].by = e[1]
      <4>1. CASE e \in adds
        BY <4>1 DEF Claimed
      <4>2. CASE e = << final.add, add[final.add].life, add[final.add].key >>
        <5>1. e[1] = final.add /\ e[2] = add[final.add].life /\ e[3] = add[final.add].key
          BY <4>2
        <5>2. QED
          BY <3>1, <3>2, <5>1 DEF MilestoneOf
      <4>3. QED
        BY <3>1, <4>1, <4>2
    <3>4. QED
      BY <3>1, <3>3 DEF Claimed
  <2>3. QED
    BY <2>1, <2>2
<1>8. CASE FinishAdd
  <2>1. final.add \in Adds /\ add[final.add].state # "none" /\ add[final.add].life \in Lives
    BY <1>8, BusyLife DEF Busy, FinishAdd
  <2>2. Blocked(final.add) /\ UNCHANGED adds
    BY <1>8 DEF FinishAdd
  <2>3. \A m \in Lives \X Keys :
          ms[m].status # "none" => ms'[m].status # "none" /\ ms'[m].by = ms[m].by
    <3>1. CASE MilestoneOf(final.add).status = "APPROVED"
      <4>1. MoveMilestone(final.add, IF \E e \in adds : e[1] = final.add THEN "SUBMITTED"
                                     ELSE "REJECTED")
        BY <1>8, <3>1 DEF FinishAdd
      <4>2. QED
        BY <2>1, <4>1, MoveMilestoneTypes
    <3>2. CASE MilestoneOf(final.add).status # "APPROVED"
      BY <1>8, <3>2 DEF FinishAdd
    <3>3. QED
      BY <3>1, <3>2
  <2>4. QED
    BY <1>2, <1>3, <2>1, <2>2, <2>3
<1>9. CASE ListenerCrash
  <2>1. final.add \in Adds /\ add[final.add].state # "none"
    BY <1>9 DEF Busy, ListenerCrash
  <2>2. QED
    BY <1>2, <1>3, <1>9, <2>1 DEF ListenerCrash
<1>10. ASSUME NEW a \in Adds, FinalEvaluate(a) PROVE Claimed'
  <2>1. CASE Blocked(a)
    BY <1>2, <1>3, <1>10, <2>1 DEF FinalEvaluate
  <2>2. CASE ~ Blocked(a)
    BY <1>4, <1>10, <2>2 DEF FinalEvaluate
  <2>3. QED
    BY <2>1, <2>2
<1>11. ASSUME NEW a \in Adds, ProposeAdd(a) PROVE Claimed'
  <2>1. PICK k \in Keys, d \in Decisions(active, row.mode, row.stop) :
          /\ claimable(ms[<< active, k >>])
          /\ ms' = [ms EXCEPT ![<< active, k >>] = [status |-> "PROPOSED", by |-> a]]
          /\ add' = [add EXCEPT ![a] = [state |-> "waiting", life |-> active,
                                        key |-> k, floor |-> d.stop]]
    BY <1>11 DEF ProposeAdd
  <2>2. add[a].state = "none" /\ UNCHANGED adds
    BY <1>11 DEF ProposeAdd
  <2>3. \A b \in Adds : add[b].state # "none" => add'[b] = add[b]
    BY <2>1, <2>2 DEF TypeOK
  <2>4. \A m \in Lives \X Keys : ms[m].status # "none" => ms'[m] = ms[m]
    BY <2>1 DEF TypeOK, claimable
  <2>5. QED
    BY <1>3, <2>2, <2>3, <2>4
<1>12. CASE OpenLife \/ CloseLife \/ TakeProfitFill \/ Classify \/ ReadPrevious \/ UpsertRow
              \/ EvaluateTrend \/ PersistTrend \/ ScannerCrash \/ UNCHANGED vars
  BY <1>4, <1>12 DEF OpenLife, CloseLife, TakeProfitFill, Classify, ReadPrevious, UpsertRow,
     EvaluateTrend, PersistTrend, ScannerCrash, vars
<1>13. QED
  BY <1>5, <1>6, <1>7, <1>8, <1>9, <1>10, <1>11, <1>12 DEF Next

\* Whoever writes the row of a lifecycle leaves its stop no lower and moves its
\* mode along the allowed transitions.
LEMMA RowOfALife ==
  ASSUME TypeOK, Decided, [Next]_vars, SameLife
  PROVE  /\ row'.stop >= row.stop
         /\ row.mode # "none" => row'.mode \in ALLOWED_TRANSITIONS[row.mode]
<1>1. row \in Row /\ row.stop \in Int /\ row.mode \in Modes \cup { "none" }
  BY BoundsAssumption DEF TypeOK, SameLife, Row, NoRow, Lives, Stops, Prices
<1>2. row.mode # "none" => row.mode \in ALLOWED_TRANSITIONS[row.mode]
  BY <1>1 DEF ALLOWED_TRANSITIONS, Modes, Recovering, Trending
<1>3. CASE row'.stop = row.stop /\ row'.mode = row.mode
  BY <1>1, <1>2, <1>3
<1>4. CASE PersistTrend \/ FinalPersist
  <2>1. CASE UNCHANGED row
    BY <1>3, <2>1
  <2>2. CASE row' # row
    <3>1. PICK d : Lawful(d) /\ row.life = d.life /\ PersistsStop(d)
      BY <1>4, <2>2 DEF PersistTrend, FinalPersist, Decided
    <3>2. QED
      BY <3>1, PersistedStop
  <2>3. QED
    BY <2>1, <2>2
<1>5. CASE CloseLife
  BY <1>5, BoundsAssumption DEF CloseLife, SameLife, NoRow, Lives
<1>6. CASE TakeProfitFill \/ UpsertRow
  BY <1>1, <1>3, <1>6 DEF TakeProfitFill, UpsertRow, Row
<1>7. CASE UNCHANGED row
  BY <1>3, <1>7
<1>8. QED
  BY <1>4, <1>5, <1>6, <1>7 DEF Next, OpenLife, Classify, ReadPrevious, EvaluateTrend,
     FinalApprove, CreateAdd, FinishAdd, ListenerCrash, ScannerCrash, ProposeAdd,
     FinalEvaluate, vars

\* Once it is the active lifecycle's, the row stays so while the lifecycle lasts.
LEMMA RowStaysActive ==
  ASSUME TypeOK, Decided, ReadInTime, [Next]_vars, active # 0, row.life = active, active' = active
  PROVE  row'.life = active /\ row'.stop >= row.stop
<1>1. row'.life = active
  <2>1. CASE UNCHANGED row
    BY <2>1
  <2>2. CASE TakeProfitFill \/ UpsertRow
    <3>1. CASE TakeProfitFill
      BY <3>1 DEF TypeOK, TakeProfitFill, Row, NoRow
    <3>2. CASE UpsertRow
      BY <3>2, RowLife DEF UpsertRow, ReadInTime
    <3>3. QED
      BY <2>2, <3>1, <3>2
  <2>3. CASE PersistTrend \/ FinalPersist
    <3>1. ASSUME NEW d, PersistsStop(d) PROVE row'.life = row.life
      BY <3>1, RowLife DEF PersistsStop
    <3>2. QED
      BY <2>3, <3>1 DEF PersistTrend, FinalPersist
  <2>4. QED
    BY <2>1, <2>2, <2>3 DEF Next, OpenLife, CloseLife, Classify, ReadPrevious, EvaluateTrend,
       FinalApprove, CreateAdd, FinishAdd, ListenerCrash, ScannerCrash, ProposeAdd,
       FinalEvaluate, vars
<1>2. SameLife
  BY <1>1 DEF TypeOK, SameLife
<1>3. QED
  BY <1>1, <1>2, RowOfALife

\* Of a proposal that was shown neither the lifecycle nor the floor changes.
LEMMA DetailsKept ==
  ASSUME TypeOK, Busy, [Next]_vars, NEW a \in Adds, add[a].state # "none"
  PROVE  add'[a].life = add[a].life /\ add'[a].floor = add[a].floor
<1>1. CASE UNCHANGED add
  BY <1>1
<1>2. ASSUME NEW b \in Adds, Blocked(b)
      PROVE  add'[a].life = add[a].life /\ add'[a].floor = add[a].floor
  BY <1>2, BlockedTypes
<1>3. ASSUME NEW b \in Adds, ProposeAdd(b)
      PROVE  add'[a].life = add[a].life /\ add'[a].floor = add[a].floor
  BY <1>3 DEF TypeOK, ProposeAdd
<1>4. CASE FinalPersist \/ FinalApprove \/ CreateAdd \/ FinishAdd \/ ListenerCrash
  BY <1>1, <1>2, <1>4 DEF Busy, FinalPersist, FinalApprove, CreateAdd, FinishAdd, ListenerCrash
<1>5. QED
  BY <1>1, <1>2, <1>3, <1>4 DEF Next, OpenLife, CloseLife, TakeProfitFill, Classify, ReadPrevious,
     UpsertRow, EvaluateTrend, PersistTrend, ScannerCrash, FinalEvaluate, vars

\* A floor that holds goes on holding.
LEMMA FloorKept ==
  ASSUME TypeOK, Decided, Shown, Busy, Past, ReadInTime, [Next]_vars,
         NEW a \in Adds, add[a].state # "none", FloorHeld(a)
  PROVE  FloorHeld(a)'
<1>1. add'[a].life = add[a].life /\ add'[a].floor = add[a].floor
  BY DetailsKept
<1>2. active' = active \/ active' = 0 \/ active' = last + 1
  BY DEF Next, OpenLife, CloseLife, TakeProfitFill, Classify, ReadPrevious, UpsertRow,
     EvaluateTrend, PersistTrend, FinalPersist, FinalApprove, CreateAdd, FinishAdd,
     ListenerCrash, ScannerCrash, ProposeAdd, FinalEvaluate, vars
<1>3. add[a].life # last + 1
  BY BoundsAssumption DEF TypeOK, Past, Lives
<1>4. CASE active' = active /\ active # 0 /\ add[a].life = active
  <2>1. row.life = active /\ row.stop >= add[a].floor
    BY <1>4 DEF FloorHeld
  <2>2. row'.life = active /\ row'.stop >= row.stop
    BY <1>4, <2>1, RowStaysActive
  <2>3. row.stop \in Int /\ add[a].floor \in Int /\ row'.stop \in Int
    <3>1. TypeOK'
      BY TypeStep
    <3>2. ASSUME NEW r \in Row \cup { NoRow } PROVE r.stop \in Int
      BY <3>2, BoundsAssumption DEF Row, NoRow, Stops, Prices
    <3>3. QED
      BY <3>1, <3>2, BoundsAssumption DEF TypeOK, Stops, Prices
  <2>4. QED
    BY <1>1, <1>4, <2>1, <2>2, <2>3 DEF FloorHeld
<1>5. QED
  BY <1>1, <1>2, <1>3, <1>4 DEF FloorHeld

\* The floor holds from the write of the stop on, for the ADD in hand and for
\* those that were created.
LEMMA FloorsHeldStep ==
  ASSUME TypeOK, Decided, Shown, Busy, Past, ReadInTime, Claimed, FloorsHeld, [Next]_vars
  PROVE  FloorsHeld'
<1>1. \A e \in adds : e[1] \in Adds /\ add[e[1]].state # "none"
  BY DEF TypeOK, Claimed
<1>2. \A e \in adds : FloorHeld(e[1])'
  BY <1>1, FloorKept DEF FloorsHeld
<1>3. ASSUME NEW a \in Adds, final.pc \in { "approve", "create" }, final.add = a
      PROVE  FloorHeld(a)'
  <2>1. add[a].state # "none" /\ FloorHeld(a)
    BY <1>3 DEF Busy, FloorsHeld
  <2>2. QED
    BY <2>1, FloorKept
<1>4. ASSUME final'.pc \in { "approve", "create" }, ~ FinalPersist
      PROVE  final'.add = final.add /\ final.pc \in { "approve", "create" }
  <2>1. CASE UNCHANGED final
    BY <1>4, <2>1
  <2>2. ASSUME NEW a \in Adds, Blocked(a) PROVE FALSE
    BY <1>4, <2>2 DEF Blocked, FinalIdle
  <2>3. ASSUME NEW a \in Adds, FinalEvaluate(a) PROVE FALSE
    BY <1>4, <2>2, <2>3 DEF FinalEvaluate
  <2>4. CASE FinalApprove \/ CreateAdd \/ FinishAdd \/ ListenerCrash
    BY <1>4, <2>2, <2>4 DEF TypeOK, Busy, FinalApprove, CreateAdd, FinishAdd, ListenerCrash
  <2>5. QED
    BY <1>4, <2>1, <2>3, <2>4 DEF Next, OpenLife, CloseLife, TakeProfitFill, Classify, ReadPrevious,
       UpsertRow, EvaluateTrend, PersistTrend, ScannerCrash, ProposeAdd, vars
<1>5. \A e \in adds' : FloorHeld(e[1])'
  <2>1. CASE adds' = adds
    BY <1>2, <2>1
  <2>2. CASE adds' # adds
    <3>1. CreateAdd
      BY <2>2 DEF Next, OpenLife, CloseLife, TakeProfitFill, Classify, ReadPrevious, UpsertRow,
         EvaluateTrend, PersistTrend, FinalPersist, FinalApprove, FinishAdd,
         ListenerCrash, ScannerCrash, ProposeAdd, FinalEvaluate, vars
    <3>2. final.pc = "create" /\ final.add \in Adds
          /\ adds' = adds \cup { << final.add, add[final.add].life, add[final.add].key >> }
      BY <2>2, <3>1 DEF CreateAdd, Busy
    <3>3. PICK a \in Adds : a = final.add
      BY <3>2
    <3>4. FloorHeld(a)'
      BY <1>3, <3>2, <3>3
    <3>5. \A e \in adds' : e \in adds \/ e[1] = a
      BY <3>2, <3>3
    <3>6. QED
      BY <1>2, <3>4, <3>5
  <2>3. QED
    BY <2>1, <2>2
<1>6. ASSUME final'.pc \in { "approve", "create" } PROVE FloorHeld(final.add)' /\ final'.add \in Adds
  <2>1. CASE FinalPersist
    <3>1. PICK a \in Adds : a = final.add
      BY <2>1 DEF Busy, FinalPersist
    <3>2. row.life = final.dec.life
      BY <1>6, <2>1 DEF FinalPersist, Blocked, FinalIdle
    <3>3. PersistsStop(final.dec) /\ Lawful(final.dec) /\ final.dec.life = add[a].life
          /\ final.dec.stop >= add[a].floor /\ UNCHANGED << add, active >> /\ final'.add = a
      BY <2>1, <3>1, <3>2 DEF TypeOK, FinalPersist, Decided
    <3>4. row'.life = row.life /\ row'.stop >= final.dec.stop /\ row' \in Row
      BY <3>2, <3>3, PersistedStop
    <3>5. row'.stop \in Int /\ final.dec.stop \in Int /\ add[a].floor \in Int
      BY <3>3, <3>4, BoundsAssumption DEF TypeOK, Row, Lawful, Decision, Stops, Prices
    <3>6. FloorHeld(a)'
      BY <3>2, <3>3, <3>4, <3>5 DEF FloorHeld
    <3>7. QED
      BY <3>3, <3>6 DEF FloorHeld
  <2>2. CASE ~ FinalPersist
    <3>1. PICK a \in Adds : a = final.add
      BY <1>4, <1>6, <2>2 DEF Busy
    <3>2. FloorHeld(a)' /\ final'.add = a
      BY <1>3, <1>4, <1>6, <2>2, <3>1
    <3>3. QED
      BY <3>2 DEF FloorHeld
  <2>3. QED
    BY <2>1, <2>2
<1>7. QED
  BY <1>5, <1>6 DEF FloorsHeld

(***************************************************************************)
(* The theorems.                                                           *)
(***************************************************************************)

\* Every reachable state satisfies the invariant.
THEOREM IInvHolds == Spec => []IInv
<1>1. Init => IInv
  BY InitHolds
<1>2. IInv /\ [Next]_vars => IInv'
  BY TypeStep, DecidedStep, ShownBusyStep, PastStep, ScannerStep, ClaimedStep, FloorsHeldStep
  DEF IInv
<1>3. QED
  BY <1>1, <1>2, PTL DEF Spec

\* Every variable keeps its type, whatever the two processes interleave.
THEOREM TypeCorrect == Spec => []TypeOK
<1>1. IInv => TypeOK
  BY DEF IInv
<1>2. QED
  BY <1>1, IInvHolds, PTL

\* One milestone gives one ADD (claim_milestone and create_intent), whatever is
\* proposed, approved or interrupted.
THEOREM OneAddPerMilestone == Spec => []AddOncePerMilestone
<1>1. IInv => AddOncePerMilestone
  <2>1. SUFFICES ASSUME IInv, NEW e \in adds, NEW f \in adds,
                        << e[2], e[3] >> = << f[2], f[3] >>
                 PROVE  e = f
    BY DEF AddOncePerMilestone
  <2>2. e[1] = f[1]
    BY <2>1 DEF IInv, Claimed
  <2>3. e \in Adds \X Lives \X Keys /\ f \in Adds \X Lives \X Keys
    BY <2>1 DEF IInv, TypeOK
  <2>4. QED
    BY <2>1, <2>2, <2>3
<1>2. QED
  BY <1>1, IInvHolds, PTL

\* While its lifecycle lasts, an ADD is in the market with at least the stop
\* that the operator was shown (persist_authoritative_stop before create_intent).
THEOREM AddNeverBelowItsFloor == Spec => []AddKeepsItsFloor
<1>1. IInv => AddKeepsItsFloor
  <2>1. SUFFICES ASSUME IInv, NEW e \in adds, e[2] = active
                 PROVE  row.life = active /\ row.stop >= add[e[1]].floor
    BY DEF AddKeepsItsFloor
  <2>2. e[2] \in Lives /\ add[e[1]].life = e[2] /\ FloorHeld(e[1])
    BY <2>1 DEF IInv, TypeOK, Claimed, FloorsHeld
  <2>3. QED
    BY <2>1, <2>2, BoundsAssumption DEF FloorHeld, Lives
<1>2. QED
  BY <1>1, IInvHolds, PTL

\* A level counts as taken only in the lifecycle that sold it, although the
\* scanner writes back hits that it read earlier (_record_position_management).
THEOREM HitsAreEarned == Spec => []HitIsEarned
<1>1. IInv => HitIsEarned
  BY DEF IInv
<1>2. QED
  BY <1>1, IInvHolds, PTL

\* No write of the row of a lifecycle lowers its protective stop (target_stop).
THEOREM StopsOnlyRise == Spec => StopNeverLoosened
<1>1. IInv /\ [Next]_vars => [SameLife => row'.stop >= row.stop]_vars
  BY RowOfALife DEF IInv
<1>2. QED
  BY <1>1, IInvHolds, PTL DEF Spec, StopNeverLoosened

\* No write of the row of a lifecycle leaves ALLOWED_TRANSITIONS, although the
\* decision written may have started from an older mode (effective_mode).
THEOREM ModesFollowTransitions == Spec => ModeFollowsTransitions
<1>1. IInv /\ [Next]_vars =>
        [SameLife /\ row.mode # "none" => row'.mode \in ALLOWED_TRANSITIONS[row.mode]]_vars
  BY RowOfALife DEF IInv
<1>2. QED
  BY <1>1, IInvHolds, PTL DEF Spec, ModeFollowsTransitions

=============================================================================
