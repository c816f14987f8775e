---------------------------- MODULE HeldPosition ----------------------------
(***************************************************************************)
(* The management of one held position by two processes that share its row *)
(* of position_management_state: the scanner, which records each look at   *)
(* the position and then its trend decision, and the listener, which looks *)
(* once more when an ADD is approved.  app/trend_management.py,            *)
(* app/winner_expansion.py, app/position_management.py.  Between a read of *)
(* the row and the write that follows anything else may happen.            *)
(***************************************************************************)
EXTENDS Integers, FiniteSets, FiniteSetsExt

CONSTANTS
  Adds,        \* ADD proposals
  Keys,        \* milestone keys a market can give
  MaxPrice,    \* prices and stops are 1..MaxPrice; the initial stop is 1
  MaxLives     \* bounds lifecycles

ASSUME BoundsAssumption == MaxPrice \in Nat \ {0} /\ MaxLives \in Nat

ASSUME NamesAssumption == Keys # {} /\ "nobody" \notin Adds

Modes == { "DEFENSIVE_HARVEST", "STANDARD_SCALE_OUT", "TREND_HOLD",
           "TREND_PYRAMID", "PROFIT_PROTECT", "EXIT_REQUIRED" }
Recovering == { "DEFENSIVE_HARVEST", "PROFIT_PROTECT" }
Trending == { "TREND_HOLD", "TREND_PYRAMID" }

Prices == 1..MaxPrice
Lives == 1..MaxLives
Stops == {0} \cup Prices      \* 0 is NULL

Row == [life : {0} \cup Lives, mode : Modes \cup { "none" }, stop : Stops,
        trail : Stops, hit : BOOLEAN]
NoRow == [life |-> -1, mode |-> "none", stop |-> 0, trail |-> 0, hit |-> FALSE]
Decision == [life : Lives, prev : Modes \cup { "none" }, mode : Modes, stop : Prices]
NoDecision == [life |-> 0, prev |-> "none", mode |-> "STANDARD_SCALE_OUT", stop |-> 1]

VARIABLES
  active,   \* the lifecycle that is active, 0 when none is
  last,     \* the lifecycle opened last
  row,      \* position_management_state, one row for the symbol
  latest,   \* the newest stop of position_stop_history, by lifecycle
  taken,    \* lifecycles whose take-profit of level 1 has filled
  ms,       \* pyramiding_milestones: status and proposal, by lifecycle and key
  add,      \* proposals: state, and the lifecycle, key and stop floor shown
  adds,     \* the ADD orders created
  scan,     \* the scanner, with what it has read
  final     \* the listener's final revalidation, with what it has read

vars == << active, last, row, latest, taken, ms, add, adds, scan, final >>

Milestone == [status : { "none", "PROPOSED", "APPROVED", "SUBMITTED", "REJECTED" },
              by : Adds \cup { "nobody" }]

TypeOK ==
  /\ active \in {0} \cup Lives /\ last \in {0} \cup Lives
  /\ row \in Row \cup { NoRow }
  /\ latest \in [Lives -> Stops] /\ taken \subseteq Lives
  /\ ms \in [Lives \X Keys -> Milestone]
  /\ add \in [Adds -> [state : { "none", "waiting", "done" }, life : {0} \cup Lives,
                       key : Keys, floor : Stops]]
  /\ adds \subseteq Adds \X Lives \X Keys
  /\ scan \in [pc : { "idle", "record", "upsert", "trend", "persist" },
               life : {0} \cup Lives, trail : Stops, hit : BOOLEAN,
               dec : Decision \cup { NoDecision }]
  /\ final \in [pc : { "idle", "persist", "approve", "create", "finish" },
                add : Adds \cup { "nobody" }, dec : Decision \cup { NoDecision }]

ScanIdle == [pc |-> "idle", life |-> 0, trail |-> 0, hit |-> FALSE, dec |-> NoDecision]
FinalIdle == [pc |-> "idle", add |-> "nobody", dec |-> NoDecision]

Init ==
  /\ active = 0 /\ last = 0 /\ row = NoRow
  /\ latest = [l \in Lives |-> 0] /\ taken = {}
  /\ ms = [m \in Lives \X Keys |-> [status |-> "none", by |-> "nobody"]]
  /\ add = [a \in Adds |-> [state |-> "none", life |-> 0,
                            key |-> CHOOSE k \in Keys : TRUE, floor |-> 0]]
  /\ adds = {} /\ scan = ScanIdle /\ final = FinalIdle

(***************************************************************************)
(* Lifecycles and fills, by whichever process reconciles.                  *)
(***************************************************************************)
OpenLife ==
  /\ active = 0 /\ last < MaxLives
  /\ active' = last + 1 /\ last' = last + 1
  /\ UNCHANGED << row, latest, taken, ms, add, adds, scan, final >>

\* The row is deleted with the lifecycle.
CloseLife ==
  /\ active # 0 /\ active' = 0 /\ row' = NoRow
  /\ UNCHANGED << last, latest, taken, ms, add, adds, scan, final >>

TakeProfitFill ==
  /\ active # 0 /\ active \notin taken
  /\ taken' = taken \cup { active }
  /\ row' = IF row.life = active THEN [row EXCEPT !.hit = TRUE] ELSE row
  /\ UNCHANGED << active, last, latest, ms, add, adds, scan, final >>

(***************************************************************************)
(* The trend decision.                                                     *)
(***************************************************************************)
ALLOWED_TRANSITIONS == [m \in Modes |->
  CASE m = "EXIT_REQUIRED" -> { m }
    [] m \in Recovering -> Modes \ Trending
    [] OTHER -> Modes]

operational(prev, classified) ==
  IF prev = "none" \/ classified \in ALLOWED_TRANSITIONS[prev] THEN classified
  ELSE IF prev = "EXIT_REQUIRED" THEN prev ELSE "STANDARD_SCALE_OUT"

\* Mutant: an exit moves the stop just below the price.
evaluate_exit_below(l, prev, prior, p, class, candidate) ==
  LET mode == operational(prev, IF prior >= p THEN "EXIT_REQUIRED" ELSE class)
  IN [life |-> l, prev |-> prev, mode |-> mode,
      stop |-> IF mode = "EXIT_REQUIRED" THEN p - 1
               ELSE Max({ prior, Min({ candidate, p - 1 }) })]

\* What the market, at price p, makes of a position: any class, and a stop
\* below the price; a price at the old stop ends it.
evaluate(l, prev, prior, p, class, candidate) ==
  LET mode == operational(prev, IF prior >= p THEN "EXIT_REQUIRED" ELSE class)
  IN [life |-> l, prev |-> prev, mode |-> mode,
      stop |-> IF mode = "EXIT_REQUIRED" THEN prior
               ELSE Max({ prior, Min({ candidate, p - 1 }) })]

Decisions(l, prev, prior) ==
  { evaluate(l, prev, prior, p, c, s) : p \in Prices, c \in Modes, s \in Prices }

safety_rank == [m \in Modes |->
  CASE m = "TREND_PYRAMID" -> 0 [] m = "TREND_HOLD" -> 1
    [] m = "STANDARD_SCALE_OUT" -> 2 [] m = "DEFENSIVE_HARVEST" -> 3
    [] m = "PROFIT_PROTECT" -> 4 [] m = "EXIT_REQUIRED" -> 5]

\* Mutant: the decision that comes last wins.
effective_mode_latest(r, d) == d.mode

\* A decision made from an older mode does not replace a safer one.
effective_mode(r, d) ==
  IF r.mode = "EXIT_REQUIRED"
       \/ (r.mode \notin { "none", d.prev } /\ safety_rank[r.mode] > safety_rank[d.mode])
    THEN r.mode ELSE d.mode

\* Mutant: only what the decision itself started from is compared.
target_stop_unlocked(r, d) == d.stop

target_stop(r, d) == Max({ d.stop, r.stop, latest[d.life] })

\* persist_authoritative_stop, one transaction; it raises without the row.
PersistsStop(d) ==
  LET t == target_stop(row, d)
  IN /\ row' = [row EXCEPT !.stop = t, !.mode = effective_mode(row, d)]
     /\ latest' = [latest EXCEPT ![d.life] = Max({ latest[d.life], t })]

(***************************************************************************)
(* The scanner.                                                            *)
(***************************************************************************)

\* Mutant: whatever row the symbol has.
state_of_symbol(life) == row

\* _position_management_state: the row of the active lifecycle.
state(life) == IF life # 0 /\ row.life # life THEN NoRow ELSE row

\* classify: an exit decision carries no trailing stop, any other one the
\* higher of the old and the new.
Classify ==
  /\ scan.pc = "idle" /\ active # 0
  /\ \E exit \in BOOLEAN, calculated \in Prices \ { MaxPrice } :
       scan' = [ScanIdle EXCEPT !.pc = "record",
                  !.trail = IF exit THEN 0 ELSE Max({ state(active).trail, calculated })]
  /\ UNCHANGED << active, last, row, latest, taken, ms, add, adds, final >>

\* _record_position_management reads the row once more for its level hits,
ReadPrevious ==
  /\ scan.pc = "record"
  /\ scan' = [scan EXCEPT !.pc = "upsert", !.life = active, !.hit = state(active).hit]
  /\ UNCHANGED << active, last, row, latest, taken, ms, add, adds, final >>

\* and writes them back; stop and mode of an existing row stay, whatever
\* lifecycle it was of.
UpsertRow ==
  /\ scan.pc = "upsert"
  /\ row' = [row EXCEPT !.life = scan.life, !.trail = scan.trail, !.hit = scan.hit]
  /\ scan' = [ScanIdle EXCEPT !.pc = "trend"]
  /\ UNCHANGED << active, last, latest, taken, ms, add, adds, final >>

\* _evaluate_held_position_trend raises without a lifecycle or its row.
EvaluateTrend ==
  /\ scan.pc = "trend"
  /\ IF active = 0 \/ row.life # active THEN scan' = ScanIdle
     ELSE \E d \in Decisions(active, row.mode, Max({ 1, row.trail, row.stop })) :
            scan' = [ScanIdle EXCEPT !.pc = "persist", !.dec = d]
  /\ UNCHANGED << active, last, row, latest, taken, ms, add, adds, final >>

PersistTrend ==
  /\ scan.pc = "persist"
  /\ IF row.life = scan.dec.life THEN PersistsStop(scan.dec)
     ELSE UNCHANGED << row, latest >>
  /\ scan' = ScanIdle
  /\ UNCHANGED << active, last, taken, ms, add, adds, final >>

\* Mutant: a milestone of which the claim is not finished may be claimed again.
claimable_again(m) == m.status # "SUBMITTED"

\* claim_milestone without allow_retry: only a milestone nobody has claimed.
claimable(m) == m.status = "none"

\* The proposal stage of _evaluate_winner_expansion: the decision is shown to
\* the operator and the milestone claimed; the stop is not persisted yet.
ProposeAdd(a) ==
  /\ scan.pc = "idle" /\ add[a].state = "none"
  /\ active # 0 /\ row.life = active /\ row.stop # 0
  /\ \E k \in Keys, d \in Decisions(active, row.mode, row.stop) :
       /\ d.mode = "TREND_PYRAMID" /\ claimable(ms[<< active, k >>])
       /\ ms' = [ms EXCEPT ![<< active, k >>] = [status |-> "PROPOSED", by |-> a]]
       /\ add' = [add EXCEPT ![a] = [state |-> "waiting", life |-> active,
                                     key |-> k, floor |-> d.stop]]
  /\ UNCHANGED << active, last, row, latest, taken, adds, scan, final >>

(***************************************************************************)
(* The listener: final revalidation and execution of an approved ADD.      *)
(***************************************************************************)
MilestoneOf(a) == ms[<< add[a].life, add[a].key >>]

\* transition_milestone, for the milestone of a proposal.
MoveMilestone(a, status) ==
  ms' = [ms EXCEPT ![<< add[a].life, add[a].key >>] = [@ EXCEPT !.status = status]]

\* Mutant: the stop shown to the operator is forgotten.
keeps_floor_unchecked(a, d) == TRUE

keeps_floor(a, d) == d.stop >= add[a].floor

\* Anything that raises ends the attempt as blocked; the milestone stays.
Blocked(a) ==
  /\ add' = [add EXCEPT ![a].state = "done"]
  /\ final' = FinalIdle

FinalEvaluate(a) ==
  /\ final.pc = "idle" /\ add[a].state = "waiting"
  /\ \/ /\ row.life = add[a].life /\ row.stop # 0
        /\ MilestoneOf(a).by = a /\ MilestoneOf(a).status \in { "PROPOSED", "APPROVED" }
        /\ \E d \in Decisions(add[a].life, row.mode, row.stop) :
             /\ d.mode = "TREND_PYRAMID" /\ keeps_floor(a, d)
             /\ final' = [pc |-> "persist", add |-> a, dec |-> d]
        /\ UNCHANGED add
     \/ Blocked(a)
  /\ UNCHANGED << active, last, row, latest, taken, ms, adds, scan >>

\* The mode that persist_authoritative_stop keeps is not looked at.
FinalPersist ==
  /\ final.pc = "persist"
  /\ IF row.life = final.dec.life
       THEN /\ PersistsStop(final.dec)
            /\ final' = [final EXCEPT !.pc = "approve"] /\ UNCHANGED add
       ELSE Blocked(final.add) /\ UNCHANGED << row, latest >>
  /\ UNCHANGED << active, last, taken, ms, adds, scan >>

\* transition_milestone: APPROVED can only follow PROPOSED.
FinalApprove ==
  /\ final.pc = "approve"
  /\ IF MilestoneOf(final.add).status = "PROPOSED"
       THEN /\ MoveMilestone(final.add, "APPROVED")
            /\ final' = [final EXCEPT !.pc = "create"] /\ UNCHANGED add
       ELSE Blocked(final.add) /\ UNCHANGED ms
  /\ UNCHANGED << active, last, row, latest, taken, adds, scan >>

\* create_intent, with the milestone checked in its transaction; or the
\* executor refuses for another reason.
CreateAdd ==
  /\ final.pc = "create"
  /\ \/ /\ MilestoneOf(final.add).status = "APPROVED" /\ MilestoneOf(final.add).by = final.add
        /\ adds' = adds \cup { << final.add, add[final.add].life, add[final.add].key >> }
     \/ UNCHANGED adds
  /\ final' = [final EXCEPT !.pc = "finish"]
  /\ UNCHANGED << active, last, row, latest, taken, ms, add, scan >>

\* The milestone follows the result of the execution.
FinishAdd ==
  /\ final.pc = "finish"
  /\ LET a == final.add
         submitted == \E e \in adds : e[1] = a
     IN /\ IF MilestoneOf(a).status = "APPROVED"
             THEN MoveMilestone(a, IF submitted THEN "SUBMITTED" ELSE "REJECTED")
             ELSE UNCHANGED ms
        /\ Blocked(a)
  /\ UNCHANGED << active, last, row, latest, taken, adds, scan >>

\* The process ends; the approval is settled by the next one (WorkflowRecovery).
ListenerCrash ==
  /\ final.pc # "idle" /\ Blocked(final.add)
  /\ UNCHANGED << active, last, row, latest, taken, ms, adds, scan >>

ScannerCrash ==
  /\ scan.pc # "idle" /\ scan' = ScanIdle
  /\ UNCHANGED << active, last, row, latest, taken, ms, add, adds, final >>

Next ==
  \/ OpenLife \/ CloseLife \/ TakeProfitFill
  \/ Classify \/ ReadPrevious \/ UpsertRow \/ EvaluateTrend \/ PersistTrend
  \/ FinalPersist \/ FinalApprove \/ CreateAdd \/ FinishAdd
  \/ ListenerCrash \/ ScannerCrash
  \/ \E a \in Adds : ProposeAdd(a) \/ FinalEvaluate(a)

Spec == Init /\ [][Next]_vars

(***************************************************************************)
(* Properties                                                              *)
(***************************************************************************)
SameLife == row.life \in Lives /\ row'.life = row.life

\* Whichever process writes last, and however old the row was that it decided
\* on, the protective stop of a lifecycle never moves down.
StopNeverLoosened == [][SameLife => row'.stop >= row.stop]_vars

\* Two processes that decide at the same time still move the stored mode along
\* ALLOWED_TRANSITIONS: EXIT_REQUIRED stays, and a position leaves protection
\* through STANDARD_SCALE_OUT.
ModeFollowsTransitions ==
  [][SameLife /\ row.mode # "none" => row'.mode \in ALLOWED_TRANSITIONS[row.mode]]_vars

\* One milestone gives one ADD, whatever is proposed, approved or interrupted.
AddOncePerMilestone ==
  \A e, f \in adds : << e[2], e[3] >> = << f[2], f[3] >> => e = f

\* An ADD is never out in the market with less protection in the store than the
\* operator was shown, as long as its lifecycle lasts.
AddKeepsItsFloor ==
  \A e \in adds : e[2] = active => row.life = active /\ row.stop >= add[e[1]].floor

\* A level counts as taken only in the lifecycle that sold it.
HitIsEarned == row.hit /\ row.life \in Lives => row.life \in taken

\* README.md: "EXIT_REQUIRED has no ADD authority".
NoAddUnderExitRequired ==
  [][\A e \in adds' \ adds : row.life = e[2] => row.mode # "EXIT_REQUIRED"]_vars

\* tests/test_position_management.py: test_trailing_stop_only_moves_upward.
TrailingStopOnlyMovesUpward == [][SameLife => row'.trail >= row.trail]_vars
=============================================================================
