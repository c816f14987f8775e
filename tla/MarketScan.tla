----------------------------- MODULE MarketScan -----------------------------
(***************************************************************************)
(* The scheduled cycle of the trading service (app/service.py) beside the  *)
(* Telegram listener: what a scan decides from one read of the broker,     *)
(* which proposals it makes, by which surface each can be answered, the    *)
(* durable exit blocker (app/exit_blocker.py) that holds entries back, and *)
(* the last revalidation before an order.  Prices, scores and sizes are    *)
(* free choices; a holding is at most MaxHeld units.                       *)
(***************************************************************************)
EXTENDS Naturals, FiniteSets, FiniteSetsExt

CONSTANTS
  Symbols,
  MaxProposals,  \* bounds the proposals of a behaviour
  MaxHeld,
  MaxFaults,     \* bounds exceptions of Telegram, groups and broker reads
  Modes,         \* the approval modes considered
  Portfolios     \* what may be held at first

ASSUME BoundsAssumption ==
  MaxProposals \in Nat /\ MaxHeld \in Nat \ {0} /\ MaxFaults \in Nat
ASSUME SymbolsAssumption == Symbols # {}
ASSUME PortfoliosAssumption == Portfolios \subseteq [Symbols -> 0..MaxHeld]
ASSUME ModesAssumption == Modes \subseteq { "single", "batch", "autonomous" }

Ids == 1..MaxProposals
Actors == { "scanner", "listener" }

VARIABLES
  mode,       \* ranked batches, single messages, or autonomous paper
  rotation,   \* the rotation feature is enabled
  held,       \* units of each symbol at the broker
  proposals,  \* trade_proposals with the order of each
  blocker,    \* the symbols with an active row in exit_blocker_states
  scan,       \* locals of the running cycle
  exec,       \* proposal an actor is executing, and how far it is
  older,      \* history: the exits that were there when an actor created the
              \* intent of a buy: its active sell intents, and whether a blocker
              \* row was active then and some row has been ever since
  faults

vars == << mode, rotation, held, proposals, blocker, scan, exec, older, faults >>

blockers == << blocker, older >>

Decisions == { "hold", "enter", "exit", "reduce", "emergency", "unpriced" }
Exits == { "exit", "reduce", "emergency", "unpriced" }

Proposal ==
  [ sym : Symbols, side : { "buy", "sell" }, urgent : BOOLEAN, qty : 0..MaxHeld,
    status : { "none", "pending", "approved", "submitted", "filled", "blocked",
               "closed" },             \* rejected, expired or superseded
    surface : { "none", "message", "batch", "group", "self" },
    due : BOOLEAN,                 \* past expires_at
    order : { "none", "reserved", "live", "done" },  \* reserved: intent, not sent
    left : 0..MaxHeld ]

NoProposal ==
  [ sym |-> CHOOSE s \in Symbols : TRUE, side |-> "buy", urgent |-> FALSE, qty |-> 0,
    status |-> "none", surface |-> "none", due |-> FALSE, order |-> "none", left |-> 0 ]

Idle ==
  [ pc |-> "idle", sleeping |-> FALSE, held |-> [s \in Symbols |-> 0],
    ordered |-> {}, does |-> [s \in Symbols |-> "hold"],
    blocked |-> FALSE, rotates |-> FALSE, batch |-> {}, group |-> {} ]

NoExec == [id |-> 0, step |-> "none"]
NoneOlder == [sells |-> {}, row |-> FALSE]
Steps == { "none", "check", "capture", "create", "verify", "submit" }

TypeOK ==
  /\ mode \in Modes /\ rotation \in BOOLEAN
  /\ held \in [Symbols -> 0..MaxHeld]
  /\ proposals \in [Ids -> Proposal]
  /\ blocker \in SUBSET Symbols
  /\ scan \in
       [ pc : { "idle", "expire", "read", "decide", "gate", "offer", "group",
                "batch", "digest" },
         sleeping : BOOLEAN, held : [Symbols -> 0..MaxHeld], ordered : SUBSET Symbols,
         does : [Symbols -> Decisions],
         blocked : BOOLEAN, rotates : BOOLEAN, batch : SUBSET Ids, group : SUBSET Ids ]
  /\ exec \in [Actors -> [id : 0..MaxProposals, step : Steps]]
  /\ older \in [Actors -> [sells : SUBSET Ids, row : BOOLEAN]]
  /\ faults \in 0..MaxFaults

Init ==
  /\ mode \in Modes /\ rotation \in BOOLEAN
  /\ held \in Portfolios
  /\ proposals = [i \in Ids |-> NoProposal]
  /\ blocker = {}
  /\ scan = Idle
  /\ exec = [a \in Actors |-> NoExec]
  /\ older = [a \in Actors |-> NoneOlder]
  /\ faults = 0

At(pc) == scan.pc = pc
Goto(pc) == scan' = [scan EXCEPT !.pc = pc]
Fault == faults < MaxFaults /\ faults' = faults + 1

Pending(i) == proposals[i].status = "pending"
Live(i) == proposals[i].order = "live"
Active(i) == proposals[i].order \in { "reserved", "live" }
Of(s, side) == { i \in Ids : proposals[i].sym = s /\ proposals[i].side = side }
LiveSells(s) == { i \in Of(s, "sell") : Live(i) }
active_sells == { i \in Ids : proposals[i].side = "sell" /\ Active(i) }

\* Of a row that ended nothing but its kind is asked again.
ended(q, st) == [q EXCEPT !.status = st, !.qty = 0, !.left = 0, !.surface = "none",
                          !.due = FALSE]
set_status(I, st) ==
  [i \in Ids |-> IF i \notin I THEN proposals[i]
                 ELSE IF st = "approved" THEN [proposals[i] EXCEPT !.status = st]
                 ELSE ended(proposals[i], st)]

(***************************************************************************)
(* The exit blocker                                                        *)
(***************************************************************************)
\* A broker read as lists of symbols held and of symbols with an open sell
\* order.  A read that failed counts as empty lists where the runtime state
\* supplies them, and as unknown where the digest asks.
Read == [held |-> { s \in Symbols : held[s] > 0 },
         sells |-> { s \in Symbols : LiveSells(s) # {} }]
EmptyRead == [held |-> {}, sells |-> {}]

order_sources(r) == r.sells

intent_sources == { proposals[i].sym : i \in active_sells }

\* Pending or approved, unexpired, not yet ordered to the end, still held.
proposal_sources(r) ==
  { s \in r.held : \E i \in Of(s, "sell") :
      proposals[i].status \in { "pending", "approved" } /\ ~ proposals[i].due
      /\ proposals[i].order # "done" }

\* Exits decided by this very scan, for what is still held.
decision_sources(r, exits) == exits \cap r.held

\* The symbols of the first class of sources that has any.
sources(r, exits) ==
  IF order_sources(r) # {} THEN order_sources(r)
  ELSE IF intent_sources # {} THEN intent_sources
  ELSE IF proposal_sources(r) # {} THEN proposal_sources(r)
  ELSE decision_sources(r, exits)

blocks(r, exits) == sources(r, exits) # {}

\* Mutant: only the blockers of the symbols the read mentions are cleared.
clear_absent_observed(r) == blocker \ r.held

clear_absent(r) == {}

\* _exit_blocker_context: a source found becomes the one active row of its
\* symbol; without any, every active row is cleared.
observe(r, exits) ==
  \/ /\ \E s \in sources(r, exits) : blocker' = blocker \cup { s }
     /\ UNCHANGED older
  \/ /\ ~ blocks(r, exits)
     /\ blocker' = clear_absent(r)
     /\ older' = [a \in Actors |-> [older[a] EXCEPT !.row = FALSE]]

\* _portfolio_context reads through _authoritative_runtime_state, which
\* answers an exception of the broker with empty lists.
read_for_portfolio(r) ==
  \/ r = Read /\ UNCHANGED faults
  \/ r = EmptyRead /\ Fault

(***************************************************************************)
(* A cycle                                                                 *)
(***************************************************************************)
\* Reconciliation comes first.  A filled order makes its proposal filled; a
\* cancelled one leaves it.
StartCycle ==
  /\ At("idle") /\ exec["scanner"] = NoExec
  /\ proposals' = set_status({ i \in Ids : /\ proposals[i].status \in { "approved", "submitted" }
                                           /\ proposals[i].order = "done"
                                           /\ proposals[i].left = 0 }, "filled")
  /\ Goto("expire")
  /\ UNCHANGED << mode, rotation, held, blockers, exec, faults >>

due(i) == Pending(i) /\ proposals[i].due

\* expire_proposals; with the kill switch active the scan is left out.
Expire ==
  /\ At("expire")
  /\ proposals' = set_status({ i \in Ids : due(i) }, "closed")
  /\ \E killed \in BOOLEAN : Goto(IF killed THEN "digest" ELSE "read")
  /\ UNCHANGED << mode, rotation, held, blockers, exec, faults >>

\* Sleep mode, positions and open orders, read once for the whole scan; an
\* exception ends the cycle.
ReadBroker ==
  /\ At("read")
  /\ \/ /\ \E asleep \in BOOLEAN :
             scan' = [Idle EXCEPT !.pc = "decide", !.sleeping = asleep, !.held = held,
                                  !.ordered = { s \in Symbols : \E i \in Ids :
                                                  proposals[i].sym = s /\ Live(i) }]
        /\ UNCHANGED faults
     \/ scan' = Idle /\ Fault
  /\ UNCHANGED << mode, rotation, held, proposals, blockers, exec >>

\* A signal enters only without an open order; holding, it is an addition.
may_enter(s) == s \notin scan.ordered

\* An exit, in full or in part, only for a position of this scan's read.
may_exit(s) == scan.held[s] > 0

\* One emergency of a symbol in any of these statuses holds back the next.
emergency_known(s) ==
  \E i \in Of(s, "sell") :
    /\ proposals[i].urgent
    /\ proposals[i].status \in { "pending", "approved", "submitted", "filled", "blocked" }

decisions(s) ==
  { "hold" }
    \cup (IF may_enter(s) THEN { "enter" } ELSE {})
    \cup (IF may_exit(s) THEN { "exit", "reduce" } ELSE {})
    \cup (IF may_exit(s) /\ ~ emergency_known(s) THEN { "emergency", "unpriced" } ELSE {})

side_of(d) == IF d = "enter" THEN "buy" ELSE "sell"

\* Mutant: only what was already submitted counts as a duplicate.
deduped_by_orders(s) ==
  \E i \in Of(s, "buy") : proposals[i].status \in { "approved", "submitted" } /\ ~ proposals[i].due

\* An entry yields to a pending one and to one approved or submitted minutes
\* ago; exits and emergencies pass.  (A setup may cool down as well: PassOver.)
deduped(s) ==
  \E i \in Of(s, "buy") :
    \/ Pending(i)
    \/ proposals[i].status \in { "approved", "submitted" } /\ ~ proposals[i].due

\* All symbols are decided from the read, then the blocker is evaluated with
\* the scan's own exits, then duplicates are looked up.
Decide ==
  /\ At("decide")
  /\ \E does \in [Symbols -> Decisions] :
       LET exits == { s \in Symbols : does[s] \in Exits }
           r == [held |-> { s \in Symbols : scan.held[s] > 0 },
                 sells |-> { s \in scan.ordered : LiveSells(s) # {} }]
       IN /\ \A s \in Symbols : does[s] \in decisions(s)
          /\ observe(r, exits)
          /\ scan' = [scan EXCEPT
               !.pc = "gate", !.ordered = {}, !.blocked = blocks(r, exits),
               !.held = [s \in Symbols |-> IF s \in exits THEN @[s] ELSE 0],
               !.does = [s \in Symbols |->
                           IF does[s] = "enter" /\ deduped(s) THEN "hold" ELSE does[s]]]
  /\ UNCHANGED << mode, rotation, held, proposals, exec, faults >>

candidates == { s \in Symbols : scan.does[s] = "enter" }

\* What the loop lets through: sleep mode and the blocker stop entries.
allowed(s) == scan.does[s] = "enter" => ~ scan.sleeping /\ ~ scan.blocked

\* The buys worth a proposal are put through the risk engine, whose portfolio
\* context evaluates the blocker without this scan's exits; with a blocker and
\* a candidate there may be a rotation.
Gate ==
  /\ At("gate")
  /\ \E r \in { Read, EmptyRead }, passed \in BOOLEAN :
       /\ read_for_portfolio(r)
       /\ IF candidates = {} THEN UNCHANGED blockers ELSE observe(r, {})
       /\ passed => ~ blocks(r, {}) /\ r = Read
       /\ scan' = [scan EXCEPT
            !.pc = "offer", !.sleeping = FALSE, !.blocked = FALSE,
            !.does = [s \in Symbols |-> IF allowed(s) THEN @[s] ELSE "hold"],
            !.rotates = /\ rotation /\ scan.blocked /\ candidates # {}
                        /\ passed \/ mode = "batch"]
  /\ UNCHANGED << mode, rotation, held, proposals, exec >>

ahead == { s \in Symbols : scan.does[s] # "hold" }

\* Exits before entries.
next_out(s) ==
  /\ s \in ahead
  /\ scan.does[s] \in Exits \/ \A t \in ahead : scan.does[t] \notin Exits

\* What the loop keeps once a symbol is dealt with.
done_with(s) == [scan EXCEPT !.does[s] = "hold", !.held[s] = 0]

\* A fresh portfolio context for the risk engine, which lets an entry through
\* only without an exit pending, and an exit only without a sell order open and
\* within what is held.  An emergency is not put to it.
risk_passes(s, n, r) ==
  CASE scan.does[s] = "enter" -> ~ blocks(r, {}) /\ r = Read
    [] scan.does[s] \in { "exit", "reduce" } -> r = Read /\ s \notin r.sells /\ n <= held[s]
    [] OTHER -> TRUE

quantity(s) ==
  CASE scan.does[s] = "enter" -> 1..(MaxHeld - held[s])
    [] scan.does[s] = "reduce" -> { 1 }
    [] OTHER -> { scan.held[s] }

\* Where the proposal will be answered.
surface_of(i, q) ==
  IF q.status # "pending" THEN "message"
  ELSE IF scan.rotates /\ q.side = "sell" /\ ~ q.urgent THEN "group"
  ELSE IF mode = "autonomous" THEN "self"
  ELSE IF mode = "batch" /\ ~ q.urgent THEN "batch"
  ELSE "message"

\* The proposal is inserted and handed to its surface: the rotation group, the
\* system itself, the batch, or a message of its own.  Group and batch go out
\* after all symbols; an exception of Telegram ends the scan.
Dispatch(i, q, s) ==
  LET surface == surface_of(i, q)
      kept == [done_with(s) EXCEPT
                 !.group = IF surface = "group" THEN @ \cup { i } ELSE @,
                 !.batch = IF surface = "batch" THEN @ \cup { i } ELSE @]
      shown == IF surface \in { "group", "batch" } THEN "none" ELSE surface
  IN \/ /\ proposals' = [proposals EXCEPT ![i] = [q EXCEPT !.surface = shown]]
        /\ scan' = kept
        /\ exec' = IF surface = "self"
                     THEN [exec EXCEPT !["scanner"] = [id |-> i, step |-> "check"]] ELSE exec
        /\ UNCHANGED faults
     \/ /\ surface = "message"
        /\ Fault
        /\ proposals' = [proposals EXCEPT ![i] = q]
        /\ scan' = Idle
        /\ UNCHANGED exec

\* One symbol of the loop: left out, for any of the reasons that are free here
\* (score, price, quote, budget, profitability) or those that are not; or made
\* into a proposal.
PassOver(s) ==
  /\ At("offer") /\ next_out(s) /\ exec["scanner"] = NoExec
  /\ scan' = done_with(s)
  /\ \E r \in { Read, EmptyRead } :
       /\ read_for_portfolio(r)
       /\ observe(r, {}) \/ UNCHANGED blockers
  /\ UNCHANGED << mode, rotation, held, proposals, exec >>

Offer(s, i) ==
  /\ At("offer") /\ next_out(s) /\ exec["scanner"] = NoExec
  /\ proposals[i].status = "none" /\ \A j \in 1..(i - 1) : proposals[j].status # "none"
  /\ \E n \in quantity(s) :
       /\ risk_passes(s, n, Read)
       /\ observe(Read, {})
       /\ Dispatch(i, [NoProposal EXCEPT !.sym = s, !.side = side_of(scan.does[s]), !.qty = n,
            !.urgent = scan.does[s] \in { "emergency", "unpriced" },
            !.status = IF scan.does[s] = "unpriced" THEN "blocked" ELSE "pending"], s)
  /\ UNCHANGED << mode, rotation, held >>

shown_as(I, surface) == [i \in Ids |-> IF i \in I THEN [proposals[i] EXCEPT !.surface = surface]
                                       ELSE proposals[i]]

\* Mutant: a rotation that could not be made shows nothing.
fallback_silent(I) == proposals

\* The operator still gets each exit, by a message of its own; the autonomous
\* mode leaves them to a later cycle.
fallback(I) == IF mode = "autonomous" THEN proposals ELSE shown_as(I, "message")

\* The group of the rotation's exits and their contingent entries, which the
\* coordinator may refuse to make.
SendGroup ==
  /\ At("offer") /\ ahead = {} /\ exec["scanner"] = NoExec
  /\ scan' = [scan EXCEPT !.pc = "batch", !.group = {}, !.rotates = FALSE]
  /\ IF scan.group = {} THEN UNCHANGED proposals
     ELSE \/ proposals' = shown_as(scan.group, "group")
          \/ proposals' = fallback(scan.group)
  /\ UNCHANGED << mode, rotation, held, blockers, exec, faults >>

\* The ranked batch, one message for all its proposals.
SendBatch ==
  /\ At("batch")
  /\ \/ /\ proposals' = shown_as(scan.batch, "batch")
        /\ scan' = [scan EXCEPT !.pc = "digest", !.batch = {}]
        /\ UNCHANGED faults
     \/ /\ scan.batch # {}
        /\ Fault
        /\ scan' = Idle
        /\ UNCHANGED proposals
  /\ UNCHANGED << mode, rotation, held, blockers, exec >>

\* The digest evaluates the blocker again, and keeps it when it cannot read
\* the broker.
Digest ==
  /\ At("digest")
  /\ \/ observe(Read, {}) /\ UNCHANGED faults
     \/ UNCHANGED blockers /\ Fault
  /\ scan' = Idle
  /\ UNCHANGED << mode, rotation, held, proposals, exec >>

(***************************************************************************)
(* Answers and executions                                                  *)
(***************************************************************************)
answerable(i) == proposals[i].surface \in { "message", "batch", "group" }

\* YES or NO by the listener; a late answer finds the proposal expired.
Answer(i) ==
  /\ Pending(i) /\ answerable(i) /\ exec["listener"] = NoExec
  /\ IF proposals[i].due THEN proposals' = set_status({ i }, "closed") /\ UNCHANGED exec
     ELSE \/ proposals' = set_status({ i }, "closed") /\ UNCHANGED exec
          \/ /\ proposals' = set_status({ i }, "approved")
             /\ exec' = [exec EXCEPT !["listener"] = [id |-> i, step |-> "check"]]
  /\ UNCHANGED << mode, rotation, held, blockers, scan, faults >>

\* The proposal in the hands of an actor is refused, and so is its intent.
Refuse(a) ==
  LET i == exec[a].id IN
  /\ proposals' = [set_status({ i }, "blocked") EXCEPT
                     ![i].order = IF @ = "reserved" THEN "done" ELSE @]
  /\ exec' = [exec EXCEPT ![a] = NoExec]

step_to(a, st) == exec' = [exec EXCEPT ![a].step = st]

unexpired(q) == ~ q.due

\* Something is held, enough for the order, and no sell order is open.
sell_holds(q) ==
  q.side = "sell" => held[q.sym] > 0 /\ q.qty <= held[q.sym] /\ LiveSells(q.sym) = {}

\* The risk engine refuses an entry while the blocker is active.
capacity_holds(q, r) == r = Read /\ (q.side = "buy" => ~ blocks(r, {}))

\* _execute_final_revalidation up to the executor.  Paper mode, kill switch,
\* policy, market hours, quote, price, stop and size are free refusals.
FinalCheck(a) ==
  /\ exec[a].step = "check"
  /\ LET q == proposals[exec[a].id] IN
     \E r \in { Read, EmptyRead } :
       /\ read_for_portfolio(r)
       /\ \/ Refuse(a) /\ (observe(r, {}) \/ UNCHANGED blockers)
          \/ /\ unexpired(q) /\ sell_holds(q) /\ capacity_holds(q, r)
             /\ observe(r, {})
             /\ step_to(a, "capture")
             /\ UNCHANGED proposals
  /\ UNCHANGED << mode, rotation, held, scan >>

(***************************************************************************)
(* Executor.execute: a snapshot of the risk, the intent, the snapshot      *)
(* again, the marker and the request.  Any of them may refuse.             *)
(***************************************************************************)

\* Mutants: what was read at first is taken to hold still; the exits are not
\* looked at.
verified_context_unread(i) == TRUE
verified_context_sells_only(i) ==
  /\ \A j \in Of(proposals[i].sym, proposals[i].side) \ { i } : ~ Active(j)
  /\ proposals[i].side = "sell" => proposals[i].qty <= held[proposals[i].sym]

\* What the captured snapshot must show: no other order of the symbol and
\* side, holdings for a sale, and for an entry no active blocker row and no
\* active sell intent.  Proposals are not read, nor is the blocker evaluated.
verified_context(i) ==
  /\ \A j \in Of(proposals[i].sym, proposals[i].side) \ { i } : ~ Active(j)
  /\ IF proposals[i].side = "sell" THEN proposals[i].qty <= held[proposals[i].sym]
     ELSE blocker = {} /\ active_sells = {}

Capture(a) ==
  /\ exec[a].step = "capture"
  /\ \/ Refuse(a)
     \/ verified_context(exec[a].id) /\ step_to(a, "create") /\ UNCHANGED proposals
  /\ UNCHANGED << mode, rotation, held, blockers, scan, faults >>

\* create_intent: one active order of a symbol and side.
slot_is_free(q) == \A j \in Of(q.sym, q.side) : ~ Active(j)

CreateIntent(a) ==
  /\ exec[a].step = "create"
  /\ LET i == exec[a].id
         q == proposals[i]
     IN \/ Refuse(a) /\ UNCHANGED older
        \/ /\ slot_is_free(q)
           /\ proposals' = [proposals EXCEPT ![i] = [q EXCEPT !.order = "reserved", !.left = q.qty]]
           /\ step_to(a, "verify")
           /\ older' = [older EXCEPT ![a] =
                          IF q.side = "buy" THEN [sells |-> active_sells, row |-> blocker # {}]
                          ELSE @]
  /\ UNCHANGED << mode, rotation, held, blocker, scan, faults >>

\* The snapshot is captured again around the intent, which does not stand in
\* its own way.
VerifyBeforeBroker(a) ==
  /\ exec[a].step = "verify"
  /\ \/ Refuse(a) /\ older' = [older EXCEPT ![a] = NoneOlder]
     \/ /\ verified_context(exec[a].id) /\ step_to(a, "submit")
        /\ UNCHANGED << proposals, older >>
  /\ UNCHANGED << mode, rotation, held, blocker, scan, faults >>

\* Other pending buys of the symbol give way to the one submitted.
superseded_by(i) == { j \in Of(proposals[i].sym, "buy") \ { i } : Pending(j) }

\* The marker, the request, and what the service does with the result; no
\* exit is looked at any more.
Submit(a) ==
  /\ exec[a].step = "submit"
  /\ LET i == exec[a].id
         q == proposals[i]
     IN \/ Refuse(a)
        \/ /\ proposals' =
                [j \in Ids |->
                   IF j = i THEN [q EXCEPT !.status = "submitted", !.order = "live"]
                   ELSE IF q.side = "buy" /\ j \in superseded_by(i)
                     THEN ended(proposals[j], "closed")
                   ELSE proposals[j]]
           /\ exec' = [exec EXCEPT ![a] = NoExec]
  /\ older' = [older EXCEPT ![a] = NoneOlder]
  /\ UNCHANGED << mode, rotation, held, blocker, scan, faults >>

(***************************************************************************)
(* The world                                                               *)
(***************************************************************************)
FillOne(i) ==
  /\ Live(i)
  /\ LET q == proposals[i] IN
     /\ IF q.side = "sell"
          THEN held[q.sym] > 0 /\ held' = [held EXCEPT ![q.sym] = @ - 1]
          ELSE held[q.sym] < MaxHeld /\ held' = [held EXCEPT ![q.sym] = @ + 1]
     /\ proposals' = [proposals EXCEPT ![i].left = @ - 1,
                                       ![i].order = IF q.left = 1 THEN "done" ELSE @]
  /\ UNCHANGED << mode, rotation, blockers, scan, exec, faults >>

Cancel(i) ==
  /\ Live(i)
  /\ proposals' = [proposals EXCEPT ![i].order = "done"]
  /\ UNCHANGED << mode, rotation, held, blockers, scan, exec, faults >>

\* Five to twenty minutes pass.
Age(i) ==
  /\ proposals[i].status \in { "pending", "approved", "submitted" } /\ ~ proposals[i].due
  /\ proposals' = [proposals EXCEPT ![i].due = TRUE]
  /\ UNCHANGED << mode, rotation, held, blockers, scan, exec, faults >>

Cycle ==
  \/ StartCycle
  \/ Expire
  \/ ReadBroker
  \/ Decide
  \/ Gate
  \/ \E s \in Symbols : PassOver(s) \/ \E i \in Ids : Offer(s, i)
  \/ SendGroup
  \/ SendBatch
  \/ Digest

Next ==
  \/ Cycle
  \/ \E a \in Actors :
       FinalCheck(a) \/ Capture(a) \/ CreateIntent(a) \/ VerifyBeforeBroker(a) \/ Submit(a)
  \/ \E i \in Ids : Answer(i) \/ FillOne(i) \/ Cancel(i) \/ Age(i)

Spec == Init /\ [][Next]_vars

(***************************************************************************)
(* Properties                                                              *)
(***************************************************************************)

\* The open sell orders of a symbol never add up to more than is held, however
\* the approvals of two proposals for one holding, made minutes apart and
\* executed by two processes, overlap fills and each other.
SellsWithinHoldings ==
  \A s \in Symbols : MapThenSumSet(LAMBDA i : proposals[i].left, LiveSells(s)) <= held[s]

\* When a cycle is over, every proposal that waits can be answered: a rotation
\* that fails must not leave an exit pending that nobody was asked about.  (An
\* exception of Telegram does, and so does an autonomous rotation.)
PendingIsAnswerable ==
  At("idle") /\ faults = 0 /\ mode # "autonomous" =>
    \A i \in Ids : Pending(i) => answerable(i)

\* At most one entry of a symbol waits for an answer at a time.
OnePendingBuy ==
  \A s \in Symbols : Cardinality({ i \in Of(s, "buy") : Pending(i) }) <= 1

\* An exit that was first goes first: no buy order leaves while a sell intent
\* that was active before the intent of the buy still is, or when the blocker
\* has had an active row ever since then.  The other process may have created
\* either after the risk of the buy was captured, so only the second capture,
\* around the intent, keeps this.  (An exit that comes up later than that, and
\* one that is only proposed, do not hold the buy back.)
BuyYieldsToOlderExit ==
  [][\A a \in Actors :
       exec[a].step = "submit" /\ proposals[exec[a].id].side = "buy"
         /\ proposals'[exec[a].id].order = "live"
       => ~ older[a].row /\ older[a].sells \cap active_sells = {}]_vars

\* A durable blocker does not outlive the exits that justified it: a cycle that
\* can read the broker ends without any, unless an exit is still under way.
BlockerClears ==
  [][At("digest") /\ scan' = Idle /\ faults' = faults =>
       \/ blocker' = {}
       \/ intent_sources # {} \/ proposal_sources(Read) # {}]_vars

=============================================================================
