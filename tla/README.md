# A verification development for the paper-trading agent

This directory holds TLA+ specifications of the trading agent in this
repository, the TLC configurations that check them on small instances, and
proofs checked by TLAPS.  The code is a supervised paper trader: it scans a
watchlist, builds trade proposals, has them approved (by an operator through
Telegram, or by a deterministic paper authority), sends bounded orders to an
Alpaca paper account and keeps everything it did in one SQLite database.

The core is the part where a mistake costs most: what happens between an
accepted approval and a settled order, when several processes, lost answers and
crashes come together.  Around it stand the other places where two processes
share rows: the run lock, the Telegram inbox, rotation groups, the management of
held positions, the books, the scan, the crypto lane, and the capacity of the
account.  Most of the safety properties that the runs check on small instances
are also proved, for every instance.

## 1. Inventory

Two kinds of operating-system process work on one SQLite database
(`app/storage.py`, `BEGIN IMMEDIATE` transactions):

* the **scanner** (`scripts/run_once.sh`, started by launchd every 10 minutes)
  runs one cycle of `TradingService`: health checks, reconciliation, position
  management, scan, proposals, autonomous approvals;
* the **listener** (`scripts/run_telegram_listener.sh`, kept alive by launchd)
  polls Telegram, processes approvals and commands, executes what was approved.

Each has its own lock directory, so one scanner and one listener may run at
once.  Both recover unfinished workflows when `TradingService` is constructed
(`service.py:299`); the listener does so again at every poll (`service.py:4632`).

| component | state | operations | what makes it correct |
|---|---|---|---|
| order state machine (`order_state.py`) | none | transition table, classes of states, reading of broker statuses | every state a broker report can lead to is reachable from every state an order can be seen in |
| durable execution store (`execution.py`) | `order_intents`, `risk_reservations`, `broker_fill_evidence`, `broker_fill_events` | create_or_get_intent, transition, record_fill | reservation and intent move together; fills are booked once, cumulatively, never back; one active intent per symbol and side; exposure ceilings |
| executor (`execution.py`) | `risk_snapshots`, the intent's invocation marker | execute: authority, validation, intent, submission, binding, marker, adapter call, answer | at most one request per approved action; a request is never unaccounted for |
| approval workflow (`approval_workflow.py`) | `approval_workflows`, claims with a 30 s lease | accept, transition, claim, recover | a workflow is closed only when its intent is; nobody resubmits an ambiguous order |
| reconciliation (`reconciliation.py`) | `not_found_count`, state of intents, proposals | one pass over broker-relevant intents, lookup only | an unknown order is settled by evidence, never released early, never resubmitted |
| approvals (`approval_authority.py`, `approval_display.py`, `autonomous_authority.py`, `storage.consume_approval`) | `approvals`, `trade_proposals.status`, displayed terms | record display, accept, consume once | only displayed terms execute, once |
| Telegram inbox (`storage.py`, `service.py`, `telegram_bot.py`, `approval_parser.py`) | `telegram_updates`, offset, control state | ingest, complete, mark failed | an update takes effect once, however often it is delivered |
| process locks (`run_lock.py`, two scripts) | lock directory and owner files | acquire, inspect, recover stale, clean up | one owner at a time |
| rotation coordinator (`rotation_coordinator.py`) | groups, steps, contingent entries | approve, exit leg, reconcile, revalidate, entry leg, expire | no entry before its exit is filled and reconciled; one approval for the group |
| position lifecycle, lots, fixed point (`position_lifecycle.py`, `lot_ledger.py`, `fixed_point_accounting.py`) | lifecycles, FIFO lots, realised P&L | reconcile, apply fill, adjust | quantities are conserved, one open lifecycle per symbol |
| milestones (`profit_milestones.py`, `winner_expansion.py`) | milestone claims | bind, fill, terminal, claim | a milestone is earned by fills and only once |
| exit blocker (`exit_blocker.py`) | blocker rows | observe, clear | entries yield to an exit under way; a blocker goes away with its exit |
| crypto paper lane (`crypto_paper_lane.py`) | its own proposals, intents, reservations, lots | approve, create, execute, reconcile, cancel, fill | as for the equity path, in its own tables |
| dynamic universe (`dynamic_universe.py`) | tiers, schedules | promote, demote, schedule and catch-up | a tier is entered in order and left when stale |
| risk and sizing (`risk_engine.py`, `risk_snapshot.py`, `execution_risk_snapshot.py`, `canonical_sizing.py`, `phase3_risk.py`, ...) | snapshots | build, verify | ceilings; numbers mostly |
| strategy policy, allocation, economics, research | append-only evidence | compute, persist, load verified | numbers mostly |
| configuration, preflight, quotes, reports, release scripts | configuration, files | start-up checks, I/O | outside the state the models keep |

How they meet: the live path (`process_telegram`, `_approve_batch_candidate`,
the rotation path) accepts and consumes an approval, revalidates, calls
`Executor.execute` and settles the workflow and the proposal from its result.
`recover` resumes the same rows from another process through the callbacks of
`TradingService._recover_local_workflows`, one of which is `Executor.execute`
and another of which is a reconciliation pass.  A scheduled cycle runs the same
pass.  All three share only the database and the broker.

What is hard: the live path holds no claim, so a recoverer can resume what is
still running; every statement between two transactions is a place where the
other process, a crash or the broker can step in; decisions are taken from rows
read earlier; a request can outlive the call that sent it; the broker changes
an order without telling anyone.  `PROJECT.json` lists these hazards at the
lines where they bite, with the properties that cover them.

## 2. Modules

| module | models | built on |
|---|---|---|
| `LogicalActions` | approved actions, their quantity and slot | |
| `OrderState` | `app/order_state.py` | |
| `WorkflowState` | states and moves of `app/approval_workflow.py` | |
| `ExecutionStore` | tables and transactions of `DurableExecutionStore`, `ApprovalWorkflowStore`, `consume_approval` | the three above |
| `PaperBroker` | the Alpaca account as the code uses it (external) | `LogicalActions`, `OrderState` |
| `Executor` | the live caller and `Executor.execute`, statement by statement | `ExecutionStore`, `PaperBroker` |
| `Reconciliation` | `BrokerReconciler.reconcile` | `Executor` |
| `WorkflowRecovery` | `ApprovalWorkflowStore.recover` with its callbacks | `Reconciliation` |
| `OrderExecution` | the composition, crashes, fairness, properties | `WorkflowRecovery` |
| `OrderPromise` | the abstract promise about one approved action, which `OrderExecution` instantiates with a refinement mapping | |
| `RunLock` | the two launch scripts and `app/run_lock.py` | |
| `TelegramInbox` | `process_telegram`: poll, receipt, claim, commands, completion, cursor, expiry of proposals and batches | |
| `LotLedger` | the FIFO lots of `app/lot_ledger.py`, as operators | |
| `PositionBook` | `app/position_lifecycle.py`, `app/profit_milestones.py` beside what the broker holds | `LotLedger` |
| `HeldPosition` | modes, stops, milestones and ADDs of one held position, by scanner and listener (`position_management.py`, `winner_expansion.py`, `service.py`) | |
| `Rotation` | `app/rotation_coordinator.py` with its two callers | |
| `CryptoLane` | `app/crypto_paper_lane.py` | |
| `MarketScan` | the order of a scheduled cycle, exits, proposals and their display, approvals, `app/exit_blocker.py` | |
| `StrategyEvidence` | observations, metrics, validation, states and registry of strategies | |
| `Allocation` | `app/strategy_allocation.py`: weights, sleeves, ranked budget | `StrategyEvidence` |
| `Sizing` | every ceiling of a size, canonical terms | `Allocation` |
| `Conviction` | adaptive score, deployment mode, adaptive size | `Sizing` |
| `RiskControls` | the risk engine, the captured portfolio, the reservation transaction | `Conviction` |
| `TradeEconomics` | payoffs, costs, gates of profitability, ranking | `Sizing` |
| `Capacity` | the composition: scanner and two approvals over one account | `RiskControls`, `TradeEconomics` |
| `SetTheorems` | facts about sums and extrema over finite sets | |
| `...Proofs` | the theorems about `OrderExecution`, `RunLock`, `TelegramInbox`, `HeldPosition`, `MarketScan`, `CryptoLane`, `Rotation` | the module they are about |
| `MC...` | instances for TLC | the module of that name |

**State.**  Each variable carries the name of its table or column in a comment.
Tables survive a crash.  A process is a record: `pc` names the next statement,
the other fields are the Python locals that later statements still use (a row as
it was read, an answer, what is left of a list).  They are reset as soon as the
code can no longer use them, and a crash loses them.

**One action** is one database transaction or one call to the broker or to
Telegram, with the branch that the code takes on its result.  Where the code
raises and who catches it is kept.

**Free choices.**  Quotes, displayed terms and market evidence are decisions over
data; outside `Capacity` and the modules it is built on they appear as an action
that may refuse.  Refusing is always possible; going on needs every guard on the
modelled state.

**The order core.**  A member of `Actions` is a proposal with its approval, its
workflow and its intent.  The client order id is derived from them, so the broker
takes a second request for the same action for a duplicate.  A request travels,
arrives, is accepted or rejected, or vanishes.  It fills in parts, is cancelled
from outside or expires, and says nothing unless asked.  `LookupsOvertake` says
whether a lookup may answer "not found" while the request is still on its way.
`recover` catches three exception types only; what escapes ends the call and
leaves the claim to lapse.

**The run lock.**  `lock` is the directory and what is in it: the owner's pid (a
starter, a dead process, an unrelated process with the same pid, or none),
whether the start time is recorded, whether the grace period has passed, and
whether a failed `mv` back has nested a directory inside.  `aside[s]` is the
recovery directory of starter `s`.  The scripts differ in the command that is
expected of an owner, and in that the listener ends in `exec`, which discards
the trap, so every end of it leaves its lock behind.  `Lose` is a kill, a power
loss or a failing command.

**The inbox.**  An update is a number with a command.  `confirmed` is the offset
that Telegram was last given, `inbox` the durable row of each update; a poll
works through what it has fetched, and an abort anywhere leaves rows and offset
as they are.

**Positions.**  `PositionBook` has one symbol: orders with what the broker filled
and what was booked, lots, lifecycles, the take-profit of level 1, and the
snapshot that the reconciler has in hand.  Fills are booked in any order; outside
trades change what the broker holds.  `seen` and `clean` belong to the property
`BooksFollowBroker`, not to the code: `clean` is given up when a snapshot is used
before the fills in it are booked, when a sell is booked against lots that are not
there, and when the operator sells shares of the store's own orders.

**The held position.**  `row` is `position_management_state`, `latest` the newest
stop of `position_stop_history`.  The scanner computes from what it read and
writes later, the listener's final revalidation reads, checks and claims beside
it.  A computed mode is limited by `ALLOWED_TRANSITIONS` of the mode it was
computed from.

**Rotation.**  Both processes advance a group; `at[a].saw` is the state of the
group that a process acts upon.  Orders are seen from outside: they are answered
or not, fill, end, and may report a fill after their end.

**The crypto lane.**  Two actors over proposals, display outbox, approvals,
intents, reservations and fills; `at[a].seen` is the report of a lookup.  A fault
is a lost answer or a rolled-back transaction.

**The scan.**  `scan` holds the locals of a running cycle, `exec` what each actor
is executing.  The cycle closes exits before it proposes entries, and the
listener answers what is pending meanwhile.  An execution takes five steps: the
final revalidation, the capture of the risk, the intent, the second capture
around it, and the marker with the request.  The other process may move between
any two.  `blocker` is the set of symbols with an active row.  The revalidation
evaluates the blocker from orders, intents and proposals; the two captures read
only the rows and the active sell intents.  `older` is a history variable, no
table: the exits that were recorded when an actor created the intent of a buy.

**Capacity.**  The scanner refreshes evidence, allocates, sizes and proposes;
two processes revalidate, reserve and send.  Quantities, prices and counts are
scaled integers, divisions round as the code rounds.

## 3. Runs

| run | instance | checks | distinct states |
|---|---|---|---|
| `OneProcess` | one process doing everything, 1 action of 2 units, 1 crash, fair | `TypeOK`, `ClosedWorkflowHasNoOpenIntent`, `KeepsPromise`, `FilledIsBooked`, `AbsentOrRejectedIsSettled` | 35,426 |
| `LiveBesideRecovery` | a live caller and a recoverer, 1 unit, 1 crash, overtaking lookups | `ReservationTracksIntent`, `AtMostOneRequest`, `MarkPrecedesRequest` | 2,065,403 |
| `TwoActions` | two approvals of one slot in two processes, one also runs cycles | `OneActivePerSlot` | 1,794,674 |
| `LockAbandoned` | two starters of either script, two losses, fair | `OneRuns`, `AbandonedIsRecovered` | 102,086 |
| `Inbox` | two proposals, one of them in a batch, two updates, one aborted poll, fair | `CursorHidesNothing`, `ProcessedIsRepresented`, `AnswerActsOnItsWorkflow`, `EveryUpdateConfirmed`, `ExpiryIsAnnounced` | 528,699 |
| `Positions` | an entry of two shares, two take-profits of one, two outside trades, two lives; four orders and trades in all | `FeesFullyAllocated`, `TakeProfitWithinTarget`, `BooksFollowBroker` | 1,081,534 |
| `HeldPosition` | three prices, two lives, two ADDs for one milestone | `AddOncePerMilestone`, `AddKeepsItsFloor`, `HitIsEarned`, `StopNeverLoosened` | 5,053,974 |
| `Rotation` | exit legs of two and one units, two units displayed, partial fills allowed, one crash, fair | `EntryWithinRelease`, `RejectedMovesNothing`, `ApprovedGroupEnds` | 814,506 |
| `CryptoLane` | two proposals of two units, one autonomous, one fault, one crash | `LiveOrderIsReserved`, `OneLiveOrder`, `BookedWithinBroker`, `EndedIntentIsBooked`, `IntegrityHolds` | 2,488,461 |
| `Scan` | two symbols, two proposals, one unit held, one fault, three approval modes | `SellsWithinHoldings`, `PendingIsAnswerable`, `OnePendingBuy`, `BuyYieldsToOlderExit`, `BlockerClears` | 2,114,159 |
| `Capacity` | two cycles, two stages of evidence, two quotes, two environments, two approvals | `ExposureWithinCeiling`, `ReservedWithinSleeve`, `SentWithinDisplayed`, `SentUnderCurrentPolicy` | 202,176 |

Most of them finish within two minutes on two workers.  Deadlock is
checked in `OneProcess`, `TwoActions`, `LockAbandoned` and `Scan`.  The others are
instances that really come to an end: every update handled, every approval
settled, every bound used up.

Each property is falsified by a plausible bug in the code it is about: a fill
taken for a delta, a marker that is not looked at, a cursor that is moved past a
failed update, a stop that is written from an older read, a release that is
estimated, and so on (`PROJECT.json`, "mutants"; a mutated definition stands
before the one it replaces).

### What the runs say

* **One process keeps the promise** (`KeepsPromise`).  `OrderPromise` knows of an
  approved action only its capital, whether a request was announced and left,
  whether something may still execute, and how much was executed and booked.
  Nothing executes without capital, and capital comes back only when nothing can
  execute any more and everything is booked.  With one process at work the whole
  of `OrderExecution` refines it; `OneProcessKeepsPromise` proves that for any
  number of actions, units and crashes.
* **Two processes send at most once**, even with a lookup that overtakes the
  request.  The reservation follows the intent, but the intent may be wrong about
  the order (next section).
* **The lock**: until the first loss no two owners run.  After it the scheduled
  starter is not kept away for ever by a lock that nobody holds.
* **The inbox**: no update is skipped by the cursor, and an answer acts on the
  proposal it was given for, not on one that became the latest meanwhile.
* **Books**: whatever the order in which fills are booked, fees are allocated in
  full, a take-profit never exceeds its target, and the open lots come to what the
  broker holds as long as the store could tell its own shares from the operator's
  (`clean`).
* **Held position**: a milestone gets one ADD per lifecycle, and the stop under
  an approved ADD does not fall below the one shown, although the scanner writes
  rows back from an older read.
* **Rotation**: the entry stays within what the exits sold.  An approved group
  ends, except one of several legs in which one leg sold and another ended
  without a fill (`LegEndsUnfilled`).
* **Crypto lane, scan, capacity**: as the names of their properties say; the
  comment above each names the code.

### Where the code and its documents disagree

`RecoveryOvertakesLive` ends in a counterexample.  Recovery proves a submission
unsent from a row it read, then moves the intent asking only for `SUBMITTING`
(`approval_workflow.py:517-530`).  The live caller marks the row and sends in
between.  Recovery takes the intent back to retryable and a further step may
expire it, which releases the reservation of a live order.
`OPERATIONS_MANUAL.md:143` keeps the reservation of unknown outcomes.  The
request is still sent only once: both sides check the marker at the adapter
boundary, which is what `SentAtMostOnce` proves.

The other disagreements were met while reading and modelling.  They are recorded
here with their lines; the models keep what the code does.  A line without a file
is one of `app/service.py`, in the paragraph on the crypto lane of
`app/crypto_paper_lane.py`.

*Order core.*  Three lookups that do not find the order reject the intent
(`reconciliation.py:191`); nothing waits for the time a request may still
travel.  After a crash between request and answer the row is `submitting`, from
which the table has no move to cancelled or expired (`order_state.py:71`), so
every pass raises.  An order cancelled after a partial fill keeps its remainder
reserved (`execution.py:1333`).  The fingerprint of a fill includes who reported
it (`execution.py:1368`), so the same cumulative fill from a second source is
refused as contradictory.

*Run lock.*  Nothing ties the `mv` of `run_once.sh:26` to the lock that was
judged: two starters that found the same abandoned lock may both come to run,
against `SYSTEM_OVERVIEW.md:604`.  launchd starts one instance of a job, so the
second one is a manual start, which `docs/SETUP.md` describes.

*Inbox.*  A redelivered NO decides a later proposal (`service.py:5184`).  A batch
expiry message is practically never sent (4634, 4639, 5377).  `/resume` has no
age check (4770).

*Positions.*  A snapshot may overtake an unbooked fill
(`position_lifecycle.py:489-533`); a sell may be booked before its buy
(`lot_ledger.py:223`); the late rest of a partial entry is refused
(`position_lifecycle.py:477`); a
phantom external lot then blocks ADDs (`service.py:2301`).

*Held position.*  An ADD may be sent after EXIT_REQUIRED was decided
(`service.py:2686`,
against `README.md:44`); a decision that is taken early has no trailing stop
(`position_management.py:149-151`), and writing it clears the stored one
(`service.py:1561`); the stop of an ADD is persisted before a milestone transition
that may fail.

*Rotation.*  A fill of a leg that another leg's failure overtook is recorded late
or never (4522-4524); `fail_exit` raising ends every cycle (4540-4547, 10660); an
answer that is lost fails the group with a live, unlinked order (4091-4096).

*Crypto lane.*  A cancellation after a partial fill keeps its reservation for
ever (2145, 3788-3795, 4596); an update may revive a terminal intent (2786,
2805); two reserved intents can block each other (2508); an unbound proposal
stays pending (1316).

*Scan.*  Exits bypass the dedupe of proposals (8771, 8304); a failed broker read
that answers with empty lists clears a blocker (637-707, 1053-1054); an emergency
exit that has ended holds back the next (7650-7654, against
`SYSTEM_OVERVIEW.md:676`); autonomous mode leaves the exits of a failed rotation
without a surface (9700).  The last gate of a buy reads the active rows of
`exit_blocker_states` and the active sell intents
(`execution_risk_snapshot.py:687-689,755`) and does not evaluate the blocker
again, so a buy that was approved leaves past an exit that is proposed, and waits
for its answer, after the last evaluation, and past a sell intent created after
its own second capture.  `OPERATIONS_MANUAL.md:139` leaves a buy pending until its
exit-first checks complete, and `SYSTEM_OVERVIEW.md:653` counts a pending sell
proposal as a blocker, of new proposals.  `BuyYieldsToOlderExit` claims what the
two captures do keep.

*Capacity.*  With the adaptive stack on, which `configuration.py:447-468`
requires, the final revalidation adds `displayed_*` ceilings
(`adaptive_sizing.py:371-377`) that the exact check (428-437) does not find in
`sizing_caps_decimal` (`service.py:13097`); the size becomes 0 and every approved
equity entry or ADD is blocked at `service.py:6178-6203`.
`tests/test_adaptive_sizing.py:217-228` does not see it, and the comment at
`service.py:6135-6137` says otherwise.  `adaptive` is therefore free in `Init`:
FALSE is the branch that the tests run.  PROBE entries are never sent
(`risk_engine.py:474-476` and `execution.py:2736-2770`, against `README.md:43`).
The sleeve is read before the transaction that spends it (`execution.py:816-821`,
`service.py:11957-11961`).  A listener keeps the strategy registry of its start,
against the comment at 5679-5682.  Economics are not computed again at the time
of sending (9176-9260).  Of a sleeve's two ceilings the model has the stop risk;
without the notional one (`execution.py:800-815`) it only lets more through.

*Universe* (read, not modelled).  A rate-limited provider retires symbols
(`dynamic_universe.py:1355` does not set `provider_failed`), against
`SYSTEM_OVERVIEW.md:188-194` and `README.md:39`.

### Bounds

* `Qty` 2 is the least quantity with a partial fill; 1 where fills do not matter.
* `MaxCrashes` 1: after a crash only the database and the broker matter, and the
  run continues with a fresh process, so one crash meets every statement with
  every state of the other process.
* Two processes are what the launch scripts allow (one scanner, one listener);
  two actions, proposals or ADDs suffice for a conflict of a pair.  The processes
  of the order core have fixed roles (`Work`), which splits one large state space
  into the pairs of roles that can interfere.
* In `RunLock` two starters are one schedule and one manual run, and two losses
  let a second abandoned lock arise while the first is being recovered.
* `MaxUpdate` 2, `MaxAborts` 1: one update behind another, one of them met again
  after an abort.
* In `Positions` an entry is as large as both take-profits, so each of them may
  close the position; the two are symmetric.  `MaxLives` 2 lets what belongs to
  the former life reach the next.  The same holds of `HeldPosition`, where three
  prices give a stop, a floor and something between.
* `Rotation` has legs of different size and a displayed ceiling below their sum.
* `CryptoLane`: `Ceiling` 4 is just what two orders of 2 need; the inductive
  invariant was also checked with `MaxFaults` 2 (7,535,613 states).
* `Scan`: `MaxProposals` 2 is one exit and one entry, or two of either.
* `Capacity`: two cycles for evidence that changes between sizing and sending;
  sample counts and thresholds are scaled down together.

What is proved (section 4) does not depend on any of these bounds.

### Fairness

Stated in `OneProcess`, `LockAbandoned`, `Inbox` and `Rotation`.

In the order core: weak fairness for the next step of a running process; strong
fairness for starting a cycle, for a lookup that gets an answer and for booking a
fill with its price; weak fairness for a travelling request to arrive or vanish.
The justification is launchd's 10-minute interval, the retry of each pass, and
that Alpaca reports the price of a fill it has made.  Nothing is assumed about
approvals, fills, cancellations, recoverers or the lapse of leases.

In `RunLock`: a script that has started takes its next command, launchd starts
the scheduled one again, and time passes.  A run need not end.
`AbandonedIsRecovered` is conditional on the manual starters staying away for
good, and excludes the one lock that `inspect_lock` cannot judge: the owner's pid
is in use again and its start time was never recorded (`run_lock.py:134`).

In `TelegramInbox` the listener's loop goes on after an abort, and proposals grow
old.  In `Rotation` both processes are started again and again, an order is
answered and ends, and the group's expiry passes; no fill is promised.

`BlockerClears`, `AnswerActsOnItsWorkflow`, `SentWithinDisplayed`,
`SentUnderCurrentPolicy` and `StopNeverLoosened` are action properties and need
no fairness.

## 4. Proofs

The theorems hold for every value of the constants that the named assumptions
allow: any finite set of actions or proposals, any quantity, any number of
crashes, updates, lives, symbols or legs.  TLC evaluates the assumptions in every
run, and checked each inductive invariant on the run's instance before it was
proved.

| module | theorems about the runs' properties | further theorems |
|---|---|---|
| `OrderExecutionProofs` | `TypeCorrect`, `SentAtMostOnce`, `SentIsMarked`, `CapitalFollowsIntent`, `SlotIsExclusive`; for one process `OneProcessKeepsPromise`, `OneProcessClosesSettled` | `BookedNeverShrinks`, `BooksShowNoMore`; for one process `LiveOrderKeepsCapital`, `OneProcessNeverReopens` |
| `RunLockProofs` | `OneRunsWithoutLosses` | |
| `HeldPositionProofs` | `OneAddPerMilestone`, `AddNeverBelowItsFloor`, `HitsAreEarned`, `StopsOnlyRise` | `TypeCorrect`, `ModesFollowTransitions` |
| `TelegramInboxProofs` | `NothingIsSkipped`, `HandledIsRepresented`, `AnswerMeansItsProposal` | `InboxIsTyped`, `ConsumptionLasts` |
| `MarketScanProofs` | `SalesAreCovered`, `WaitingIsAnswerable`, `OneEntryWaits`, `BuysYield`, `BlockersEnd` | `ScanIsTyped`, `OnlySubmitOpens` |
| `CryptoLaneProofs` | `OrdersAreReserved`, `OneOrderLives`, `BooksWithinBroker`, `EndsAreBooked`, `ReportIsClean` | `LaneIsTyped` |
| `RotationProofs` | `EntryStaysWithinRelease`, `RejectionMovesNothing` | `RotationIsTyped`, `MovesStayAllowed`, `EndsStay`, `ReleaseOnlyGrows` |
| `SetTheorems` | | `SubsetInduction`, `TotalUnrolled`, `TotalRemove`, `TotalChanged`, `TotalMonotone`, `MaxGreatest` |

**OrderExecution, requests.**  `AtMostOneRequest` says nothing of a process that
has set the marker and is about to call the adapter.  `IInv` adds: a process at
work on an action has one (`Located`); between the marker and the call the action
is marked and nothing has been sent (`Held`); at most one process is between the
two (`OneHolder`); nothing is sent for an unmarked action and at most one request
for a marked one (`SentOnce`).  Only `MarkInvocation`, `CallBroker`,
`AdapterRefuses` and `ClearMark` touch the marker or the requests; every other
action is *quiet* and keeps the invariant for that reason.  `MarkInvocation` is
where the argument lies: its transaction requires an unmarked row, and a second
holder would have marked it.

**OrderExecution, capital.**  Intents, reservations and evidence change in three
transactions only (creation, transition, booking), and every other step leaves
these books alone.  Each of the three moves reservation and intent together,
which gives `ReservationTracksIntent`; the creation looks at the slot, which gives
`OneActivePerSlot`; booking is cumulative, which gives `BookedNeverShrinks`.

**OrderExecution, the broker.**  `BrokerInv` says that whatever a process heard of
an order stays true of it: quantities only grow, an end is an end.  It holds for
any number of processes, and what is booked is what somebody heard; hence
`BooksShowNoMore`.

**OrderExecution, one process.**  `HandInv` says what one process may rely on:
what it read of an intent is still so (`Fresh`), an intent that may be submitted
carries no marker (`PreUnmarked`), the executor's intent is in the state its place
in the code implies (`InHand`).  `AbsentSeen` says that an order it was told is
missing is missing; this needs that lookups do not overtake a request on its way
(`~ LookupsOvertake`).  With them every step of the executor, of recovery and of
the reconciler, every crash and every move at the broker is a step of
`OrderPromise` or changes nothing it shows (`PromiseNext`), and so
`Spec => KeepsPromise`.  `OwnInv` is the conjunction.  `CloseInv` ties the workflow
to the intent: one before the intent has none, one that is closed has none that is
open; it also needs what the process knows at the places that close a workflow
(`Concluding`).  `OneProcessNeverReopens` is `PreUnmarked` after the step, since
no step writes marker and state together.

The hypothesis `OneProcess` is there because the code keeps these promises only
then.  With a live caller beside recovery TLC refutes `LiveOrderStaysReserved` (run
`RecoveryOvertakesLive`), and so it does `ClosedWorkflowHasNoOpenIntent` and
`NeverReopened`: recovery decides from a row that the live caller has moved on
since.  A lookup that overtakes the request is a second cause: with it TLC refutes
`KeepsPromise` and `LiveOrderStaysReserved` for one process too.  The theorems say
that the model has no third: crashes, restarts, lost answers and an order that
moves between any two steps break nothing.  What holds for scanner and listener
together are the theorems without the hypothesis.

**RunLock.**  `OneRuns` says nothing of the starters on the way to running, and
the lock is free for whoever finds it gone.  `HInv` adds that exactly while some
starter is between `mkdir` and `rmdir` the lock is there, there is one such
starter, the lock names it or nobody, and it never looks abandoned.  The property
holds until the first loss, as it says itself; after a loss the two starters of
the section above refute the unconditional statement.

**HeldPosition.**  What a process still holds from an earlier read is the whole
difficulty.  The invariant says what stays true of a value in hand: a decision
is lawful for some mode the row had, a stop is a lower bound of the stored one, a
claim belongs to its ADD, and a floor holds from the write of the stop on.

**TelegramInbox.**  What the cursor has passed has a row; a poll holds everything
past the cursor without a gap; the update in hand has its row; and a workflow
that was resolved but not validated is in hand, or its answer is stale.  The last
part is why a redelivered YES cannot consume another proposal.

**MarketScan.**  A proposal that is being executed belongs to its actor alone; a
candidate entry has no pending rival; a proposal that was not shown yet is in the
hands of the scan.  An order that was only reserved is in the hands of the actor
that verifies or submits it (`IntentsHeld`).  What `older` records is not
forgotten and cannot come back: a row in it has been active since, and the sell
intents in it, once ended, stay so (`OlderSound`).  So what the second capture
found still holds when the order leaves: none of the older exits is there any
more, and what is to be sold is still held (`SubmitSound`).  `BlockerClears` and `BuyYieldsToOlderExit` follow as properties of
a step from these.

**CryptoLane.**  A submission under way has the mark and the reservation to
itself, and an order that can still trade keeps its intent in force, which is
what `_final_controls` looks at before it lets another one go.  What a lookup saw
stays true of the order: it fills up, and an end is an end.  So a stale answer may
put an intent back but never ends one whose order is live, and an intent that has
ended is booked, or in the hands of a process about to book it or to ask for a
review.

**Rotation.**  A group makes only the moves of its table (`MovesStayAllowed`), so
one that has come to its entry goes on with it, is blocked or expires, and
nothing returns it to the operator's decision.  Before that decision no process
has a leg in hand, and after a rejection none either.  The recorded release is the
sum of the recorded fills, each at most its order's; it only grows, so an entry
that was sized from it stays within it.  The last comparison of sums is
`TotalMonotone`.

**SetTheorems.**  The modules form sums over finite sets with a fold of the
community modules.  A statement about all finite sets is proved by looking at a
least subset for which it fails (`SubsetInduction`); from it come the equation of
a sum, its change by one term, and its monotony.

### What stays with TLC

* Liveness: `FilledIsBooked`, `AbsentOrRejectedIsSettled`,
  `AbandonedIsRecovered`, `EveryUpdateConfirmed`, `ExpiryIsAnnounced`,
  `ApprovedGroupEnds`.  The prover treats neither fairness nor ENABLED.
* `FeesFullyAllocated`, `TakeProfitWithinTarget`, `BooksFollowBroker`.  The first
  and the last rest on `settled`, which selects rows of a sequence, and on the
  matching of lots; both need an induction over sequences.  The second needs an
  invariant over orders and milestones that is not written yet.
* `ExposureWithinCeiling`, `ReservedWithinSleeve`, `SentWithinDisplayed`,
  `SentUnderCurrentPolicy`: scaled arithmetic with folds over sequences of
  evidence.

## 5. Not modelled

Message texts; fingerprints; schema migration; the repair commands of operators;
the legacy `orders` table; account snapshots; the wording of refusals; ADDs of the
crypto lane; the scores inside research, cross-asset plans and the dynamic
universe; everything in the list of components with the status `not_modelled`,
with its reason there.  Decimal arithmetic appears as scaled integers in
`Capacity` and as whole units elsewhere.

A Python child that outlives its killed shell is not in `RunLock`: a lost starter
is taken to have stopped working.  In the order core manual and autonomous
approvals share their actions, so what only the autonomous path does after a
crash (`autonomous_authority.py:67`) is not seen, and recovery may claim any
claimable workflow, where the code takes the least recently updated one; safety
is checked for more schedules than exist, and no liveness is claimed for recovery.
A proposal approved a second time after its workflow was blocked is not told apart
from a new action.

The hazards without a property (`PROJECT.json`) are those in which the code does
what its documents exclude; they are described in section 3.

## 6. Plan

1. `TakeProfitWithinTarget` of `PositionBook`, with an invariant over orders and
   milestones.
2. `ReservedWithinSleeve`, with the reservation transaction's sums treated by
   `SetTheorems`.
3. Models still worth writing: the dynamic universe's tiers and schedule; ADDs of
   the crypto lane.
