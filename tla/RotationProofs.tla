--------------------------- MODULE RotationProofs ---------------------------
(***************************************************************************)
(* Theorems about Rotation, for any legs, any displayed ceiling and any    *)
(* number of crashes.                                                      *)
(*                                                                         *)
(* The argument.  A group only makes the moves of its table, so one that   *)
(* has come to its entry can only go on with it or be blocked or expire,   *)
(* and nothing returns a group to the operator's decision.  Until that     *)
(* decision no process has a leg in hand, so a rejected group has none     *)
(* either.  What is recorded as released is the sum of the legs' recorded  *)
(* fills, each of them at most what its order has filled; it only grows,   *)
(* so the entry that was sized from it stays within it.                    *)
(***************************************************************************)
EXTENDS Rotation, SetTheorems

(***************************************************************************)
(* The inductive invariant.                                                *)
(***************************************************************************)

\* The recorded fills are the broker's or older ones, and the recorded release
\* is their sum.
ReleaseIsRecorded ==
  /\ \A l \in Legs : step[l].filled <= ord[l].filled /\ ord[l].filled <= Requested[l]
  /\ released = released_by(step)

EntryFits == entry.quantity <= released

\* A group that has come to its entry.
Committed == { "reconciled", "entry_revalidating", "entry_reserved", "entry_submitted",
               "entry_blocked", "completed", "expired" }

EntryIsCommitted ==
  eord # "none" \/ In("scanner", "buy") => state \in Committed

\* Until the operator's decision, and after a rejection, no leg has an order or
\* is in the hands of a process.
NothingMoved ==
  state \in { "pending_group_approval", "rejected" } =>
    /\ \A l \in Legs : ord[l].state = "none" /\ ~step[l].linked
    /\ at["listener"].pc \in (IF state = "rejected" THEN { "idle" } ELSE { "idle", "authorize" })
    /\ at["scanner"].pc \in { "idle", "look", "authorize" }

IInv == TypeOK /\ ReleaseIsRecorded /\ EntryFits /\ EntryIsCommitted /\ NothingMoved

(***************************************************************************)
(* The legs and the table of moves.                                        *)
(***************************************************************************)

\* The legs are numbered from 1, and each asks for something.
LEMMA LegsAre ==
  /\ Legs = 1..Len(Requested) /\ Len(Requested) \in Nat
  /\ IsFiniteSet(Legs)
  /\ \A l \in Legs : Requested[l] \in Nat \ {0}
<1>1. Requested \in Seq(Nat \ {0})
  BY RotationAssumption
<1>2. Legs = 1..Len(Requested) /\ Len(Requested) \in Nat
  BY <1>1 DEF Legs
<1>3. IsFiniteSet(1..Len(Requested))
  BY <1>2, FS_Interval
<1>4. QED
  BY <1>1, <1>2, <1>3

\* The sum over the legs is the total of the library of sums.
LEMMA SummedIsTotal == \A f : Summed(f) = total(f, Legs)
BY DEF Summed, total

\* What one leg asks for is within what all of them ask for.
LEMMA RequestedWithin == Expected \in Nat /\ \A l \in Legs : Requested[l] <= Expected
<1>1. \A l \in Legs : Requested[l] \in Nat
  BY LegsAre
<1>2. Expected = total(Requested, Legs) /\ Expected \in Nat
  BY <1>1, SummedIsTotal, LegsAre, TotalNat DEF Expected
<1>3. ASSUME NEW l \in Legs PROVE Requested[l] <= Expected
  <2>1. IsFiniteSet(Legs \ { l })
    BY LegsAre, FS_RemoveElement
  <2>2. total(Requested, Legs \ { l }) \in Nat
    BY <1>1, <2>1, TotalNat
  <2>3. Expected = Requested[l] + total(Requested, Legs \ { l })
    BY <1>1, <1>2, LegsAre, TotalRemove
  <2>4. QED
    BY <1>1, <2>2, <2>3
<1>4. QED
  BY <1>2, <1>3

\* The table, move by move.
LEMMA MovesAre ==
  ASSUME NEW s, NEW t, << s, t >> \in ALLOWED_TRANSITIONS
  PROVE  \/ s = "pending_group_approval" /\ t \in { "approved_exit_pending", "rejected", "expired", "cancelled" }
         \/ s = "approved_exit_pending" /\ t \in { "exit_submitted", "exit_failed", "expired", "cancelled" }
         \/ s = "exit_submitted" /\ t \in { "exit_partially_filled", "exit_filled", "exit_failed", "expired" }
         \/ s = "exit_partially_filled" /\ t \in { "exit_partially_filled", "exit_filled",
                                                  "reconciliation_pending", "exit_failed", "expired" }
         \/ s = "exit_filled" /\ t \in { "reconciliation_pending" }
         \/ s = "reconciliation_pending" /\ t \in { "reconciled", "entry_blocked" }
         \/ s = "reconciled" /\ t \in { "entry_revalidating", "entry_blocked", "expired" }
         \/ s = "entry_revalidating" /\ t \in { "reconciled", "entry_reserved", "entry_blocked", "expired" }
         \/ s = "entry_reserved" /\ t \in { "entry_submitted", "entry_blocked" }
         \/ s = "entry_submitted" /\ t \in { "completed", "entry_blocked" }
BY DEF ALLOWED_TRANSITIONS

\* No move leaves an end or returns to the operator's decision; a rejection
\* follows it, and a group that has come to its entry stays with it.
LEMMA MovesKeep ==
  ASSUME NEW s, NEW t, << s, t >> \in ALLOWED_TRANSITIONS
  PROVE  /\ s \notin TERMINAL_STATES /\ t \in RotationStates
         /\ t # "pending_group_approval"
         /\ t = "rejected" => s = "pending_group_approval"
         /\ s \in Committed => t \in Committed
BY MovesAre DEF TERMINAL_STATES, RotationStates, ExitActive, Committed

\* The moves that the actions write themselves.
LEMMA MovesWritten ==
  /\ << "pending_group_approval", "approved_exit_pending" >> \in ALLOWED_TRANSITIONS
  /\ << "approved_exit_pending", "exit_submitted" >> \in ALLOWED_TRANSITIONS
  /\ \A s \in ExitActive, t \in { "exit_filled", "exit_partially_filled" } :
       << s, t >> \in ALLOWED_TRANSITIONS
  /\ << "exit_filled", "reconciliation_pending" >> \in ALLOWED_TRANSITIONS
  /\ << "exit_partially_filled", "reconciliation_pending" >> \in ALLOWED_TRANSITIONS
  /\ << "reconciliation_pending", "reconciled" >> \in ALLOWED_TRANSITIONS
  /\ << "reconciled", "entry_revalidating" >> \in ALLOWED_TRANSITIONS
  /\ << "entry_revalidating", "reconciled" >> \in ALLOWED_TRANSITIONS
  /\ << "entry_revalidating", "entry_reserved" >> \in ALLOWED_TRANSITIONS
  /\ << "entry_reserved", "entry_submitted" >> \in ALLOWED_TRANSITIONS
  /\ << "entry_submitted", "completed" >> \in ALLOWED_TRANSITIONS
BY DEF ALLOWED_TRANSITIONS, ExitActive

(***************************************************************************)
(* What the operators of the steps do.                                     *)
(***************************************************************************)

Place == [pc : Labels, leg : 0..(Len(Requested) + 1), saw : RotationStates, todo : SUBSET Legs]
Step == [linked : BOOLEAN, filled : 0..Expected,
         state : { "pending", "submitted", "partially_filled", "filled", "terminal" }]
Entry == [state : { "contingent", "revalidated", "reserved", "submitted", "blocked" },
          quantity : 0..Displayed]
EntryOrders == { "none", "sending", "live", "filled", "ended" }

\* The types by name.
LEMMA Types ==
  TypeOK <=>
    /\ state \in RotationStates /\ late \in BOOLEAN
    /\ approval \in { "none", "active", "exit_submitted" }
    /\ released \in 0..Expected
    /\ step \in [Legs -> Step] /\ prop \in [Legs -> Proposals] /\ ord \in [Legs -> Order]
    /\ entry \in Entry /\ eprop \in Proposals /\ eord \in EntryOrders
    /\ at \in [Actors -> Place] /\ crashes \in 0..MaxCrashes
BY DEF TypeOK, Place, Step, Entry, EntryOrders

\* A process at rest.
LEMMA IdleTyped == Idle \in Place /\ Idle.pc = "idle"
BY LegsAre DEF Idle, Place, Labels, RotationStates

\* How a process moves: only its own place changes.
LEMMA GotoMoves ==
  ASSUME TypeOK, NEW a \in Actors, NEW l \in Labels, Goto(a, l)
  PROVE  /\ at' \in [Actors -> Place] /\ \A b \in Actors \ { a } : at'[b] = at[b]
         /\ at'[a].pc = l
<1>1. at \in [Actors -> Place]
  BY Types
<1>2. at' = [at EXCEPT ![a] = [at[a] EXCEPT !.pc = l]]
  BY DEF Goto
<1>3. [at[a] EXCEPT !.pc = l] \in Place
  BY <1>1 DEF Place
<1>4. QED
  BY <1>1, <1>2, <1>3 DEF Place

\* A process comes to rest.
LEMMA StopMoves ==
  ASSUME TypeOK, NEW a \in Actors, Stop(a)
  PROVE  /\ at' \in [Actors -> Place] /\ \A b \in Actors \ { a } : at'[b] = at[b]
         /\ at'[a].pc = "idle"
<1>1. at \in [Actors -> Place]
  BY Types
<1>2. QED
  BY <1>1, IdleTyped DEF Stop

\* The scanner goes to a place that is named in full.
LEMMA ScanMoves ==
  ASSUME TypeOK, NEW r \in Place, Scan(r)
  PROVE  /\ at' \in [Actors -> Place] /\ at'["listener"] = at["listener"]
         /\ at'["scanner"] = r
<1>1. at \in [Actors -> Place]
  BY Types
<1>2. QED
  BY <1>1 DEF Scan, Actors

\* A transition makes a move of the table or none, and takes nothing from the
\* entry's quantity.
LEMMA TransitionMoves ==
  ASSUME TypeOK, NEW s, Transition(s)
  PROVE  /\ state' = state \/ (state' = s /\ << state, state' >> \in ALLOWED_TRANSITIONS)
         /\ entry' \in Entry /\ entry'.quantity = entry.quantity
         /\ eprop' \in Proposals
<1>1. entry \in Entry /\ eprop \in Proposals
  BY Types
<1>2. CASE Moved(s) /\ may_move(s)
  BY <1>1, <1>2 DEF Moved, may_move, Entry, Proposals
<1>3. CASE UNCHANGED << state, entry, eprop >>
  BY <1>1, <1>3
<1>4. QED
  BY <1>2, <1>3 DEF Transition

\* An approval likewise.
LEMMA ApproveMoves ==
  ASSUME TypeOK, NEW a, Approve(a)
  PROVE  /\ state' = state \/ << state, state' >> \in ALLOWED_TRANSITIONS
         /\ late => state' # "pending_group_approval"
         /\ state' = "rejected" => state = "rejected"
         /\ approval' # approval => state' = "approved_exit_pending" /\ state = "pending_group_approval"
         /\ entry' \in Entry /\ entry'.quantity = entry.quantity
         /\ eprop' \in Proposals /\ approval' \in { "none", "active", "exit_submitted" }
<1>1. entry \in Entry /\ eprop \in Proposals /\ approval \in { "none", "active", "exit_submitted" }
  BY Types
<1>2. CASE late /\ Transition("expired") /\ UNCHANGED approval
  <2>1. state = "pending_group_approval" => state' # "pending_group_approval"
    BY <1>2 DEF Transition, Moved, may_move, ALLOWED_TRANSITIONS, TERMINAL_STATES
  <2>2. QED
    BY <1>1, <1>2, <2>1, TransitionMoves, MovesKeep
<1>3. CASE Transition("cancelled") /\ UNCHANGED approval
  <2>1. state = "pending_group_approval" => state' # "pending_group_approval"
    BY <1>3 DEF Transition, Moved, may_move, ALLOWED_TRANSITIONS, TERMINAL_STATES
  <2>2. QED
    BY <1>1, <1>3, <2>1, TransitionMoves, MovesKeep
<1>4. CASE /\ ~late /\ state = "pending_group_approval"
           /\ Moved("approved_exit_pending") /\ approval' = "active"
  <2>1. state' = "approved_exit_pending" /\ UNCHANGED << entry, eprop >>
    BY <1>4 DEF Moved, TERMINAL_STATES
  <2>2. QED
    BY <1>1, <1>4, <2>1, MovesWritten
<1>5. QED
  BY <1>2, <1>3, <1>4 DEF Approve

\* The end of the group by way of its entry.
LEMMA BlockEntryMoves ==
  ASSUME TypeOK, BlockEntry
  PROVE  /\ state' = state \/ << state, state' >> \in ALLOWED_TRANSITIONS
         /\ entry' \in Entry /\ entry'.quantity = entry.quantity /\ eprop' \in Proposals
         /\ at' \in [Actors -> Place] /\ at'["scanner"].pc = "idle"
         /\ at'["listener"] = at["listener"]
BY TransitionMoves, StopMoves DEF BlockEntry, Actors

\* What a fill makes of the group's state.
LEMMA FillMoves ==
  ASSUME NEW s, NEW t, t = fill_state(s)
  PROVE  t = state \/ << state, t >> \in ALLOWED_TRANSITIONS
BY MovesWritten DEF fill_state

(***************************************************************************)
(* The steps, by what they leave alone.                                    *)
(***************************************************************************)

\* Every change of the group's state is a move of the table.
LEMMA StateMoves ==
  ASSUME TypeOK, Next
  PROVE  state' = state \/ << state, state' >> \in ALLOWED_TRANSITIONS
<1>1. CASE ApproveCommand \/ Authorize
  BY <1>1, ApproveMoves DEF ApproveCommand, Authorize
<1>2. CASE RejectCommand
  BY <1>2, TransitionMoves DEF RejectCommand
<1>3. CASE BeginCycle
  BY <1>3, TransitionMoves DEF BeginCycle
<1>4. ASSUME NEW a \in Actors, Leg(a)
      PROVE  state' = state \/ << state, state' >> \in ALLOWED_TRANSITIONS
  <2>1. CASE RecordLeg(a)
    BY <2>1, MovesWritten DEF RecordLeg
  <2>2. CASE FailExit(a)
    BY <2>2, TransitionMoves DEF FailExit
  <2>3. QED
    BY <1>4, <2>1, <2>2 DEF Leg, BeginLeg, ExecuteLeg, CreateLeg, MarkSubmitted, MarkConsumed
<1>5. CASE TrackLeg
  BY <1>5, FillMoves DEF TrackLeg
<1>6. CASE EndTrack
  BY <1>6, MovesWritten DEF EndTrack
<1>7. CASE Reconcile
  BY <1>7, MovesWritten DEF Reconcile, reconcilable
<1>8. CASE RevalidateEntry
  BY <1>8, BlockEntryMoves, TransitionMoves, MovesWritten DEF RevalidateEntry
<1>9. CASE PrepareEntry \/ DispatchEntry \/ BuyEntry
  BY <1>9, BlockEntryMoves DEF PrepareEntry, DispatchEntry, BuyEntry
<1>10. CASE LinkEntry
  BY <1>10, BlockEntryMoves, MovesWritten DEF LinkEntry, Moved
<1>11. CASE Look \/ ReconcileRaises \/ Command
  BY <1>11 DEF Look, ReconcileRaises, Command
<1>12. CASE \/ EntryOrder \/ Expires \/ \E a \in Actors : Crash(a)
            \/ \E l \in Legs : ExitAnswered(l) \/ ExitFills(l) \/ ExitEnds(l)
  BY <1>12 DEF EntryOrder, Expires, Crash, ExitAnswered, ExitFills, ExitEnds, MoveExit, inside
<1>13. "listener" \in Actors /\ "scanner" \in Actors
  BY DEF Actors
<1>14. QED
  BY <1>1, <1>2, <1>3, <1>4, <1>5, <1>6, <1>7, <1>8, <1>9, <1>10, <1>11, <1>12, <1>13
     DEF Next, Listener, Scanner

\* The exit orders are only touched by CreateLeg and by the broker.
LEMMA OrdersMove ==
  ASSUME Next
  PROVE  \/ UNCHANGED ord
         \/ \E a \in Actors : CreateLeg(a)
         \/ \E l \in Legs : ExitAnswered(l) \/ ExitFills(l) \/ ExitEnds(l)
<1>1. CASE \E a \in Actors : Leg(a)
  BY <1>1 DEF Leg, BeginLeg, ExecuteLeg, MarkSubmitted, RecordLeg, FailExit, MarkConsumed,
              outside, exits
<1>2. CASE ApproveCommand \/ RejectCommand \/ Command \/ BeginCycle \/ Look \/ Authorize
  BY <1>2 DEF ApproveCommand, RejectCommand, Command, BeginCycle, Look, Authorize, outside, exits
<1>3. CASE TrackLeg \/ EndTrack \/ Reconcile \/ ReconcileRaises
  BY <1>3 DEF TrackLeg, EndTrack, Reconcile, ReconcileRaises, outside, exits
<1>4. CASE RevalidateEntry \/ PrepareEntry \/ DispatchEntry \/ BuyEntry \/ LinkEntry
  BY <1>4 DEF RevalidateEntry, PrepareEntry, DispatchEntry, BuyEntry, LinkEntry, outside
<1>5. CASE EntryOrder \/ Expires \/ \E a \in Actors : Crash(a)
  BY <1>5 DEF EntryOrder, Expires, Crash
<1>6. "listener" \in Actors /\ "scanner" \in Actors
  BY DEF Actors
<1>7. QED
  BY <1>1, <1>2, <1>3, <1>4, <1>5, <1>6 DEF Next, Listener, Scanner

\* The legs' rows are only touched by RecordLeg, which leaves the fills, and by
\* TrackLeg, which sums them up.
LEMMA StepsMove ==
  ASSUME Next
  PROVE  \/ UNCHANGED << step, released >>
         \/ \E a \in Actors : RecordLeg(a)
         \/ TrackLeg
<1>1. CASE \E a \in Actors : Leg(a)
  BY <1>1 DEF Leg, BeginLeg, ExecuteLeg, CreateLeg, MarkSubmitted, FailExit, MarkConsumed, exits
<1>2. CASE ApproveCommand \/ RejectCommand \/ Command \/ BeginCycle \/ Look \/ Authorize
  BY <1>2 DEF ApproveCommand, RejectCommand, Command, BeginCycle, Look, Authorize, exits
<1>3. CASE EndTrack \/ Reconcile \/ ReconcileRaises
  BY <1>3 DEF EndTrack, Reconcile, ReconcileRaises, exits
<1>4. CASE RevalidateEntry \/ PrepareEntry \/ DispatchEntry \/ BuyEntry \/ LinkEntry
  BY <1>4 DEF RevalidateEntry, PrepareEntry, DispatchEntry, BuyEntry, LinkEntry
<1>5. CASE \/ EntryOrder \/ Expires \/ \E a \in Actors : Crash(a)
           \/ \E l \in Legs : ExitAnswered(l) \/ ExitFills(l) \/ ExitEnds(l)
  BY <1>5 DEF EntryOrder, Expires, Crash, ExitAnswered, ExitFills, ExitEnds, MoveExit, inside
<1>6. "listener" \in Actors /\ "scanner" \in Actors
  BY DEF Actors
<1>7. QED
  BY <1>1, <1>2, <1>3, <1>4, <1>5, <1>6 DEF Next, Listener, Scanner

(***************************************************************************)
(* What was sold, recorded and released.                                   *)
(***************************************************************************)

\* An exit order fills up, never past what its leg asks for.
LEMMA OrdersFill ==
  ASSUME TypeOK, ReleaseIsRecorded, Next
  PROVE  /\ ord' \in [Legs -> Order]
         /\ \A l \in Legs : ord[l].filled <= ord'[l].filled /\ ord'[l].filled <= Requested[l]
<1> DEFINE Fills(o) == /\ o \in [Legs -> Order]
                       /\ \A l \in Legs : ord[l].filled <= o[l].filled /\ o[l].filled <= Requested[l]
<1>1. /\ ord \in [Legs -> Order]
      /\ \A l \in Legs : ord[l].filled <= Requested[l] /\ ord[l].filled \in Nat
  BY Types, RequestedWithin DEF ReleaseIsRecorded, Order
<1>2. Fills(ord)
  BY <1>1
<1>3. ASSUME NEW l \in Legs, NEW s \in OrderStates, NEW n \in Nat,
             ord[l].filled <= n, n <= Requested[l]
      PROVE  Fills([ord EXCEPT ![l] = [state |-> s, filled |-> n]])
  <2>1. n \in 0..Expected
    BY <1>3, LegsAre, RequestedWithin
  <2>2. [state |-> s, filled |-> n] \in Order
    BY <2>1 DEF Order
  <2>3. QED
    BY <1>1, <1>3, <2>2
<1>4. ASSUME NEW a \in Actors, CreateLeg(a) PROVE Fills(ord')
  <2>1. CASE UNCHANGED ord
    BY <1>2, <2>1
  <2>2. CASE \E s \in { "live", "sending" } : ord' = [ord EXCEPT ![at[a].leg].state = s]
    <3>1. PICK s \in { "live", "sending" } : ord' = [ord EXCEPT ![at[a].leg].state = s]
      BY <2>2
    <3>2. CASE at[a].leg \in Legs
      <4>1. [ord[at[a].leg] EXCEPT !.state = s] = [state |-> s, filled |-> ord[at[a].leg].filled]
        BY <1>1, <3>2 DEF Order
      <4>2. ord' = [ord EXCEPT ![at[a].leg] = [state |-> s, filled |-> ord[at[a].leg].filled]]
        BY <3>1, <4>1
      <4>3. s \in OrderStates
        BY DEF OrderStates
      <4>4. QED
        BY <1>1, <1>3, <3>2, <4>2, <4>3
    <3>3. CASE at[a].leg \notin Legs
      BY <1>1, <1>2, <3>1, <3>3
    <3>4. QED
      BY <3>2, <3>3
  <2>3. QED
    BY <1>4, <2>1, <2>2 DEF CreateLeg
<1>5. ASSUME NEW l \in Legs, ExitAnswered(l) \/ ExitFills(l) \/ ExitEnds(l) PROVE Fills(ord')
  <2>1. \E s \in OrderStates, d \in { 0, 1 } :
          /\ ord' = [ord EXCEPT ![l] = [state |-> s, filled |-> ord[l].filled + d]]
          /\ ord[l].filled + d <= Requested[l]
    <3>1. CASE ExitAnswered(l) \/ ExitEnds(l)
      BY <1>1, <3>1 DEF ExitAnswered, ExitEnds, MoveExit, OrderStates
    <3>2. CASE ExitFills(l)
      <4>1. /\ ord[l].state \in OrderStates
            /\ ord' = [ord EXCEPT ![l] = [state |-> ord[l].state, filled |-> ord[l].filled + 1]]
            /\ ord[l].filled < Requested[l]
        BY <1>1, <3>2 DEF ExitFills, MoveExit, OrderStates
      <4>2. ord[l].filled + 1 <= Requested[l]
        BY <1>1, <4>1, LegsAre
      <4>3. QED
        BY <4>1, <4>2
    <3>3. QED
      BY <1>5, <3>1, <3>2
  <2>2. PICK s \in OrderStates, d \in { 0, 1 } :
          /\ ord' = [ord EXCEPT ![l] = [state |-> s, filled |-> ord[l].filled + d]]
          /\ ord[l].filled + d <= Requested[l]
    BY <2>1
  <2>3. ord[l].filled + d \in Nat /\ ord[l].filled <= ord[l].filled + d
    BY <1>1
  <2>4. QED
    BY <1>3, <2>2, <2>3
<1>6. Fills(ord')
  BY <1>2, <1>4, <1>5, OrdersMove
<1>7. QED
  BY <1>6

\* The rows follow the orders, and the release is their sum, which grows.
LEMMA ReleaseFollows ==
  ASSUME TypeOK, ReleaseIsRecorded, Next
  PROVE  /\ step' \in [Legs -> Step] /\ released' \in 0..Expected /\ released' >= released
         /\ ReleaseIsRecorded'
<1>1. /\ step \in [Legs -> Step] /\ released \in 0..Expected /\ Expected \in Nat
      /\ ord \in [Legs -> Order] /\ ord' \in [Legs -> Order]
      /\ \A l \in Legs : /\ Requested[l] \in Nat /\ Requested[l] <= Expected
                         /\ step[l].filled \in Nat
                         /\ ord[l].filled \in Nat /\ ord'[l].filled \in Nat
                         /\ step[l].filled <= ord[l].filled
                         /\ ord[l].filled <= ord'[l].filled /\ ord'[l].filled <= Requested[l]
  <2>1. /\ step \in [Legs -> Step] /\ released \in 0..Expected /\ Expected \in Nat
        /\ ord \in [Legs -> Order] /\ ord' \in [Legs -> Order]
    BY Types, OrdersFill, RequestedWithin
  <2>2. ASSUME NEW l \in Legs
        PROVE  /\ Requested[l] \in Nat /\ Requested[l] <= Expected
               /\ step[l].filled \in Nat /\ ord[l].filled \in Nat /\ ord'[l].filled \in Nat
    BY <2>1, LegsAre, RequestedWithin DEF Order, Step
  <2>3. \A l \in Legs : /\ step[l].filled <= ord[l].filled
                        /\ ord[l].filled <= ord'[l].filled /\ ord'[l].filled <= Requested[l]
    BY OrdersFill DEF ReleaseIsRecorded
  <2>4. QED
    BY <2>1, <2>2, <2>3
<1>2. released = released_by(step)
  BY DEF ReleaseIsRecorded
<1>3. ASSUME step' \in [Legs -> Step], released' = released_by(step'),
             \A l \in Legs : step[l].filled <= step'[l].filled /\ step'[l].filled <= ord'[l].filled
      PROVE  released' \in 0..Expected /\ released' >= released /\ ReleaseIsRecorded'
  <2> DEFINE before == [l \in Legs |-> step[l].filled]
             after == [l \in Legs |-> step'[l].filled]
  <2>1. /\ \A l \in Legs : before[l] \in Int /\ after[l] \in Int /\ after[l] \in Nat
        /\ \A l \in Legs : before[l] <= after[l] /\ after[l] <= Requested[l] /\ Requested[l] \in Int
    BY <1>1, <1>3 DEF Step
  <2>2. /\ released = total(before, Legs) /\ released' = total(after, Legs)
        /\ Expected = total(Requested, Legs)
    BY <1>2, <1>3, SummedIsTotal DEF released_by, Expected
  <2> HIDE DEF before, after
  <2>3. total(before, Legs) <= total(after, Legs)
    BY <2>1, LegsAre, TotalMonotone
  <2>4. total(after, Legs) <= total(Requested, Legs)
    BY <2>1, LegsAre, TotalMonotone
  <2>5. total(after, Legs) \in Nat
    BY <2>1, LegsAre, TotalNat
  <2>6. QED
    BY <1>1, <1>3, <2>2, <2>3, <2>4, <2>5 DEF ReleaseIsRecorded
<1>4. CASE UNCHANGED << step, released >>
  BY <1>1, <1>2, <1>3, <1>4 DEF released_by
<1>5. ASSUME NEW a \in Actors, RecordLeg(a)
      PROVE  step' \in [Legs -> Step] /\ released' = released /\ \A l \in Legs : step'[l].filled = step[l].filled
  <2>1. CASE UNCHANGED step
    BY <1>1, <1>5, <2>1 DEF RecordLeg
  <2>2. CASE ~UNCHANGED step
    <3> DEFINE k == at[a].leg
               r == IF step[k].linked THEN step[k]
                    ELSE [step[k] EXCEPT !.linked = TRUE, !.state = "submitted"]
    <3>1. step' = [step EXCEPT ![k] = r] /\ released' = released
      BY <1>5, <2>2 DEF RecordLeg
    <3>2. k \in Legs => r \in Step /\ r.filled = step[k].filled
      BY <1>1 DEF Step
    <3> HIDE DEF k, r
    <3>3. QED
      BY <1>1, <3>1, <3>2
  <2>3. QED
    BY <2>1, <2>2
<1>6. ASSUME NEW a \in Actors, RecordLeg(a)
      PROVE  /\ step' \in [Legs -> Step] /\ released' = released_by(step')
             /\ \A l \in Legs : step[l].filled <= step'[l].filled /\ step'[l].filled <= ord'[l].filled
  <2>1. /\ step' \in [Legs -> Step] /\ released' = released
        /\ \A l \in Legs : step'[l].filled = step[l].filled
    BY <1>5, <1>6
  <2>2. [l \in Legs |-> step'[l].filled] = [l \in Legs |-> step[l].filled]
    BY <2>1
  <2>3. released' = released_by(step')
    BY <1>2, <2>1, <2>2 DEF released_by
  <2>4. QED
    BY <1>1, <2>1, <2>3
<1>7. CASE TrackLeg
  <2> DEFINE l == at["scanner"].leg
             o == ord[l]
             more == step[l].linked /\ o.filled > step[l].filled
             ended == step[l].linked /\ o.state = "ended" /\ o.filled < Requested[l]
             r == IF more THEN [step[l] EXCEPT !.filled = o.filled,
                                              !.state = IF o.filled = Requested[l] THEN "filled"
                                                        ELSE "partially_filled"]
                  ELSE step[l]
             s == [step EXCEPT ![l] = r]
             x == IF ended /\ o.filled > 0 THEN [r EXCEPT !.state = "terminal"] ELSE r
  <2>1. l \in Legs /\ ord' = ord
    BY <1>7 DEF TrackLeg, outside
  <2> DEFINE t == IF more THEN [step EXCEPT ![l].filled = o.filled,
                                       ![l].state = IF o.filled = Requested[l] THEN "filled"
                                                    ELSE "partially_filled"]
                  ELSE step
  <2>2. t = s
    BY <1>1, <2>1
  <2>3. /\ step' = IF ended /\ o.filled > 0 THEN [s EXCEPT ![l].state = "terminal"] ELSE s
        /\ released' = IF more THEN released_by(s) ELSE released
    <3>1. /\ step' = IF ended /\ o.filled > 0 THEN [t EXCEPT ![l].state = "terminal"] ELSE t
          /\ released' = IF more THEN released_by(t) ELSE released
      BY <1>7 DEF TrackLeg
    <3> HIDE DEF t, s
    <3>2. QED
      BY <2>2, <3>1
  <2>4. step' = [step EXCEPT ![l] = x]
    <3>1. s \in [Legs -> {s[k] : k \in Legs}] /\ s[l] = r
      BY <1>1, <2>1
    <3>2. CASE ended /\ o.filled > 0
      <4>1. x = [r EXCEPT !.state = "terminal"] /\ step' = [s EXCEPT ![l].state = "terminal"]
        BY <2>3, <3>2
      <4> HIDE DEF r, x, l
      <4>2. s = [step EXCEPT ![l] = r]
        OBVIOUS
      <4>3. step' = [s EXCEPT ![l] = x]
        BY <3>1, <4>1
      <4>4. QED
        BY <4>2, <4>3
    <3>3. CASE ~(ended /\ o.filled > 0)
      <4>1. x = r /\ step' = s
        BY <2>3, <3>3
      <4>2. QED
        BY <4>1
    <3>4. QED
      BY <3>2, <3>3
  <2>5. /\ r \in Step /\ x \in Step /\ x.filled = r.filled
        /\ step[l].filled <= r.filled /\ r.filled <= o.filled
        /\ ~more => r = step[l]
    <3>1. step[l] \in Step /\ o.filled \in 0..Expected
      BY <1>1, <2>1 DEF Order
    <3>2. r \in Step /\ step[l].filled <= r.filled /\ r.filled <= o.filled
      <4> DEFINE st == IF o.filled = Requested[l] THEN "filled" ELSE "partially_filled"
      <4>1. CASE more
        <5>1. r = [step[l] EXCEPT !.filled = o.filled, !.state = st]
          BY <4>1
        <5>2. st \in { "pending", "submitted", "partially_filled", "filled", "terminal" }
          OBVIOUS
        <5> HIDE DEF r, st, o, l
        <5>3. r \in Step /\ r.filled = o.filled
          BY <3>1, <5>1, <5>2 DEF Step
        <5>4. step[l].filled < o.filled
          BY <4>1 DEF o
        <5>5. o.filled \in Int /\ step[l].filled \in Int
          BY <3>1 DEF Step
        <5>6. QED
          BY <5>3, <5>4, <5>5
      <4>2. CASE ~more
        <5>1. r = step[l]
          BY <4>2
        <5>2. step[l].filled \in Int /\ step[l].filled <= o.filled
          BY <1>1, <2>1
        <5>3. QED
          BY <3>1, <5>1, <5>2
      <4>3. QED
        BY <4>1, <4>2
    <3>3. x \in Step /\ x.filled = r.filled
      BY <3>2 DEF Step
    <3>4. QED
      BY <3>2, <3>3
  <2>6. ~more => s = step
    BY <1>1, <2>1
  <2> HIDE DEF r, x, s
  <2>7. /\ step' \in [Legs -> Step]
        /\ \A k \in Legs : step[k].filled <= step'[k].filled /\ step'[k].filled <= ord'[k].filled
    BY <1>1, <2>1, <2>4, <2>5
  <2>8. \A k \in Legs : step'[k].filled = s[k].filled
    BY <1>1, <2>1, <2>4, <2>5 DEF s
  <2>9. released_by(step') = released_by(s)
    <3>1. [k \in Legs |-> step'[k].filled] = [k \in Legs |-> s[k].filled]
      BY <2>8
    <3>2. QED
      BY <3>1 DEF released_by
  <2>10. released' = released_by(step')
    BY <1>2, <2>3, <2>6, <2>9
  <2>11. QED
    BY <1>3, <2>7, <2>10
<1>8. QED
  BY <1>3, <1>4, <1>6, <1>7, StepsMove

\* The entry takes its quantity within what was shown and released, and only
\* gives it back.
LEMMA EntryMoves ==
  ASSUME TypeOK, Next
  PROVE  /\ entry' \in Entry /\ eprop' \in Proposals
         /\ entry'.quantity \in { 0, entry.quantity } \/ entry'.quantity <= released
<1>1. entry \in Entry /\ eprop \in Proposals /\ Displayed \in Nat
  BY Types, RotationAssumption
<1>2. CASE UNCHANGED << entry, eprop >>
  BY <1>1, <1>2
<1>3. CASE ApproveCommand \/ Authorize
  BY <1>1, <1>3, ApproveMoves DEF ApproveCommand, Authorize
<1>4. CASE RejectCommand
  BY <1>4, TransitionMoves DEF RejectCommand
<1>5. CASE BeginCycle
  BY <1>1, <1>5, TransitionMoves DEF BeginCycle
<1>6. ASSUME NEW a \in Actors, Leg(a)
      PROVE  UNCHANGED << entry, eprop >> \/ Transition("exit_failed")
  BY <1>6 DEF Leg, BeginLeg, ExecuteLeg, CreateLeg, MarkSubmitted, RecordLeg, FailExit,
              MarkConsumed, buys
<1>7. CASE \E a \in Actors : Leg(a)
  BY <1>2, <1>6, <1>7, TransitionMoves
<1>8. CASE RevalidateEntry
  <2>1. CASE BlockEntry
    BY <2>1, BlockEntryMoves
  <2>2. CASE Transition("expired")
    BY <2>2, TransitionMoves
  <2>3. CASE /\ \E q \in 1..entry_cap : entry' = [state |-> "revalidated", quantity |-> q]
             /\ UNCHANGED eprop
    <3>1. PICK q \in 1..entry_cap : entry' = [state |-> "revalidated", quantity |-> q]
      BY <2>3
    <3>2. released \in Nat
      BY Types, RequestedWithin
    <3>3. { Displayed, released } \in SUBSET (0..(Displayed + released)) /\ Displayed + released \in Nat
      BY <1>1, <3>2
    <3>4. entry_cap \in Nat /\ entry_cap <= Displayed /\ entry_cap <= released
      BY <1>1, <3>2, <3>3, MinLeast DEF entry_cap
    <3>5. q \in 0..Displayed /\ q <= released
      BY <1>1, <3>2, <3>4
    <3>6. QED
      BY <1>1, <2>3, <3>1, <3>5 DEF Entry
  <2>4. QED
    BY <1>8, <2>1, <2>2, <2>3 DEF RevalidateEntry
<1>9. CASE PrepareEntry \/ DispatchEntry \/ BuyEntry
  <2>1. "approved" \in Proposals
    BY DEF Proposals
  <2>2. QED
    BY <1>1, <1>9, <2>1, BlockEntryMoves DEF PrepareEntry, DispatchEntry, BuyEntry
<1>10. CASE LinkEntry
  <2>1. CASE BlockEntry
    BY <2>1, BlockEntryMoves
  <2>2. CASE entry' = [state |-> "contingent", quantity |-> 0] /\ UNCHANGED eprop
    BY <1>1, <2>2 DEF Entry
  <2>3. CASE \E s \in { "reserved", "submitted" } : entry' = [entry EXCEPT !.state = s]
             /\ eprop' \in { eprop, "submitted" }
    BY <1>1, <2>3 DEF Entry, Proposals
  <2>4. CASE Moved("completed")
    BY <1>1, <2>4 DEF Moved, Entry, Proposals
  <2>5. QED
    BY <1>2, <1>10, <2>1, <2>2, <2>3, <2>4 DEF LinkEntry
<1>11. CASE Command \/ Look \/ TrackLeg \/ EndTrack \/ Reconcile \/ ReconcileRaises
  BY <1>2, <1>11 DEF Command, Look, TrackLeg, EndTrack, Reconcile, ReconcileRaises, buys
<1>12. CASE \/ EntryOrder \/ Expires \/ \E a \in Actors : Crash(a)
            \/ \E l \in Legs : ExitAnswered(l) \/ ExitFills(l) \/ ExitEnds(l)
  BY <1>2, <1>12 DEF EntryOrder, Expires, Crash, ExitAnswered, ExitFills, ExitEnds, MoveExit, inside
<1>13. "listener" \in Actors /\ "scanner" \in Actors
  BY DEF Actors
<1>14. QED
  BY <1>3, <1>4, <1>5, <1>7, <1>8, <1>9, <1>10, <1>11, <1>12, <1>13 DEF Next, Listener, Scanner

\* The legs' proposals, the approval, the orders for the entry and the counters
\* keep their types.
LEMMA OthersTyped ==
  ASSUME TypeOK, Next
  PROVE  /\ late' \in BOOLEAN /\ approval' \in { "none", "active", "exit_submitted" }
         /\ prop' \in [Legs -> Proposals] /\ eord' \in EntryOrders /\ crashes' \in 0..MaxCrashes
<1>1. /\ late \in BOOLEAN /\ approval \in { "none", "active", "exit_submitted" }
      /\ prop \in [Legs -> Proposals] /\ eord \in EntryOrders /\ crashes \in 0..MaxCrashes
      /\ MaxCrashes \in Nat
  BY Types, RotationAssumption
<1>2. { "pending", "approved", "submitted", "blocked", "rejected" } \subseteq Proposals
  BY DEF Proposals
<1>3. ASSUME NEW a \in Actors, Leg(a)
      PROVE  /\ UNCHANGED << late, eord, crashes >> /\ prop' \in [Legs -> Proposals]
             /\ approval' \in { "none", "active", "exit_submitted" }
  BY <1>1, <1>2, <1>3
     DEF Leg, BeginLeg, ExecuteLeg, CreateLeg, MarkSubmitted, RecordLeg, FailExit, MarkConsumed,
         outside, buys, exits
<1>4. CASE ApproveCommand \/ Authorize
  BY <1>1, <1>4, ApproveMoves DEF ApproveCommand, Authorize, outside
<1>5. CASE RejectCommand
  BY <1>1, <1>2, <1>5 DEF RejectCommand, outside
<1>6. CASE Command \/ BeginCycle \/ Look \/ TrackLeg \/ EndTrack \/ Reconcile
  BY <1>1, <1>6 DEF Command, BeginCycle, Look, TrackLeg, EndTrack, Reconcile, outside, exits, buys
<1>7. CASE ReconcileRaises \/ \E a \in Actors : Crash(a)
  BY <1>1, <1>7 DEF ReconcileRaises, Crash, inside, exits, buys
<1>8. CASE RevalidateEntry \/ PrepareEntry \/ DispatchEntry \/ LinkEntry
  BY <1>1, <1>8 DEF RevalidateEntry, PrepareEntry, DispatchEntry, LinkEntry, outside
<1>9. CASE BuyEntry
  BY <1>1, <1>9 DEF BuyEntry, EntryOrders
<1>10. CASE EntryOrder \/ Expires
  BY <1>1, <1>10 DEF EntryOrder, Expires, EntryOrders, inside
<1>11. CASE \E l \in Legs : ExitAnswered(l) \/ ExitFills(l) \/ ExitEnds(l)
  BY <1>1, <1>11 DEF ExitAnswered, ExitFills, ExitEnds, MoveExit, inside
<1>12. "listener" \in Actors /\ "scanner" \in Actors
  BY DEF Actors
<1>13. QED
  BY <1>1, <1>3, <1>4, <1>5, <1>6, <1>7, <1>8, <1>9, <1>10, <1>11, <1>12 DEF Next, Listener, Scanner

\* The next leg of a list is one of its legs.
LEMMA NextLegTyped == \A r \in Place : NextLeg(r) \in Place
<1> SUFFICES ASSUME NEW r \in Place PROVE NextLeg(r) \in Place
  OBVIOUS
<1> DEFINE left == { l \in r.todo : l > r.leg }
<1>1. left \in SUBSET (0..Len(Requested)) /\ Len(Requested) \in Nat
  BY LegsAre DEF Place
<1>2. left # {} => Min(left) \in 0..(Len(Requested) + 1)
  <2> HIDE DEF left
  <2>1. left # {} => Min(left) \in left
    BY <1>1, MinLeast
  <2>2. left # {} => Min(left) \in 0..Len(Requested)
    BY <1>1, <2>1
  <2>3. QED
    BY <1>1, <2>2
<1>3. "marked" \in Labels /\ "leg" \in Labels
  BY DEF Labels
<1> DEFINE pc == IF left = {} THEN "marked" ELSE "leg"
           leg == IF left = {} THEN r.leg ELSE Min(left)
<1>4. pc \in Labels /\ leg \in 0..(Len(Requested) + 1)
  BY <1>2, <1>3 DEF Place
<1>5. NextLeg(r) = [r EXCEPT !.pc = pc, !.leg = leg]
  BY DEF NextLeg
<1> HIDE DEF pc, leg
<1>6. QED
  BY <1>4, <1>5 DEF Place

\* A process at rest that is given a place, a leg and a view of the group.
LEMMA IdleGiven ==
  ASSUME NEW l \in Labels, NEW s \in RotationStates, NEW n \in 0..(Len(Requested) + 1)
  PROVE  /\ [Idle EXCEPT !.pc = l] \in Place
         /\ [Idle EXCEPT !.pc = l, !.saw = s, !.leg = n] \in Place
         /\ [Idle EXCEPT !.saw = s, !.pc = l] \in Place
BY IdleTyped DEF Place

\* The processes stay where the program has a place for them.
LEMMA PlacesTyped ==
  ASSUME TypeOK, Next
  PROVE  at' \in [Actors -> Place]
<1>1. /\ at \in [Actors -> Place] /\ state \in RotationStates /\ state' \in RotationStates
      /\ "listener" \in Actors /\ "scanner" \in Actors
  BY Types, StateMoves, MovesKeep DEF Actors
<1>2. /\ { "idle", "authorize", "look", "leg", "execute", "create", "fail", "submitted", "record",
           "marked", "track", "reconcile", "entry", "prepare", "dispatch", "buy", "link" } \subseteq Labels
      /\ { "reconciliation_pending", "reconciled" } \subseteq RotationStates
      /\ 1 \in 0..(Len(Requested) + 1) /\ 0 \in 0..(Len(Requested) + 1)
  BY LegsAre DEF Labels, RotationStates
<1>3. ASSUME NEW a \in Actors, NEW l \in Labels, Goto(a, l) \/ Stop(a) PROVE at' \in [Actors -> Place]
  BY <1>3, GotoMoves, StopMoves
<1>4. CASE UNCHANGED at
  BY <1>1, <1>4
<1>5. CASE Command \/ RejectCommand \/ BeginCycle \/ ReconcileRaises \/ \E a \in Actors : Crash(a)
  BY <1>1, <1>2, <1>3, <1>5 DEF Command, RejectCommand, BeginCycle, ReconcileRaises, Crash
<1>6. CASE ApproveCommand
  <2> DEFINE r == IF approval' # approval \/ late
                    THEN [at["listener"] EXCEPT !.pc = "leg", !.leg = 1, !.todo = Legs] ELSE Idle
  <2>1. at' = [at EXCEPT !["listener"] = r]
    BY <1>6 DEF ApproveCommand
  <2>2. r \in Place
    BY <1>1, <1>2, IdleTyped DEF Place
  <2> HIDE DEF r
  <2>3. QED
    BY <1>1, <2>1, <2>2
<1>7. ASSUME NEW a \in Actors, Leg(a) PROVE at' \in [Actors -> Place]
  <2>1. CASE RecordLeg(a)
    <3>1. CASE at' = [at EXCEPT ![a] = NextLeg(@)]
      BY <1>1, <3>1, NextLegTyped
    <3>2. QED
      BY <1>2, <1>3, <2>1, <3>1 DEF RecordLeg
  <2>2. CASE MarkConsumed(a)
    <3> DEFINE r == IF a = "listener" THEN Idle
                    ELSE [Idle EXCEPT !.pc = "track", !.saw = state, !.leg = 1]
    <3>1. at' = [at EXCEPT ![a] = r]
      BY <2>2 DEF MarkConsumed
    <3>2. r \in Place
      BY <1>1, <1>2, IdleTyped, IdleGiven
    <3> HIDE DEF r
    <3>3. QED
      BY <1>1, <3>1, <3>2
  <2>3. CASE BeginLeg(a) \/ ExecuteLeg(a)
    BY <1>2, <1>3, <2>3 DEF BeginLeg, ExecuteLeg
  <2>4. CASE CreateLeg(a)
    BY <1>2, <1>3, <2>4 DEF CreateLeg
  <2>5. CASE MarkSubmitted(a) \/ FailExit(a)
    BY <1>2, <1>3, <2>5 DEF MarkSubmitted, FailExit
  <2>6. QED
    BY <1>7, <2>1, <2>2, <2>3, <2>4, <2>5 DEF Leg
<1>8. ASSUME NEW r, r \in Place, Scan(r) PROVE at' \in [Actors -> Place]
  BY <1>8, ScanMoves
<1>9. CASE Look
  <2> DEFINE missing == { l \in Legs : ~step[l].linked }
             todo == IF state = "approved_exit_pending" THEN Legs
                     ELSE IF state \in ExitActive THEN missing ELSE {}
             pc == IF ~needs_recovery THEN "idle"
                   ELSE IF state = "pending_group_approval" THEN "authorize"
                   ELSE IF todo = {} THEN "track" ELSE "leg"
             leg == IF pc = "leg" THEN Min(todo) ELSE 1
             list == IF pc = "leg" THEN todo ELSE {}
  <2>1. Scan([pc |-> pc, leg |-> leg, saw |-> state, todo |-> list])
    BY <1>9 DEF Look
  <2>2. todo \in SUBSET Legs /\ pc \in Labels /\ (pc = "leg" => todo # {})
    BY <1>2
  <2> HIDE DEF todo, pc
  <2>3. leg \in 0..(Len(Requested) + 1) /\ list \in SUBSET Legs
    <3>1. todo \in SUBSET (0..Len(Requested)) /\ Len(Requested) \in Nat
      BY <2>2, LegsAre
    <3>2. pc = "leg" => Min(todo) \in todo
      BY <2>2, <3>1, MinLeast
    <3>3. pc = "leg" => Min(todo) \in 0..Len(Requested)
      BY <3>1, <3>2
    <3>4. leg \in 0..(Len(Requested) + 1)
      BY <1>2, <3>1, <3>3
    <3>5. QED
      BY <2>2, <3>4
  <2> HIDE DEF leg, list
  <2>4. [pc |-> pc, leg |-> leg, saw |-> state, todo |-> list] \in Place
    BY <1>1, <2>2, <2>3 DEF Place
  <2>5. QED
    BY <1>8, <2>1, <2>4
<1>10. CASE Authorize
  <2>1. [pc |-> "leg", leg |-> 1, saw |-> state', todo |-> Legs] \in Place
    BY <1>1, <1>2 DEF Place
  <2>2. QED
    BY <1>1, <1>2, <1>3, <1>8, <1>10, <2>1 DEF Authorize
<1>11. CASE TrackLeg
  <2>1. at["scanner"].leg \in Legs
    BY <1>11 DEF TrackLeg
  <2>2. [at["scanner"] EXCEPT !.leg = at["scanner"].leg + 1] \in Place
    BY <1>1, <2>1, LegsAre DEF Place
  <2>3. [Idle EXCEPT !.pc = "fail"] \in Place
    BY <1>1, <1>2, IdleGiven
  <2>4. \/ Scan([at["scanner"] EXCEPT !.leg = at["scanner"].leg + 1])
        \/ Stop("scanner") \/ Scan([Idle EXCEPT !.pc = "fail"])
    BY <1>11 DEF TrackLeg
  <2>5. QED
    BY <1>1, <1>2, <1>3, <1>8, <2>2, <2>3, <2>4
<1>12. CASE EndTrack
  <2> DEFINE begins == state = "exit_filled" \/ (AllowPartial /\ state = "exit_partially_filled")
             saw == IF begins THEN "reconciliation_pending" ELSE Saw
             pc == IF saw = "reconciliation_pending" THEN "reconcile"
                   ELSE IF saw = "reconciled" THEN "entry"
                   ELSE IF saw \in { "entry_revalidating", "entry_reserved", "entry_submitted" }
                   THEN "link" ELSE "idle"
  <2>1. Scan([Idle EXCEPT !.saw = saw, !.pc = pc])
    BY <1>12 DEF EndTrack
  <2>2. saw \in RotationStates /\ pc \in Labels
    BY <1>1, <1>2 DEF Saw, Place
  <2> HIDE DEF saw, pc
  <2>3. QED
    BY <1>2, <1>8, <2>1, <2>2, IdleGiven
<1>13. CASE Reconcile
  <2>1. [Idle EXCEPT !.pc = "entry", !.saw = "reconciled"] \in Place
    BY <1>2, IdleTyped DEF Place
  <2>2. QED
    BY <1>1, <1>2, <1>3, <1>8, <1>13, <2>1 DEF Reconcile
<1>14. CASE RevalidateEntry \/ PrepareEntry \/ DispatchEntry \/ BuyEntry
  BY <1>1, <1>2, <1>3, <1>14 DEF RevalidateEntry, PrepareEntry, DispatchEntry, BuyEntry, BlockEntry
<1>15. CASE LinkEntry
  BY <1>1, <1>2, <1>3, <1>4, <1>15 DEF LinkEntry, BlockEntry
<1>16. CASE \/ EntryOrder \/ Expires
            \/ \E l \in Legs : ExitAnswered(l) \/ ExitFills(l) \/ ExitEnds(l)
  BY <1>4, <1>16 DEF EntryOrder, Expires, ExitAnswered, ExitFills, ExitEnds, MoveExit
<1>17. QED
  BY <1>1, <1>5, <1>6, <1>7, <1>9, <1>10, <1>11, <1>12, <1>13, <1>14, <1>15, <1>16
     DEF Next, Listener, Scanner

(***************************************************************************)
(* The inductive invariant is kept.                                        *)
(***************************************************************************)

\* An order for the entry comes from a group that has come to it.
LEMMA EntryStaysCommitted ==
  ASSUME TypeOK, EntryIsCommitted, Next
  PROVE  EntryIsCommitted'
<1>1. state \in Committed => state' \in Committed
  BY StateMoves, MovesKeep
<1>2. /\ at \in [Actors -> Place] /\ "listener" \in Actors /\ "scanner" \in Actors
      /\ "listener" # "scanner"
  BY Types DEF Actors
<1>3. CASE In("scanner", "buy") \/ eord # "none"
  BY <1>1, <1>3 DEF EntryIsCommitted
<1>4. CASE DispatchEntry
  <2>1. CASE BlockEntry /\ eord' = eord
    BY <1>3, <2>1, BlockEntryMoves DEF EntryIsCommitted, In
  <2>2. CASE state = "entry_revalidating" /\ UNCHANGED state
    BY <2>2 DEF EntryIsCommitted, Committed
  <2>3. QED
    BY <1>4, <2>1, <2>2 DEF DispatchEntry, outside
<1>5. CASE eord' = eord /\ (at'["scanner"].pc # "buy" \/ at'["scanner"].pc = at["scanner"].pc)
  BY <1>3, <1>5 DEF EntryIsCommitted, In
<1>6. ASSUME NEW a \in Actors, NEW l \in Labels, l # "buy", eord' = eord, Goto(a, l) \/ Stop(a)
      PROVE  EntryIsCommitted'
  BY <1>2, <1>5, <1>6, GotoMoves, StopMoves
<1>7. ASSUME NEW r \in Place, r.pc # "buy", eord' = eord, Scan(r) PROVE EntryIsCommitted'
  BY <1>5, <1>7, ScanMoves
<1>8. { "idle", "authorize", "look", "leg", "execute", "create", "fail", "submitted", "record",
        "marked", "track", "reconcile", "entry", "prepare", "dispatch", "link" } \subseteq Labels
  BY DEF Labels
<1>9. CASE Command \/ RejectCommand \/ BeginCycle \/ ReconcileRaises \/ \E a \in Actors : Crash(a)
  BY <1>2, <1>6, <1>8, <1>9
     DEF Command, RejectCommand, BeginCycle, ReconcileRaises, Crash, outside, buys
<1>10. CASE ApproveCommand
  BY <1>2, <1>5, <1>10 DEF ApproveCommand, outside
<1>11. ASSUME NEW a \in Actors, Leg(a) PROVE EntryIsCommitted'
  <2>1. CASE RecordLeg(a)
    <3>1. (NextLeg(at[a])).pc # "buy"
      BY <1>2, NextLegTyped DEF NextLeg, Place
    <3>2. CASE at' = [at EXCEPT ![a] = NextLeg(@)]
      BY <1>2, <1>5, <2>1, <3>1, <3>2 DEF RecordLeg, buys
    <3>3. QED
      BY <1>6, <1>8, <2>1, <3>2 DEF RecordLeg, buys
  <2>2. CASE MarkConsumed(a)
    <3>1. Idle.pc # "buy" /\ [Idle EXCEPT !.pc = "track", !.saw = state, !.leg = 1].pc # "buy"
      BY DEF Idle
    <3>2. QED
      BY <1>2, <1>5, <2>2, <3>1 DEF MarkConsumed, buys
  <2>3. CASE BeginLeg(a) \/ ExecuteLeg(a) \/ MarkSubmitted(a) \/ FailExit(a)
    BY <1>6, <1>8, <2>3 DEF BeginLeg, ExecuteLeg, MarkSubmitted, FailExit, outside, buys
  <2>4. CASE CreateLeg(a)
    BY <1>6, <1>8, <2>4 DEF CreateLeg, buys
  <2>5. QED
    BY <1>11, <2>1, <2>2, <2>3, <2>4 DEF Leg
<1>12. CASE Look
  <2>1. at'["scanner"].pc # "buy"
    BY <1>2, <1>12 DEF Look, Scan
  <2>2. QED
    BY <1>5, <1>12, <2>1 DEF Look, buys
<1>13. CASE Authorize \/ TrackLeg \/ EndTrack \/ Reconcile
  <2>1. at'["scanner"].pc # "buy" \/ at'["scanner"].pc = at["scanner"].pc
    <3>1. CASE Authorize
      BY <1>2, <3>1 DEF Authorize, Scan, Stop, Idle
    <3>2. CASE TrackLeg
      <4>1. [at["scanner"] EXCEPT !.leg = at["scanner"].leg + 1].pc = at["scanner"].pc
        BY <1>2 DEF Place
      <4>2. \/ Scan([at["scanner"] EXCEPT !.leg = at["scanner"].leg + 1])
            \/ Stop("scanner") \/ Scan([Idle EXCEPT !.pc = "fail"])
        BY <3>2 DEF TrackLeg
      <4>3. Idle.pc # "buy" /\ [Idle EXCEPT !.pc = "fail"].pc # "buy"
        BY DEF Idle
      <4>4. QED
        BY <1>2, <4>1, <4>2, <4>3 DEF Scan, Stop
    <3>3. CASE EndTrack
      <4> DEFINE begins == state = "exit_filled" \/ (AllowPartial /\ state = "exit_partially_filled")
                 saw == IF begins THEN "reconciliation_pending" ELSE Saw
                 pc == IF saw = "reconciliation_pending" THEN "reconcile"
                       ELSE IF saw = "reconciled" THEN "entry"
                       ELSE IF saw \in { "entry_revalidating", "entry_reserved", "entry_submitted" }
                       THEN "link" ELSE "idle"
      <4>1. Scan([Idle EXCEPT !.saw = saw, !.pc = pc]) /\ pc # "buy"
        BY <3>3 DEF EndTrack
      <4> HIDE DEF saw, pc
      <4>2. [Idle EXCEPT !.saw = saw, !.pc = pc].pc = pc
        BY DEF Idle
      <4>3. QED
        BY <1>2, <4>1, <4>2 DEF Scan
    <3>4. CASE Reconcile
      <4>1. Idle.pc # "buy" /\ [Idle EXCEPT !.pc = "entry", !.saw = "reconciled"].pc # "buy"
        BY DEF Idle
      <4>2. Scan([Idle EXCEPT !.pc = "entry", !.saw = "reconciled"]) \/ Stop("scanner")
        BY <3>4 DEF Reconcile
      <4>3. QED
        BY <1>2, <4>1, <4>2 DEF Scan, Stop
    <3>5. QED
      BY <1>13, <3>1, <3>2, <3>3, <3>4
  <2>2. QED
    BY <1>5, <1>13, <2>1 DEF Authorize, TrackLeg, EndTrack, Reconcile, outside, buys
<1>14. CASE RevalidateEntry \/ PrepareEntry
  BY <1>2, <1>6, <1>8, <1>14 DEF RevalidateEntry, PrepareEntry, BlockEntry, outside
<1>15. CASE BuyEntry
  BY <1>3, <1>15 DEF BuyEntry
<1>16. CASE LinkEntry
  BY <1>2, <1>5, <1>6, <1>8, <1>16 DEF LinkEntry, BlockEntry, outside
<1>17. CASE EntryOrder
  BY <1>3, <1>17 DEF EntryOrder
<1>18. CASE Expires \/ \E l \in Legs : ExitAnswered(l) \/ ExitFills(l) \/ ExitEnds(l)
  BY <1>5, <1>18 DEF Expires, ExitAnswered, ExitFills, ExitEnds, MoveExit
<1>19. QED
  BY <1>2, <1>4, <1>9, <1>10, <1>11, <1>12, <1>13, <1>14, <1>15, <1>16, <1>17, <1>18
     DEF Next, Listener, Scanner

\* Nothing moves before the operator has decided, or after a rejection.
LEMMA StillNothingMoved ==
  ASSUME TypeOK, NothingMoved, Next
  PROVE  NothingMoved'
<1> SUFFICES ASSUME state' \in { "pending_group_approval", "rejected" }
             PROVE  /\ \A l \in Legs : ord'[l].state = "none" /\ ~step'[l].linked
                    /\ at'["listener"].pc \in
                         (IF state' = "rejected" THEN { "idle" } ELSE { "idle", "authorize" })
                    /\ at'["scanner"].pc \in { "idle", "look", "authorize" }
  BY DEF NothingMoved
<1>1. \/ state' = state
      \/ state = "pending_group_approval" /\ state' = "rejected"
  BY StateMoves, MovesKeep
<1>2. /\ \A l \in Legs : ord[l].state = "none" /\ ~step[l].linked
      /\ at["listener"].pc \in (IF state = "rejected" THEN { "idle" } ELSE { "idle", "authorize" })
      /\ at["scanner"].pc \in { "idle", "look", "authorize" }
  BY <1>1 DEF NothingMoved
<1>3. /\ at \in [Actors -> Place] /\ "listener" \in Actors /\ "scanner" \in Actors
      /\ { "idle", "look", "authorize" } \subseteq Labels /\ Actors = { "listener", "scanner" }
  BY Types DEF Actors, Labels
<1>4. \A a \in Actors : ~Leg(a)
  BY <1>2, <1>3 DEF Leg, BeginLeg, ExecuteLeg, CreateLeg, MarkSubmitted, RecordLeg, FailExit,
                    MarkConsumed, In
<1>5. \A l \in Legs : ~ExitAnswered(l) /\ ~ExitFills(l) /\ ~ExitEnds(l)
  BY <1>2 DEF ExitAnswered, ExitFills, ExitEnds
<1>6. /\ ~TrackLeg /\ ~EndTrack /\ ~Reconcile /\ ~ReconcileRaises
      /\ ~RevalidateEntry /\ ~PrepareEntry /\ ~DispatchEntry /\ ~BuyEntry /\ ~LinkEntry
  BY <1>2 DEF TrackLeg, EndTrack, Reconcile, ReconcileRaises, RevalidateEntry, PrepareEntry,
              DispatchEntry, BuyEntry, LinkEntry, In
<1>7. CASE Command
  BY <1>2, <1>3, <1>7, GotoMoves DEF Command, exits
<1>8. CASE ApproveCommand
  <2>1. state' = "pending_group_approval" /\ state = "pending_group_approval"
    BY <1>1, <1>2, <1>8, ApproveMoves DEF ApproveCommand
  <2>2. ~late /\ approval' = approval
    BY <1>8, <2>1, ApproveMoves DEF ApproveCommand
  <2>3. at' = [at EXCEPT !["listener"] = Idle]
    BY <1>8, <2>2 DEF ApproveCommand
  <2>4. QED
    BY <1>2, <1>3, <1>8, <2>1, <2>3, IdleTyped DEF ApproveCommand, outside
<1>9. CASE RejectCommand
  BY <1>2, <1>3, <1>9, StopMoves DEF RejectCommand, outside
<1>10. CASE BeginCycle
  <2>1. state' = state
    BY <1>1, <1>10 DEF BeginCycle, Transition, Moved
  <2>2. QED
    BY <1>2, <1>3, <1>10, <2>1, GotoMoves DEF BeginCycle, outside
<1>11. CASE Look
  <2>1. state' = state /\ ord' = ord /\ step' = step /\ at'["listener"] = at["listener"]
    BY <1>3, <1>11 DEF Look, exits, Scan
  <2>2. state = "rejected" => ~needs_recovery
    BY <1>2 DEF needs_recovery, TERMINAL_STATES
  <2>3. at'["scanner"].pc \in { "idle", "authorize" }
    BY <1>1, <1>3, <1>11, <2>1, <2>2 DEF Look, Scan
  <2>4. QED
    BY <1>2, <2>1, <2>3
<1>12. CASE Authorize
  <2>1. state' = state
    BY <1>1, <1>12, ApproveMoves DEF Authorize
  <2>2. Stop("scanner")
    BY <1>12, <2>1 DEF Authorize
  <2>3. QED
    BY <1>2, <1>3, <1>12, <2>1, <2>2, StopMoves DEF Authorize, outside
<1>13. CASE EntryOrder \/ Expires
  BY <1>2, <1>13 DEF EntryOrder, Expires, inside
<1>14. CASE \E a \in Actors : Crash(a)
  BY <1>2, <1>3, <1>14, StopMoves DEF Crash, inside
<1>15. QED
  BY <1>3, <1>4, <1>5, <1>6, <1>7, <1>8, <1>9, <1>10, <1>11, <1>12, <1>13, <1>14
     DEF Next, Listener, Scanner

\* The invariant holds in the initial state.
LEMMA IInvInit == Init => IInv
<1> SUFFICES ASSUME Init PROVE IInv
  OBVIOUS
<1>1. /\ Expected \in Nat /\ Displayed \in Nat /\ MaxCrashes \in Nat
      /\ \A l \in Legs : Requested[l] \in Nat
  BY LegsAre, RequestedWithin, RotationAssumption
<1>2. TypeOK
  <2>1. /\ [linked |-> FALSE, filled |-> 0, state |-> "pending"] \in Step
        /\ [state |-> "none", filled |-> 0] \in Order
        /\ [state |-> "contingent", quantity |-> 0] \in Entry
    BY <1>1 DEF Step, Order, OrderStates, Entry
  <2>2. state \in RotationStates /\ late \in BOOLEAN /\ approval \in { "none", "active", "exit_submitted" }
    BY DEF Init, RotationStates
  <2>3. released \in 0..Expected /\ crashes \in 0..MaxCrashes
    BY <1>1 DEF Init
  <2>4. step \in [Legs -> Step] /\ ord \in [Legs -> Order] /\ entry \in Entry
    BY <2>1 DEF Init
  <2>5. prop \in [Legs -> Proposals] /\ eprop \in Proposals /\ eord \in EntryOrders
    BY DEF Init, Proposals, EntryOrders
  <2>6. at \in [Actors -> Place]
    BY IdleTyped DEF Init
  <2>7. QED
    BY <2>2, <2>3, <2>4, <2>5, <2>6, Types
<1>3. ReleaseIsRecorded
  <2> DEFINE f == [l \in Legs |-> step[l].filled]
  <2>1. \A l \in Legs : f[l] = 0
    BY DEF Init
  <2>2. total(f, Legs) = 0
    BY <2>1, LegsAre, TotalZero
  <2>3. QED
    BY <1>1, <2>2, SummedIsTotal DEF Init, ReleaseIsRecorded, released_by
<1>4. EntryFits /\ EntryIsCommitted /\ NothingMoved
  BY DEF Init, EntryFits, EntryIsCommitted, NothingMoved, In, Idle, Actors
<1>5. QED
  BY <1>2, <1>3, <1>4 DEF IInv

\* Every step keeps it.
LEMMA IInvNext == IInv /\ [Next]_vars => IInv'
<1> SUFFICES ASSUME IInv, [Next]_vars PROVE IInv'
  OBVIOUS
<1>1. CASE Next
  <2>1. state' \in RotationStates
    BY <1>1, Types, StateMoves, MovesKeep DEF IInv
  <2>2. TypeOK'
    BY <1>1, <2>1, OrdersFill, ReleaseFollows, EntryMoves, OthersTyped, PlacesTyped
       DEF IInv, TypeOK, Place, Step, Entry, EntryOrders
  <2>3. EntryFits'
    <3>1. /\ released \in Nat /\ released' \in Nat /\ released' >= released
          /\ entry.quantity \in Nat /\ entry'.quantity \in Nat /\ entry.quantity <= released
      BY <1>1, Types, ReleaseFollows, EntryMoves, RequestedWithin, RotationAssumption
         DEF IInv, EntryFits, Entry
    <3>2. entry'.quantity \in { 0, entry.quantity } \/ entry'.quantity <= released
      BY <1>1, EntryMoves DEF IInv
    <3>3. QED
      BY <3>1, <3>2 DEF EntryFits
  <2>4. QED
    BY <1>1, <2>2, <2>3, ReleaseFollows, EntryStaysCommitted, StillNothingMoved DEF IInv
<1>2. CASE UNCHANGED vars
  BY <1>2 DEF vars, IInv, TypeOK, ReleaseIsRecorded, released_by, EntryFits, EntryIsCommitted,
              NothingMoved, In
<1>3. QED
  BY <1>1, <1>2

(***************************************************************************)
(* The theorems.                                                           *)
(***************************************************************************)

\* The inductive invariant holds of every behaviour of the two processes.
THEOREM IInvHolds == Spec => []IInv
BY IInvInit, IInvNext, PTL DEF Spec

\* The tables and the two processes keep their types.
THEOREM RotationIsTyped == Spec => []TypeOK
<1>1. IInv => TypeOK
  BY DEF IInv
<1>2. QED
  BY <1>1, IInvHolds, PTL

\* The entry of _submit_revalidated_rotation_entry stays within what the exits
\* have sold at the broker, and a group that was rejected, cancelled or failed
\* has no order for it.
THEOREM EntryStaysWithinRelease == Spec => []EntryWithinRelease
<1>1. IInv => EntryWithinRelease
  <2> SUFFICES ASSUME IInv, eord # "none" PROVE EntryWithinRelease
    BY DEF EntryWithinRelease
  <2>1. TypeOK /\ state \in Committed
    BY DEF IInv, EntryIsCommitted
  <2>2. entry.quantity \in Nat /\ entry.quantity <= Displayed /\ entry.quantity <= released
    BY <2>1, Types, RotationAssumption DEF IInv, EntryFits, Entry
  <2> DEFINE recorded == [l \in Legs |-> step[l].filled]
             sold == [l \in Legs |-> ord[l].filled]
  <2>3. \A l \in Legs : recorded[l] \in Int /\ sold[l] \in Int /\ recorded[l] <= sold[l]
    BY <2>1, Types, RequestedWithin DEF IInv, ReleaseIsRecorded, Step, Order
  <2>4. \A l \in Legs : sold[l] \in Int
    BY <2>3
  <2>5. released = total(recorded, Legs) /\ Summed(sold) = total(sold, Legs)
    BY SummedIsTotal DEF IInv, ReleaseIsRecorded, released_by
  <2> HIDE DEF recorded, sold
  <2>6. total(recorded, Legs) <= total(sold, Legs)
    BY <2>3, LegsAre, TotalMonotone
  <2>7. total(sold, Legs) \in Int /\ released \in Int
    BY <2>1, <2>4, LegsAre, TotalInt, Types, RequestedWithin
  <2>8. entry.quantity <= Summed(sold)
    BY <2>2, <2>5, <2>6, <2>7
  <2>9. state \notin { "rejected", "cancelled", "exit_failed" }
    BY <2>1 DEF Committed
  <2>10. QED
    BY <2>2, <2>8, <2>9 DEF EntryWithinRelease, sold
<1>2. QED
  BY <1>1, IInvHolds, PTL

\* The operator's rejection is final for both processes: no leg of the group
\* has been ordered, whatever the scanner was about to do.
THEOREM RejectionMovesNothing == Spec => []RejectedMovesNothing
<1>1. IInv => RejectedMovesNothing
  BY DEF IInv, NothingMoved, RejectedMovesNothing
<1>2. QED
  BY <1>1, IInvHolds, PTL

\* Every write of rotation_groups.state is a move of ALLOWED_TRANSITIONS, also
\* where the code does not ask _require_transition.
THEOREM MovesStayAllowed == Spec => MovesAreAllowed
<1>1. TypeOK /\ [Next]_vars => [state' = state \/ << state, state' >> \in ALLOWED_TRANSITIONS]_vars
  BY StateMoves
<1>2. QED
  BY <1>1, RotationIsTyped, PTL DEF Spec, MovesAreAllowed

\* A group that has ended is not revived by a late fill, command or cycle.
THEOREM EndsStay == Spec => EndedStaysEnded
<1>1. TypeOK /\ [Next]_vars => [(state \in TERMINAL_STATES) => (state' = state)]_vars
  BY StateMoves, MovesKeep
<1>2. QED
  BY <1>1, RotationIsTyped, PTL DEF Spec, EndedStaysEnded

\* record_exit_fill never takes back what it recorded as released.
THEOREM ReleaseOnlyGrows == Spec => ReleaseGrows
<1>1. IInv /\ [Next]_vars => [released' >= released]_vars
  BY ReleaseFollows DEF IInv
<1>2. QED
  BY <1>1, IInvHolds, PTL DEF Spec, ReleaseGrows
=============================================================================
