------------------------------ MODULE Rotation ------------------------------
(***************************************************************************)
(* One rotation group: exit legs of a position first, then, from what they *)
(* really released, one contingent entry.  app/rotation_coordinator.py and *)
(* the two callers in app/service.py: the listener, which takes the        *)
(* operator's command, and the scanner, which advances every group in its  *)
(* cycle.  They run in two processes.  Quantities are at one price; the    *)
(* orders behave as OrderExecution describes, seen here from outside.      *)
(***************************************************************************)
EXTENDS Integers, FiniteSetsExt, Sequences

CONSTANTS
  Requested,     \* quantity of each exit leg, in their sequence
  Displayed,     \* ceiling of the entry that the operator was shown
  AllowPartial,  \* rotation.allow_partial_fill_reallocation
  MaxCrashes     \* bounds crashes, and cycles that find the account without cash

ASSUME RotationAssumption ==
  /\ Requested \in Seq(Nat \ {0}) /\ Displayed \in Nat /\ AllowPartial \in BOOLEAN
  /\ MaxCrashes \in Nat

Legs == DOMAIN Requested
Summed(f) == MapThenSumSet(LAMBDA l : f[l], Legs)
Expected == Summed(Requested)
Actors == { "listener", "scanner" }

TERMINAL_STATES == { "completed", "rejected", "expired", "exit_failed",
                     "entry_blocked", "cancelled" }

ExitActive == { "exit_submitted", "exit_partially_filled" }

RotationStates == TERMINAL_STATES \cup ExitActive \cup
  { "pending_group_approval", "approved_exit_pending", "exit_filled", "reconciliation_pending",
    "reconciled", "entry_revalidating", "entry_reserved", "entry_submitted" }

ALLOWED_TRANSITIONS ==
  UNION { { "pending_group_approval" } \X { "approved_exit_pending", "rejected", "expired", "cancelled" },
          { "approved_exit_pending" } \X { "exit_submitted", "exit_failed", "expired", "cancelled" },
          { "exit_submitted" } \X { "exit_partially_filled", "exit_filled", "exit_failed", "expired" },
          { "exit_partially_filled" } \X { "exit_partially_filled", "exit_filled",
                                           "reconciliation_pending", "exit_failed", "expired" },
          { "exit_filled" } \X { "reconciliation_pending" },
          { "reconciliation_pending" } \X { "reconciled", "entry_blocked" },
          { "reconciled" } \X { "entry_revalidating", "entry_blocked", "expired" },
          { "entry_revalidating" } \X { "reconciled", "entry_reserved", "entry_blocked", "expired" },
          { "entry_reserved" } \X { "entry_submitted", "entry_blocked" },
          { "entry_submitted" } \X { "completed", "entry_blocked" } }

OrderStates == { "none", "sending", "live", "ended" }
Proposals == { "pending", "approved", "submitted", "blocked", "rejected" }

VARIABLES
  state,      \* rotation_groups.state
  approval,   \* rotation_group_approvals: none, active, or exit_submitted and consumed
  late,       \* the group's expiry has passed
  released,   \* actual_released_notional, as recorded
  step,       \* rotation_steps: linked intent, recorded fill, state
  prop,       \* status of the legs' proposals
  ord,        \* the exit orders
  entry,      \* rotation_contingent_entries: state, final quantity
  eprop,      \* status of the entry's proposal
  eord,       \* the entry order
  at,         \* where each process is, in which leg, and the group state it has read
  crashes

vars == << state, approval, late, released, step, prop, ord, entry, eprop, eord, at, crashes >>

Order == [state : OrderStates, filled : 0..Expected]
Labels == { "idle", "authorize", "look", "leg", "execute", "create", "fail", "submitted",
            "record", "marked", "track", "reconcile", "entry", "prepare", "dispatch", "buy", "link" }

TypeOK ==
  /\ state \in RotationStates /\ late \in BOOLEAN
  /\ approval \in { "none", "active", "exit_submitted" }
  /\ released \in 0..Expected
  /\ step \in [Legs -> [linked : BOOLEAN, filled : 0..Expected,
                       state : { "pending", "submitted", "partially_filled", "filled", "terminal" }]]
  /\ prop \in [Legs -> Proposals] /\ ord \in [Legs -> Order]
  /\ entry \in [state : { "contingent", "revalidated", "reserved", "submitted", "blocked" },
               quantity : 0..Displayed]
  /\ eprop \in Proposals /\ eord \in { "none", "sending", "live", "filled", "ended" }
  /\ at \in [Actors -> [pc : Labels, leg : 0..(Len(Requested) + 1), saw : RotationStates, todo : SUBSET Legs]]
  /\ crashes \in 0..MaxCrashes

Idle == [pc |-> "idle", leg |-> 0, saw |-> "pending_group_approval", todo |-> {}]

Init ==
  /\ state = "pending_group_approval" /\ approval = "none" /\ late = FALSE /\ released = 0
  /\ step = [l \in Legs |-> [linked |-> FALSE, filled |-> 0, state |-> "pending"]]
  /\ prop = [l \in Legs |-> "pending"] /\ ord = [l \in Legs |-> [state |-> "none", filled |-> 0]]
  /\ entry = [state |-> "contingent", quantity |-> 0] /\ eprop = "pending" /\ eord = "none"
  /\ at = [a \in Actors |-> Idle] /\ crashes = 0

exits == << step, prop, ord >>
buys == << entry, eprop, eord >>
outside == << late, ord, eord, crashes >>

Goto(a, l) == at' = [at EXCEPT ![a].pc = l]
Stop(a) == at' = [at EXCEPT ![a] = Idle]

(***************************************************************************)
(* The group's state.                                                      *)
(***************************************************************************)

\* Mutant: any move out of a state that is not terminal is taken.
may_move_anywhere(s) == state \notin TERMINAL_STATES

\* _require_transition
may_move(s) == << state, s >> \in ALLOWED_TRANSITIONS

\* The group moves to s; at the end of a group its entry is blocked.
Moved(s) ==
  /\ state' = s
  /\ IF s \in TERMINAL_STATES
       THEN /\ entry' = [entry EXCEPT !.state =
                          IF @ \in { "contingent", "revalidated" } THEN "blocked" ELSE @]
            /\ eprop' = IF eprop \in { "pending", "approved" } THEN "blocked" ELSE eprop
       ELSE UNCHANGED << entry, eprop >>

\* transition: nothing for a group that is there or has ended.  Where the code
\* raises, the caller's command or cycle ends, which is what Stop says.
Transition(s) ==
  IF state \notin TERMINAL_STATES /\ state # s /\ may_move(s) THEN Moved(s)
  ELSE UNCHANGED << state, entry, eprop >>

(***************************************************************************)
(* Approval.                                                               *)
(***************************************************************************)

\* What approve records, in the transaction that sees the group pending.
Approve(a) ==
  \/ /\ late /\ Transition("expired") /\ UNCHANGED approval
  \/ /\ Transition("cancelled") /\ UNCHANGED approval            \* its authority changed
  \/ /\ ~late /\ state = "pending_group_approval"
     /\ Moved("approved_exit_pending") /\ approval' = "active"

\* _handle_rotation_command: a command for a group that was pending.
Command ==
  /\ at["listener"].pc = "idle" /\ state = "pending_group_approval"
  /\ Goto("listener", "authorize")
  /\ UNCHANGED << state, approval, released, exits, buys, late, crashes >>

ApproveCommand ==
  /\ at["listener"].pc = "authorize" /\ Approve("listener")
  /\ at' = [at EXCEPT !["listener"] = IF approval' # approval \/ late
                                        THEN [@ EXCEPT !.pc = "leg", !.leg = 1, !.todo = Legs]
                                        ELSE Idle]
  /\ UNCHANGED << released, step, prop, outside >>

RejectCommand ==
  /\ at["listener"].pc = "authorize" /\ Transition("rejected") /\ Stop("listener")
  /\ prop' = IF state' = "rejected"
               THEN [l \in Legs |-> IF prop[l] = "pending" THEN "rejected" ELSE prop[l]]
               ELSE prop
  /\ UNCHANGED << approval, released, step, outside >>

(***************************************************************************)
(* One exit leg, by either process.                                        *)
(***************************************************************************)
In(a, l) == at[a].pc = l

\* The next leg that the process still has to do, or the end of its list.
NextLeg(r) == LET left == { l \in r.todo : l > r.leg }
              IN [r EXCEPT !.pc = IF left = {} THEN "marked" ELSE "leg",
                           !.leg = IF left = {} THEN @ ELSE Min(left)]

\* _approve_rotation_exit_step, up to the consumed approval.  The scanner that
\* found the group approved links an order it finds before anything else.
BeginLeg(a) ==
  /\ In(a, "leg")
  /\ LET l == at[a].leg
         known == ord[l].state # "none"
         direct == known /\ a = "scanner" /\ at[a].saw = "approved_exit_pending"
         open == state \notin TERMINAL_STATES /\ ~late /\ prop[l] \in { "pending", "approved" }
     IN \/ (direct \/ (open /\ known)) /\ Goto(a, "record") /\ UNCHANGED prop
        \/ /\ open /\ ~known /\ Goto(a, "execute")
           /\ prop' = [prop EXCEPT ![l] = "approved"]
        \/ ~direct /\ ~(open /\ known) /\ Goto(a, "fail") /\ UNCHANGED prop
  /\ UNCHANGED << state, approval, released, step, buys, outside >>

\* The check beside the executor; refused, the proposal is blocked.
ExecuteLeg(a) ==
  /\ In(a, "execute")
  /\ \/ /\ state \in ExitActive \cup { "approved_exit_pending" } /\ ~late /\ approval # "none"
        /\ Goto(a, "create") /\ UNCHANGED prop
     \/ /\ prop' = [prop EXCEPT ![at[a].leg] = "blocked"] /\ Goto(a, "fail")
  /\ UNCHANGED << state, approval, released, step, buys, outside >>

\* Executor.execute: a sell of the symbol that is active refuses another, an
\* order that exists is returned, and the answer to a new one may be lost.
CreateLeg(a) ==
  /\ In(a, "create")
  /\ LET l == at[a].leg
         active(k) == ord[k].state \in { "sending", "live" }
         reused == ord[l].state = "live" \/ ord[l].filled = Requested[l]
     IN \/ /\ ord[l].state = "none" /\ \A k \in Legs : ~active(k)
           /\ \E s \in { "live", "sending" } :
                /\ ord' = [ord EXCEPT ![l].state = s]
                /\ IF s = "live" THEN Goto(a, "submitted") /\ UNCHANGED prop
                   ELSE Goto(a, "fail") /\ prop' = [prop EXCEPT ![l] = "blocked"]
        \/ /\ reused /\ Goto(a, "submitted") /\ UNCHANGED << ord, prop >>
        \/ /\ ~reused /\ Goto(a, "fail")
           /\ prop' = [prop EXCEPT ![l] = "blocked"] /\ UNCHANGED ord
  /\ UNCHANGED << state, approval, released, step, buys, late, crashes >>

MarkSubmitted(a) ==
  /\ In(a, "submitted") /\ Goto(a, "record")
  /\ prop' = [prop EXCEPT ![at[a].leg] = "submitted"]
  /\ UNCHANGED << state, approval, released, step, buys, outside >>

\* record_exit_submitted; it raises for a group that cannot take the leg.
RecordLeg(a) ==
  /\ In(a, "record")
  /\ IF state \in ExitActive \cup { "approved_exit_pending" }
       THEN /\ state' = IF state \in ExitActive THEN state ELSE "exit_submitted"
            /\ step' = [step EXCEPT ![at[a].leg] =
                         IF @.linked THEN @ ELSE [@ EXCEPT !.linked = TRUE, !.state = "submitted"]]
            /\ at' = [at EXCEPT ![a] = NextLeg(@)]
       ELSE Stop(a) /\ UNCHANGED << state, step >>
  /\ UNCHANGED << approval, released, prop, buys, outside >>

\* fail_exit
FailExit(a) ==
  /\ In(a, "fail") /\ Transition("exit_failed") /\ Stop(a)
  /\ UNCHANGED << approval, released, step, prop, outside >>

\* All legs are done: the approval is used up; the scanner looks again.
MarkConsumed(a) ==
  /\ In(a, "marked")
  /\ approval' = IF approval = "none" THEN approval ELSE "exit_submitted"
  /\ at' = [at EXCEPT ![a] = IF a = "listener" THEN Idle
                               ELSE [Idle EXCEPT !.pc = "track", !.saw = state, !.leg = 1]]
  /\ UNCHANGED << state, released, exits, buys, late, crashes >>

(***************************************************************************)
(* The scanner's cycle, _advance_rotation_workflows.                       *)
(***************************************************************************)
Scan(r) == at' = [at EXCEPT !["scanner"] = r]
Saw == at["scanner"].saw

\* expire_stale
BeginCycle ==
  /\ In("scanner", "idle")
  /\ IF late /\ state \in ExitActive \cup { "pending_group_approval", "approved_exit_pending",
                                         "reconciled" }
       THEN Transition("expired") ELSE UNCHANGED << state, entry, eprop >>
  /\ Goto("scanner", "look")
  /\ UNCHANGED << approval, released, step, prop, outside >>

\* recovery_actions: groups that have not ended, and ended ones of which a
\* linked leg is open or has filled further.
needs_recovery ==
  \/ state \notin TERMINAL_STATES
  \/ \E l \in Legs : step[l].linked /\ ( \/ step[l].state \notin { "filled", "terminal" }
                                        \/ ord[l].filled > step[l].filled )

Look ==
  /\ In("scanner", "look")
  /\ LET missing == { l \in Legs : ~step[l].linked }
         todo == IF state = "approved_exit_pending" THEN Legs
                 ELSE IF state \in ExitActive THEN missing ELSE {}
         pc == IF ~needs_recovery THEN "idle"
               ELSE IF state = "pending_group_approval" THEN "authorize"
               ELSE IF todo = {} THEN "track" ELSE "leg"
     IN Scan([pc |-> pc, leg |-> IF pc = "leg" THEN Min(todo) ELSE 1, saw |-> state,
                todo |-> IF pc = "leg" THEN todo ELSE {}])
  /\ approval' = IF state \in ExitActive THEN "exit_submitted" ELSE approval
  /\ UNCHANGED << state, released, exits, buys, late, crashes >>

\* A pending group is left to the operator, or approved in autonomous mode.
Authorize ==
  /\ In("scanner", "authorize")
  /\ \/ Stop("scanner") /\ UNCHANGED << state, approval, entry, eprop >>
     \/ /\ Approve("scanner")
        /\ IF state' = "approved_exit_pending" /\ state # state'
             THEN Scan([pc |-> "leg", leg |-> 1, saw |-> state', todo |-> Legs])
             ELSE Stop("scanner")
  /\ UNCHANGED << released, step, prop, outside >>

\* Mutant: a fill moves the group on whatever has become of it.
fill_state_reviving(s) ==
  IF \A l \in Legs : s[l].state = "filled" THEN "exit_filled" ELSE "exit_partially_filled"

\* record_exit_fill: a late fill is recorded and revives nothing.
fill_state(s) ==
  IF state \notin ExitActive THEN state
  ELSE IF \A l \in Legs : s[l].state = "filled" THEN "exit_filled" ELSE "exit_partially_filled"

\* Mutant: every recorded fill is added to the total before it.
released_by_accumulated(s) == released + Summed([l \in Legs |-> s[l].filled])

released_by(s) == Summed([l \in Legs |-> s[l].filled])

\* One leg: its fill, and its end.  A leg that ended without a fill breaks the
\* loop over the legs.
TrackLeg ==
  /\ In("scanner", "track") /\ at["scanner"].leg \in Legs
  /\ LET l == at["scanner"].leg
         o == ord[l]
         more == step[l].linked /\ o.filled > step[l].filled
         ended == step[l].linked /\ o.state = "ended" /\ o.filled < Requested[l]
         s == IF more THEN [step EXCEPT ![l].filled = o.filled,
                              ![l].state = IF o.filled = Requested[l] THEN "filled"
                                           ELSE "partially_filled"]
              ELSE step
         stops == ended /\ (o.filled = 0 \/ (Saw \notin TERMINAL_STATES /\ ~AllowPartial))
     IN /\ step' = IF ended /\ o.filled > 0 THEN [s EXCEPT ![l].state = "terminal"] ELSE s
        /\ state' = IF more THEN fill_state(s) ELSE state
        /\ released' = IF more THEN released_by(s) ELSE released
        /\ IF ~stops THEN Scan([at["scanner"] EXCEPT !.leg = l + 1])
           ELSE IF Saw \in TERMINAL_STATES THEN Stop("scanner")
           ELSE Scan([Idle EXCEPT !.pc = "fail"])
  /\ UNCHANGED << approval, prop, buys, outside >>

\* begin_reconciliation, and what the state then asks for.
EndTrack ==
  /\ In("scanner", "track") /\ at["scanner"].leg \notin Legs
  /\ LET begins == state = "exit_filled" \/ (AllowPartial /\ state = "exit_partially_filled")
         saw == IF begins THEN "reconciliation_pending" ELSE Saw
     IN /\ state' = IF begins THEN saw ELSE state
        /\ Scan([Idle EXCEPT !.saw = saw, !.pc =
                    IF saw = "reconciliation_pending" THEN "reconcile"
                    ELSE IF saw = "reconciled" THEN "entry"
                    ELSE IF saw \in { "entry_revalidating", "entry_reserved", "entry_submitted" }
                    THEN "link" ELSE "idle"])
  /\ UNCHANGED << approval, released, exits, buys, late, crashes >>

\* Mutant: the reconciliation asks for the state that begin_reconciliation left.
reconcilable_before == state = "exit_filled"

reconcilable == state = "reconciliation_pending"

\* record_reconciliation; it raises for an account without cash.
Reconcile ==
  /\ In("scanner", "reconcile")
  /\ IF reconcilable /\ released > 0
       THEN state' = "reconciled" /\ Scan([Idle EXCEPT !.pc = "entry", !.saw = "reconciled"])
       ELSE Stop("scanner") /\ UNCHANGED state
  /\ UNCHANGED << approval, released, exits, buys, late, crashes >>

ReconcileRaises ==
  /\ In("scanner", "reconcile") /\ crashes < MaxCrashes
  /\ crashes' = crashes + 1 /\ Stop("scanner")
  /\ UNCHANGED << state, approval, released, exits, buys, late >>

\* Mutant: what the exits were expected to release.
entry_cap_estimated == Min({ Displayed, Expected })

\* revalidate_entry takes the least of the displayed ceiling, the actual
\* release and today's limits.
entry_cap == Min({ Displayed, released })

approval_is_current == approval = "exit_submitted" /\ ~late

BlockEntry == Transition("entry_blocked") /\ Stop("scanner")

\* _submit_revalidated_rotation_entry, up to the sized entry.
RevalidateEntry ==
  /\ In("scanner", "entry")
  /\ \/ BlockEntry
     \/ late /\ Transition("expired") /\ Stop("scanner")
     \/ /\ entry.state = "contingent" /\ approval_is_current /\ state = "reconciled"
        /\ \E q \in 1..entry_cap :
             entry' = [state |-> "revalidated", quantity |-> q]
        /\ state' = "entry_revalidating" /\ Goto("scanner", "prepare")
        /\ UNCHANGED eprop
  /\ UNCHANGED << approval, released, step, prop, outside >>

\* _prepare_rotation_proposal_approval
PrepareEntry ==
  /\ In("scanner", "prepare")
  /\ \/ BlockEntry
     \/ /\ eprop \in { "pending", "approved" } /\ eprop' = "approved"
        /\ Goto("scanner", "dispatch") /\ UNCHANGED << state, entry >>
  /\ UNCHANGED << approval, released, step, prop, outside >>

\* The check beside the executor.
DispatchEntry ==
  /\ In("scanner", "dispatch")
  /\ \/ BlockEntry
     \/ /\ state = "entry_revalidating" /\ approval_is_current
        /\ Goto("scanner", "buy") /\ UNCHANGED << state, entry, eprop >>
  /\ UNCHANGED << approval, released, step, prop, outside >>

\* Executor.execute; an answer that is lost counts as not submitted.
BuyEntry ==
  /\ In("scanner", "buy")
  /\ \/ BlockEntry /\ eord' \in { eord, "sending" }
     \/ eord' = "live" /\ Goto("scanner", "link") /\ UNCHANGED << state, entry, eprop >>
  /\ UNCHANGED << approval, released, step, prop, ord, late, crashes >>

\* record_entry_reserved, record_entry_submitted, complete; an interrupted
\* revalidation without an order starts again.
LinkEntry ==
  /\ In("scanner", "link")
  /\ \/ /\ state = "entry_revalidating" /\ eord = "none"
        /\ state' = "reconciled" /\ entry' = [state |-> "contingent", quantity |-> 0]
        /\ Goto("scanner", "entry") /\ UNCHANGED eprop
     \/ /\ state = "entry_revalidating" /\ eord # "none"
        /\ state' = "entry_reserved" /\ entry' = [entry EXCEPT !.state = "reserved"]
        /\ UNCHANGED << eprop, at >>
     \/ /\ state = "entry_reserved" /\ eord \in { "live", "filled" }
        /\ state' = "entry_submitted" /\ entry' = [entry EXCEPT !.state = "submitted"]
        /\ eprop' = "submitted" /\ UNCHANGED at
     \/ /\ state = "entry_submitted" /\ eord = "filled"
        /\ Moved("completed") /\ Stop("scanner")
     \/ state \in { "entry_reserved", "entry_submitted" } /\ eord = "ended" /\ BlockEntry
     \/ /\ \/ state \notin { "entry_revalidating", "entry_reserved", "entry_submitted" }
           \/ state = "entry_reserved" /\ eord = "sending"
           \/ state = "entry_submitted" /\ eord \in { "sending", "live" }
        /\ Stop("scanner") /\ UNCHANGED << state, entry, eprop >>
  /\ UNCHANGED << approval, released, step, prop, outside >>

(***************************************************************************)
(* Around the two processes.                                               *)
(***************************************************************************)
inside == << state, approval, released, step, prop, entry, eprop >>

\* The orders: an unanswered one is found or not, a live one fills and ends,
\* and a fill may still be reported after the end.
MoveExit(l, s, d) ==
  /\ ord' = [ord EXCEPT ![l] = [state |-> s, filled |-> @.filled + d]]
  /\ UNCHANGED << inside, late, eord, at, crashes >>

ExitAnswered(l) == ord[l].state = "sending" /\ \E s \in { "live", "ended" } : MoveExit(l, s, 0)
ExitFills(l) == /\ ord[l].state \in { "live", "ended" } /\ ord[l].filled < Requested[l]
                /\ MoveExit(l, ord[l].state, 1)
ExitEnds(l) == ord[l].state = "live" /\ MoveExit(l, "ended", 0)

EntryOrder ==
  /\ \/ eord = "sending" /\ eord' \in { "live", "ended" }
     \/ eord = "live" /\ eord' \in { "filled", "ended" }
  /\ UNCHANGED << inside, late, ord, at, crashes >>

Expires == ~late /\ late' = TRUE /\ UNCHANGED << inside, ord, eord, at, crashes >>

Crash(a) ==
  /\ at[a].pc # "idle" /\ crashes < MaxCrashes
  /\ crashes' = crashes + 1 /\ Stop(a) /\ UNCHANGED << inside, late, ord, eord >>

Leg(a) == \/ BeginLeg(a) \/ ExecuteLeg(a) \/ CreateLeg(a) \/ MarkSubmitted(a)
          \/ RecordLeg(a) \/ FailExit(a) \/ MarkConsumed(a)

Listener == ApproveCommand \/ RejectCommand \/ Leg("listener")

Scanner == \/ BeginCycle \/ Look \/ Authorize \/ TrackLeg \/ EndTrack \/ Reconcile \/ ReconcileRaises
           \/ RevalidateEntry \/ PrepareEntry \/ DispatchEntry \/ BuyEntry \/ LinkEntry
           \/ Leg("scanner")

Next ==
  \/ Command \/ Listener \/ Scanner \/ EntryOrder \/ Expires
  \/ \E l \in Legs : ExitAnswered(l) \/ ExitFills(l) \/ ExitEnds(l)
  \/ \E a \in Actors : Crash(a)

Spec == Init /\ [][Next]_vars

\* The launch scripts start both processes again and again, orders are
\* answered and end, and time passes.
Fairness ==
  /\ WF_vars(Listener) /\ WF_vars(Scanner)
  /\ WF_vars(Expires) /\ WF_vars(EntryOrder)
  /\ \A l \in Legs : WF_vars(ExitAnswered(l)) /\ WF_vars(ExitEnds(l))

FairSpec == Spec /\ Fairness

(***************************************************************************)
(* Properties                                                              *)
(***************************************************************************)

\* The contingent entry is never larger than what the exits have sold and the
\* operator was shown, and no order for it exists in a group that was
\* rejected, cancelled or failed, whichever process failed it and when.
EntryWithinRelease ==
  eord # "none" =>
    /\ entry.quantity <= Displayed
    /\ entry.quantity <= Summed([l \in Legs |-> ord[l].filled])
    /\ state \notin { "rejected", "cancelled", "exit_failed" }

\* A rejected group has moved nothing, although the scanner may approve what
\* the operator rejects.
RejectedMovesNothing == state = "rejected" => \A l \in Legs : ord[l].state = "none"

\* A group that has ended is not revived: not by a fill that is reported late,
\* not by a command or a cycle that looked at it before its end.
EndedStaysEnded == [][(state \in TERMINAL_STATES) => (state' = state)]_vars

\* Every change of a group's state is a move of the table, those that the code
\* writes without _require_transition included.
MovesAreAllowed == [][state' = state \/ << state, state' >> \in ALLOWED_TRANSITIONS]_vars

\* What was recorded as released is never taken back, so that an entry that was
\* sized from it is not left without it.
ReleaseGrows == [][released' >= released]_vars

\* An approved group ends, whatever process dies, whatever becomes of its orders
\* and however their answers are lost; except one of several legs in which one
\* leg sold and another ended without a fill (LegEndsUnfilled).
LegEndsUnfilled ==
  \E k, l \in Legs : step[k].filled > 0 /\ ord[l] = [state |-> "ended", filled |-> 0]

ApprovedGroupEnds == approval # "none" ~> state \in TERMINAL_STATES \/ LegEndsUnfilled

\* rotation_coordinator.py: "late broker evidence can be reconciled".
LinkedFillIsRecorded ==
  \A l \in Legs : step[l].linked /\ ord[l].filled = Requested[l] ~> step[l].filled = Requested[l]
=============================================================================
