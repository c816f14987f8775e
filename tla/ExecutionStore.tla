--------------------------- MODULE ExecutionStore ---------------------------
(***************************************************************************)
(* The durable state of one paper-trading database and its transactions:   *)
(* order intents with their risk reservations and immutable fill evidence  *)
(* (DurableExecutionStore of app/execution.py), approval workflows with    *)
(* their recovery claims (ApprovalWorkflowStore of                         *)
(* app/approval_workflow.py) and the status of the proposal.  Everything   *)
(* here survives a crash.  An operator is one BEGIN IMMEDIATE transaction; *)
(* it is enabled exactly when the code does not raise, and it constrains   *)
(* only the tables it writes.                                              *)
(*                                                                         *)
(* One element of Actions is one approved logical action: the proposal,    *)
(* its approval, its workflow and the intent with the stable client order  *)
(* id derived from it are one to one.                                      *)
(***************************************************************************)
EXTENDS Naturals, FiniteSets, LogicalActions, OrderState, WorkflowState

CONSTANTS
  Procs,        \* operating-system processes: scanner cycles, the listener
  NoProc,       \* not a process
  Lost          \* the owner token of a process that no longer runs

ASSUME ProcsAssumption == NoProc \notin Procs /\ Lost \notin Procs

VARIABLES
  intent,       \* order_intents: one row for each action
  resv,         \* risk_reservations
  evid,         \* broker_fill_evidence, by cumulative quantity
  wf,           \* approval_workflows
  prop          \* trade_proposals.status together with the approval's consumption

storeVars == << intent, resv, evid, wf, prop >>

\* BrokerReconciler.CONFIRMED_ABSENCE_OBSERVATIONS
CONFIRMED_ABSENCE_OBSERVATIONS == 3

IntentRows ==
  [ state : OrderStates \cup {"none"},      \* "none": no row yet
    marked : BOOLEAN,                       \* broker_invocation_occurred
    filled : 0..Qty,
    absent : 0..CONFIRMED_ABSENCE_OBSERVATIONS,   \* not_found_count
    bound : Procs \cup {NoProc},            \* who captured risk_snapshot_id
    born : Nat ]                            \* place in the order of created_at

ReservationRows ==
  [ state : {"none", "active", "released"}, units : 0..Qty ]

\* Where a piece of fill evidence came from is part of its fingerprint.
EvidenceSources == { "none", "submission", "reconciliation" }

WorkflowRows ==
  [ state : WorkflowStates \cup {"none"},
    owner : Procs \cup {NoProc, Lost},      \* claim_owner
    lapsed : BOOLEAN ]                      \* claim_until has passed

\* pending, approved by a consumed approval, closed by the caller after the
\* execution attempt, or expired before anyone consumed an approval.
ProposalStates == { "pending", "approved", "closed", "expired" }

StoreTypeOK ==
  /\ intent \in [Actions -> IntentRows]
  /\ resv \in [Actions -> ReservationRows]
  /\ evid \in [Actions -> [1..Qty -> EvidenceSources]]
  /\ wf \in [Actions -> WorkflowRows]
  /\ prop \in [Actions -> ProposalStates]

StoreInit ==
  /\ intent = [a \in Actions |-> [state |-> "none", marked |-> FALSE,
                                  filled |-> 0, absent |-> 0,
                                  bound |-> NoProc, born |-> 0]]
  /\ resv = [a \in Actions |-> [state |-> "none", units |-> 0]]
  /\ evid = [a \in Actions |-> [q \in 1..Qty |-> "none"]]
  /\ wf = [a \in Actions |-> [state |-> "none", owner |-> NoProc,
                              lapsed |-> FALSE]]
  /\ prop = [a \in Actions |-> "pending"]

Released == [state |-> "released", units |-> 0]

(***************************************************************************)
(* DurableExecutionStore                                                   *)
(***************************************************************************)

\* Mutant: the reservation is left for a later sweep.
transition_keeps_reservation(a, t) ==
  /\ intent[a].state # "none"
  /\ validate_transition(intent[a].state, t)
  /\ intent' = [intent EXCEPT ![a].state = t]
  /\ UNCHANGED resv

\* transition: a terminal target releases the reservation in the same
\* transaction; a repeated state writes nothing.
transition(a, t) ==
  /\ intent[a].state # "none"
  /\ validate_transition(intent[a].state, t)
  /\ intent' = [intent EXCEPT ![a].state = t]
  /\ resv' = IF t \in TERMINAL_STATES /\ resv[a].state = "active"
               THEN [resv EXCEPT ![a] = Released]
               ELSE resv

\* The same with expected_state.
transition_from(a, s, t) == intent[a].state = s /\ transition(a, t)

\* The state a fill leads to.  A fill that arrives after the cancellation
\* keeps the order cancelled.
late_after_cancel(a, cum) ==
  intent[a].state = "cancelled" /\ cum > intent[a].filled

fill_target(a, cum) ==
  IF late_after_cancel(a, cum) THEN "cancelled"
  ELSE IF cum >= Qty THEN "filled" ELSE "partially_filled"

\* record_fill raises for a status that is not a fill status and for a
\* second, different account of an event it already holds.
evidence_accepted(a, cum, status, source) ==
  /\ status \in { "partially_filled", "filled" }
  /\ evid[a][cum] \in { "none", source }

\* Mutants: the reported quantity is taken for a delta; any fill is taken for
\* a complete one; an older report overwrites a newer one.
record_fill_as_delta(a, cum, status, source) ==
  /\ evidence_accepted(a, cum, status, source)
  /\ evid' = [evid EXCEPT ![a][cum] = source]
  /\ validate_transition(intent[a].state, fill_target(a, cum))
  /\ intent' = [intent EXCEPT ![a].state = fill_target(a, cum),
                              ![a].filled = @ + cum]
  /\ UNCHANGED resv

record_fill_as_complete(a, cum, status, source) ==
  /\ evidence_accepted(a, cum, status, source)
  /\ evid' = [evid EXCEPT ![a][cum] = source]
  /\ validate_transition(intent[a].state, "filled")
  /\ intent' = [intent EXCEPT ![a].state = "filled", ![a].filled = Qty]
  /\ resv' = [resv EXCEPT ![a] = Released]

record_fill_out_of_order(a, cum, status, source) ==
  /\ evidence_accepted(a, cum, status, source)
  /\ evid' = [evid EXCEPT ![a][cum] = source]
  /\ validate_transition(intent[a].state, fill_target(a, cum))
  /\ intent' = [intent EXCEPT ![a].state = fill_target(a, cum),
                              ![a].filled = cum]
  /\ resv' = [resv EXCEPT ![a] = [state |-> "active", units |-> Qty - cum]]

\* record_fill: an event already booked changes nothing, a lower cumulative
\* quantity is kept as evidence only, anything else moves the intent, its
\* filled quantity and its reservation together.
record_fill(a, cum, status, source) ==
  /\ intent[a].state # "none"
  /\ evidence_accepted(a, cum, status, source)
  /\ evid' = [evid EXCEPT ![a][cum] = source]
  /\ \/ /\ evid[a][cum] = source \/ cum < intent[a].filled
        /\ UNCHANGED << intent, resv >>
     \/ /\ evid[a][cum] = "none" /\ cum >= intent[a].filled
        /\ validate_transition(intent[a].state, fill_target(a, cum))
        /\ intent' = [intent EXCEPT ![a].state = fill_target(a, cum),
                                    ![a].filled = cum]
        /\ resv' = [resv EXCEPT ![a] =
             IF fill_target(a, cum) = "filled" \/ late_after_cancel(a, cum)
               THEN Released
               ELSE [state |-> "active", units |-> Qty - cum]]

\* record_fill raises InvalidOrderTransition for a fill the state excludes.
fill_refused(a, cum) ==
  /\ evid[a][cum] = "none" /\ cum >= intent[a].filled
  /\ ~ validate_transition(intent[a].state, fill_target(a, cum))

\* Mutant: only an order that reached the broker conflicts.
conflicting_submitted_intent(a) ==
  \E b \in Actions \ {a} :
     SlotOf[b] = SlotOf[a] /\ intent[b].state \in BROKER_RELEVANT_STATES

\* The conflict query: an active intent for the same symbol and side.
conflicting_active_intent(a) ==
  \E b \in Actions \ {a} :
     SlotOf[b] = SlotOf[a] /\ intent[b].state \in ACTIVE_RESERVATION_STATES

existing_intents == { b \in Actions : intent[b].state # "none" }

\* create_or_get_intent for an action that already has a row: a row that
\* was never sent is bound to the caller's fresh risk snapshot.
get_intent_again(p, a) ==
  /\ intent[a].state # "none"
  /\ intent' = IF intent[a].state \in PRE_SUBMISSION_STATES
                   /\ ~ intent[a].marked
                 THEN [intent EXCEPT ![a].bound = p]
                 ELSE intent
  /\ UNCHANGED << resv, wf >>

\* create_or_get_intent for a new action: intent, reservation and workflow
\* link are one commit.
create_intent(p, a) ==
  /\ intent[a].state = "none"
  /\ wf[a].state = "approved_pending_intent"
  /\ prop[a] \in { "approved", "closed" }
  /\ ~ conflicting_active_intent(a)
  /\ intent' = [intent EXCEPT ![a].state = "reserved", ![a].bound = p,
                              ![a].born = Cardinality(existing_intents) + 1]
  /\ resv' = [resv EXCEPT ![a] = [state |-> "active", units |-> Qty]]
  /\ wf' = [wf EXCEPT ![a].state = "intent_created"]

(***************************************************************************)
(* ApprovalWorkflowStore and Storage                                       *)
(***************************************************************************)

\* transition without an expected state or owner.
wf_transition(a, t) ==
  /\ wf[a].state # "none"
  /\ workflow_may_move(wf[a].state, t)
  /\ wf' = [wf EXCEPT ![a].state = t]

\* transition with owner_token: the claim decides, even a lapsed one.
owned_transition(p, a, t) == wf[a].owner = p /\ wf_transition(a, t)

\* claim_next: the claim is free, has lapsed, or is the caller's own.
claimable(p, a) ==
  /\ wf[a].state \in RECOVERABLE_WORKFLOW_STATES
  /\ wf[a].owner = NoProc \/ wf[a].lapsed \/ wf[a].owner = p

claim(p, a) ==
  /\ claimable(p, a)
  /\ wf' = [wf EXCEPT ![a].owner = p, ![a].lapsed = FALSE]

\* release_claim raises when the claim was taken over, and writes nothing.
release_claim(p, a) ==
  wf' = IF wf[a].owner = p
          THEN [wf EXCEPT ![a].owner = NoProc, ![a].lapsed = FALSE]
          ELSE wf

\* consume_approval: only a pending proposal, and only once.
consume_approval(a) ==
  /\ prop[a] = "pending"
  /\ prop' = [prop EXCEPT ![a] = "approved"]
=============================================================================
