----------------------------- MODULE CryptoLane -----------------------------
(***************************************************************************)
(* The crypto paper lane, app/crypto_paper_lane.py: its own proposals,     *)
(* approvals, intents, reservations and fills, apart from the equity path. *)
(* The scanner's crypto cycle (app/crypto_research.py) makes a proposal    *)
(* and either shows it in Telegram or executes it at once; the listener    *)
(* takes the operator's answer (service.py); both processes run the        *)
(* recovery sweep.  Every BEGIN IMMEDIATE transaction is one step.  All    *)
(* proposals are on one symbol, quantities are in units at one price.      *)
(***************************************************************************)
EXTENDS Integers, FiniteSets, FiniteSetsExt

CONSTANTS
  Proposals,
  Quantity,     \* requested by each proposal
  Ceiling,      \* hard notional ceiling of the risk snapshot
  Autonomous,   \* proposals executed without the operator, by the policy of the time
  MaxFaults     \* bounds the calls that fail or are not attempted and the crashes

ASSUME CryptoLaneAssumption ==
  /\ Quantity \in Nat \ {0} /\ Ceiling \in Nat /\ MaxFaults \in Nat
  /\ IsFiniteSet(Proposals) /\ Proposals # {} /\ Autonomous \subseteq Proposals

Actors == { "scanner", "listener" }

TERMINAL_INTENT_STATES == { "filled", "cancelled", "rejected", "expired" }
AMBIGUOUS_INTENT_STATES == { "unknown", "reconciliation_required" }
ACTIVE_INTENT_STATES == { "reserved", "submitting", "submitted", "partially_filled",
                          "retryable_pre_submission", "cancel_pending" }
IntentStates == TERMINAL_INTENT_STATES \cup AMBIGUOUS_INTENT_STATES \cup ACTIVE_INTENT_STATES
ProposalStates == { "pending", "approved", "intent_created", "submitted", "partially_filled",
                    "filled", "rejected", "expired", "manual_review" }

Ended == { "filled", "cancelled", "rejected" }   \* what ends an order at the broker

VARIABLES
  prop,      \* crypto_paper_proposals: side, status, the binding to a Telegram message
  late,      \* the proposal's expiry has passed
  outbox,    \* crypto_paper_telegram_outbox.status
  shown,     \* the message is in the chat
  approval,  \* crypto_paper_approvals.status
  intent,    \* crypto_paper_intents: state, broker_invocation_occurred, broker_order_id known
  res,       \* crypto_paper_reservations: state, active notional
  fills,     \* sum of crypto_paper_fills
  order,     \* the order at the broker
  at,        \* each process: where it is, at which proposal, what it has read
  faults, crashes

vars == << prop, late, outbox, shown, approval, intent, res, fills, order, at, faults, crashes >>

Labels == { "idle", "queue", "claim", "send", "sent", "bind", "undelivered", "authorize", "intent",
            "reload", "final", "submit", "answer", "cancel", "call", "withdrawn",
            "lookup", "settle", "unsure", "totals", "book" }
NoIntent == [state |-> "none", invoked |-> FALSE, known |-> FALSE]
Report == [status : { "none", "accepted", "partially_filled" } \cup Ended, filled : 0..Quantity]
Nothing == [status |-> "none", filled |-> 0]

TypeOK ==
  /\ prop \in [Proposals -> [side : { "buy", "sell" }, status : ProposalStates \cup { "none" }, bound : BOOLEAN]]
  /\ late \in [Proposals -> BOOLEAN] /\ shown \in [Proposals -> BOOLEAN]
  /\ outbox \in [Proposals -> { "none", "queued", "sending", "sent", "failed" }]
  /\ approval \in [Proposals -> { "none", "active", "consumed", "expired" }]
  /\ intent \in [Proposals -> [state : IntentStates \cup { "none" }, invoked : BOOLEAN, known : BOOLEAN]]
  /\ res \in [Proposals -> [state : { "none", "active", "released" }, units : 0..Quantity]]
  /\ fills \in [Proposals -> 0..Quantity]
  /\ order \in [Proposals -> [state : { "none", "flight", "open" } \cup Ended, filled : 0..Quantity]]
  /\ at \in [Actors -> [pc : Labels, p : Proposals, seen : Report, total : 0..Quantity,
                   was : IntentStates \cup { "" }]]
  /\ faults \in 0..MaxFaults /\ crashes \in 0..MaxFaults

Idle == [pc |-> "idle", p |-> CHOOSE p \in Proposals : TRUE, seen |-> Nothing, total |-> 0, was |-> ""]

Init ==
  /\ prop = [p \in Proposals |-> [side |-> "buy", status |-> "none", bound |-> FALSE]]
  /\ late = [p \in Proposals |-> FALSE] /\ shown = [p \in Proposals |-> FALSE]
  /\ outbox = [p \in Proposals |-> "none"] /\ approval = [p \in Proposals |-> "none"]
  /\ intent = [p \in Proposals |-> NoIntent]
  /\ res = [p \in Proposals |-> [state |-> "none", units |-> 0]]
  /\ fills = [p \in Proposals |-> 0]
  /\ order = [p \in Proposals |-> [state |-> "none", filled |-> 0]]
  /\ at = [a \in Actors |-> Idle] /\ faults = 0 /\ crashes = 0

display == << outbox, shown >>
ledger == << intent, res, fills >>
outside == << order, late, faults, crashes >>

Goto(a, l) == at' = [at EXCEPT ![a].pc = l]
Stop(a) == at' = [at EXCEPT ![a] = Idle]
Begin(a, l, p) == at' = [at EXCEPT ![a] = [Idle EXCEPT !.pc = l, !.p = p]]
At(a, l) == at[a].pc = l
Fault == faults + crashes < MaxFaults /\ faults' = faults + 1

Status(p, s) == prop' = [prop EXCEPT ![p].status = s]
IntentState(p, s) == intent' = [intent EXCEPT ![p].state = s]
Released(p) == [res EXCEPT ![p] = IF @.state = "active" THEN [state |-> "released", units |-> 0] ELSE @]

(***************************************************************************)
(* A proposal is made, and shown.                                          *)
(***************************************************************************)

Summed(f) == MapThenSumSet(LAMBDA p : f[p], Proposals)
signed(p, n) == IF prop[p].side = "buy" THEN n ELSE -n

\* What the broker holds of the symbol, and what the FIFO lots hold.
Position == Summed([p \in Proposals |-> signed(p, order[p].filled)])
Lots == Summed([p \in Proposals |-> signed(p, fills[p])])

\* An entry, while nothing is held (_maybe_create_supervised_paper_proposal)
entry_wanted == Position = 0

\* An exit is staged for what is held unless one is under way
\* (_monitor_crypto_positions)
exit_wanted ==
  /\ Position >= Quantity
  /\ \A q \in Proposals : prop[q].side = "sell" =>
        prop[q].status \notin { "pending", "approved", "intent_created", "submitted", "partially_filled" }

\* create_proposal; the lane's policy is then to ask the operator or to execute
\* at once (supervised_paper_lane.autonomous_execution).
CreateProposal(p) ==
  /\ At("scanner", "idle") /\ prop[p].status = "none"
  /\ \E side \in { "buy", "sell" } :
       /\ IF side = "buy" THEN entry_wanted ELSE exit_wanted
       /\ prop' = [prop EXCEPT ![p].side = side, ![p].status = "pending"]
  /\ Begin("scanner", IF p \in Autonomous THEN "authorize" ELSE "queue", p)
  /\ UNCHANGED << display, approval, ledger, outside >>

\* _verify_proposal_row refuses an expired proposal that is not yet closed;
\* every operation that reloads it then raises.
expired_open(p) == late[p] /\ prop[p].status \notin { "expired", "rejected", "filled" }

\* queue_telegram_display
QueueDisplay(a, p) ==
  /\ At(a, "queue") /\ at[a].p = p
  /\ IF expired_open(p) \/ prop[p].status # "pending"
       THEN Stop(a) /\ UNCHANGED outbox       \* raised before the delivery's handler
       ELSE outbox' = [outbox EXCEPT ![p] = "queued"] /\ Goto(a, "claim")
  /\ UNCHANGED << prop, shown, approval, ledger, outside >>

\* claim_telegram_display
ClaimDisplay(a, p) ==
  /\ At(a, "claim") /\ at[a].p = p
  /\ IF outbox[p] = "queued" THEN outbox' = [outbox EXCEPT ![p] = "sending"] /\ Goto(a, "send")
                             ELSE Goto(a, "undelivered") /\ UNCHANGED outbox
  /\ UNCHANGED << prop, shown, approval, ledger, outside >>

\* The send: it may fail with the message delivered or not.
SendDisplay(a, p) ==
  /\ At(a, "send") /\ at[a].p = p
  /\ \/ shown' = [shown EXCEPT ![p] = TRUE] /\ Goto(a, "sent") /\ UNCHANGED faults
     \/ Fault /\ (shown' = [shown EXCEPT ![p] = TRUE] \/ UNCHANGED shown) /\ Goto(a, "undelivered")
  /\ UNCHANGED << prop, outbox, approval, ledger, order, late, crashes >>

\* mark_telegram_sent
MarkSent(a, p) ==
  /\ At(a, "sent") /\ at[a].p = p
  /\ IF outbox[p] = "sending" THEN outbox' = [outbox EXCEPT ![p] = "sent"] /\ Goto(a, "bind")
                              ELSE Goto(a, "undelivered") /\ UNCHANGED outbox
  /\ UNCHANGED << prop, shown, approval, ledger, outside >>

\* bind_telegram_message
BindDisplay(a, p) ==
  /\ At(a, "bind") /\ at[a].p = p
  /\ IF prop[p].status = "pending" /\ outbox[p] = "sent" /\ ~expired_open(p)
       THEN prop' = [prop EXCEPT ![p].bound = TRUE] /\ Stop(a)
       ELSE Goto(a, "undelivered") /\ UNCHANGED prop
  /\ UNCHANGED << display, approval, ledger, outside >>

\* Mutant: the outbox is not marked as failed.
Undelivered_unmarked(a, p) ==
  /\ At(a, "undelivered") /\ at[a].p = p /\ Stop(a)
  /\ prop' = [prop EXCEPT ![p].status = IF @ = "pending" THEN "manual_review" ELSE @]
  /\ UNCHANGED << display, approval, ledger, outside >>

\* _deliver_crypto_proposal gives up: mark_telegram_failed and
\* mark_unbound_manual_review
Undelivered(a, p) ==
  /\ At(a, "undelivered") /\ at[a].p = p /\ Stop(a)
  /\ outbox' = [outbox EXCEPT ![p] = IF @ \in { "queued", "sending" } THEN "failed" ELSE @]
  /\ prop' = [prop EXCEPT ![p].status = IF @ = "pending" THEN "manual_review" ELSE @]
  /\ UNCHANGED << shown, approval, ledger, outside >>

\* recover_telegram_outbox: a send that was under way is never repeated.
RecoverOutbox(a) ==
  /\ At(a, "idle") /\ \E p \in Proposals : outbox[p] = "sending"
  /\ outbox' = [p \in Proposals |-> IF outbox[p] = "sending" THEN "failed" ELSE outbox[p]]
  /\ prop' = [p \in Proposals |-> [prop[p] EXCEPT !.status =
                IF outbox[p] = "sending" /\ @ = "pending" THEN "manual_review" ELSE @]]
  /\ UNCHANGED << shown, approval, ledger, outside, at >>

(***************************************************************************)
(* It is approved or rejected, and becomes an intent.                      *)
(***************************************************************************)

\* What the operator can answer: a displayed, bound and pending proposal.
answerable(p) == shown[p] /\ prop[p].status = "pending" /\ prop[p].bound /\ ~expired_open(p)

\* _handle_crypto_telegram_update, approve_proposal
Approve(p) ==
  /\ At("listener", "idle") /\ answerable(p) /\ approval[p] = "none"
  /\ approval' = [approval EXCEPT ![p] = "active"] /\ Status(p, "approved")
  /\ Begin("listener", "intent", p)
  /\ UNCHANGED << display, ledger, outside >>

\* reject_proposal
Reject(p) ==
  /\ At("listener", "idle") /\ answerable(p) /\ Status(p, "rejected")
  /\ UNCHANGED << display, approval, ledger, outside, at >>

\* authorize_autonomous_proposal
Authorize(a, p) ==
  /\ At(a, "authorize") /\ at[a].p = p
  /\ IF prop[p].status \in { "pending", "approved", "intent_created" } /\ ~expired_open(p)
       THEN /\ prop' = [prop EXCEPT ![p].bound = TRUE,
                          ![p].status = IF @ = "pending" THEN "approved" ELSE @]
            /\ approval' = [approval EXCEPT ![p] = IF @ = "none" THEN "active" ELSE @]
            /\ Goto(a, "intent")
       ELSE Stop(a) /\ UNCHANGED << prop, approval >>
  /\ UNCHANGED << display, ledger, outside >>

\* _active_reservation_totals
active_total == Summed([p \in Proposals |-> IF res[p].state = "active" THEN res[p].units ELSE 0])

\* The reservation is within the ceiling of the risk snapshot.
has_capacity(p) == prop[p].side = "buy" => active_total + Quantity <= Ceiling

\* create_intent
CreateIntent(a, p) ==
  /\ At(a, "intent") /\ at[a].p = p
  /\ IF /\ prop[p].status = "approved" /\ intent[p] = NoIntent /\ approval[p] = "active"
        /\ ~late[p] /\ has_capacity(p)
       THEN /\ intent' = [intent EXCEPT ![p].state = "reserved"]
            /\ res' = [res EXCEPT ![p] = [state |-> "active", units |-> Quantity]]
            /\ approval' = [approval EXCEPT ![p] = "consumed"]
            /\ Status(p, "intent_created") /\ Goto(a, "reload")
       ELSE Stop(a) /\ UNCHANGED << prop, intent, res, approval >>
  /\ UNCHANGED << display, fills, outside >>

(***************************************************************************)
(* The intent is executed.                                                 *)
(***************************************************************************)

\* execute_intent before its transaction: without an adapter, or when the
\* rebuilt authority differs, the intent may be tried again; its state is not
\* looked at (_reload_final_authority).
Reload(a, p) ==
  /\ At(a, "reload") /\ at[a].p = p
  /\ \/ /\ UNCHANGED << intent, faults >>
        /\ IF intent[p].invoked \/ intent[p].state \in TERMINAL_INTENT_STATES \cup AMBIGUOUS_INTENT_STATES
             THEN Stop(a) ELSE Goto(a, "final")
     \/ /\ Fault /\ Stop(a)
        /\ IF intent[p].invoked THEN UNCHANGED intent ELSE IntentState(p, "retryable_pre_submission")
  /\ UNCHANGED << prop, display, approval, res, fills, order, late, crashes >>

\* Mutant: an intent whose outcome is ambiguous does not count.
no_other_intent_but_ambiguous(p) ==
  \A q \in Proposals \ {p} :
    ~(intent[q].state \in ACTIVE_INTENT_STATES /\ res[q].state = "active")

\* No intent on the symbol is under way beside this one.
no_other_intent(p) ==
  \A q \in Proposals \ {p} :
    ~(/\ intent[q].state \in ACTIVE_INTENT_STATES \cup AMBIGUOUS_INTENT_STATES
      /\ res[q].state = "active")

\* What _final_controls asks of the broker.
holdings_allow(p) ==
  /\ \A q \in Proposals \ {p} : order[q].state # "open"
  /\ IF prop[p].side = "buy" THEN Position = 0 ELSE Position >= Quantity

\* What _final_controls asks of the tables.
authority_stands(p) ==
  /\ res[p] = [state |-> "active", units |-> Quantity]
  /\ prop[p].status = "intent_created" /\ approval[p] = "consumed"

\* _expire_intent_locked
ExpireIntent(p) ==
  /\ IntentState(p, "expired") /\ res' = Released(p)
  /\ Status(p, IF prop[p].status \in { "filled", "rejected" } THEN prop[p].status ELSE "expired")
  /\ approval' = [approval EXCEPT ![p] = IF @ = "none" THEN @ ELSE "expired"]

\* execute_intent's transaction: the mark is set only when every control holds.
Claim(a, p) ==
  /\ At(a, "final") /\ at[a].p = p
  /\ IF intent[p].invoked \/ intent[p].state \in TERMINAL_INTENT_STATES \cup AMBIGUOUS_INTENT_STATES
       THEN Stop(a) /\ UNCHANGED << prop, approval, intent, res, faults >>
     ELSE IF late[p] THEN ExpireIntent(p) /\ Stop(a) /\ UNCHANGED faults
     ELSE /\ UNCHANGED << prop, approval, res >>
          /\ \/ /\ holdings_allow(p) /\ no_other_intent(p) /\ authority_stands(p)
                /\ intent' = [intent EXCEPT ![p].state = "submitting", ![p].invoked = TRUE]
                /\ Goto(a, "submit") /\ UNCHANGED faults
             \/ /\ IF holdings_allow(p) /\ no_other_intent(p) /\ authority_stands(p)
                     THEN Fault ELSE UNCHANGED faults      \* a probe, quote or limit fails
                /\ IntentState(p, "retryable_pre_submission") /\ Stop(a)
  /\ UNCHANGED << display, fills, order, late, crashes >>

Answered(a, s) == at' = [at EXCEPT ![a].pc = "answer", ![a].was = s]

\* submit_crypto_order: accepted, rejected, not attempted, or an exception
\* after which the order may still arrive.
Submit(a, p) ==
  /\ At(a, "submit") /\ at[a].p = p
  /\ \/ /\ order' = [order EXCEPT ![p].state = "open"] /\ Answered(a, "submitted")
        /\ UNCHANGED faults
     \/ /\ Fault /\ order' = [order EXCEPT ![p].state = "rejected"]
        /\ Answered(a, "reconciliation_required")
     \/ Fault /\ Answered(a, "retryable_pre_submission") /\ UNCHANGED order
     \/ /\ Fault /\ Answered(a, "unknown")
        /\ order' = [order EXCEPT ![p].state = "flight"] \/ UNCHANGED order
  /\ UNCHANGED << prop, display, approval, ledger, late, crashes >>

\* execute_intent writes the answer, whatever the row has become meanwhile.
\* A terminal answer is not evidence: it is left to reconciliation.
Answer(a, p) ==
  /\ At(a, "answer") /\ at[a].p = p /\ Stop(a)
  /\ LET s == at[a].was IN
     /\ intent' = [intent EXCEPT ![p].state = s,
                     ![p].invoked = s # "retryable_pre_submission",
                     ![p].known = @ \/ s \in { "submitted", "reconciliation_required" }]
     /\ CASE s = "submitted" -> Status(p, "submitted")
          [] s = "reconciliation_required" -> Status(p, "manual_review")
          [] OTHER -> UNCHANGED prop
  /\ UNCHANGED << display, approval, res, fills, outside >>

(***************************************************************************)
(* The recovery sweep, in either process.                                  *)
(***************************************************************************)

\* expire_pending
ExpirePending(a) ==
  LET early == { p \in Proposals : late[p] /\ prop[p].status \in { "pending", "approved" } }
      unsent == { p \in Proposals : /\ late[p] /\ ~intent[p].invoked
                   /\ intent[p].state \in { "reserved", "submitting", "retryable_pre_submission" } }
  IN /\ At(a, "idle") /\ early \cup unsent # {}
     /\ intent' = [p \in Proposals |-> IF p \in unsent THEN [intent[p] EXCEPT !.state = "expired"]
                                                       ELSE intent[p]]
     /\ res' = [p \in Proposals |-> IF p \in unsent THEN Released(p)[p] ELSE res[p]]
     /\ approval' = [p \in Proposals |->
                       IF p \in early \cup unsent /\ approval[p] # "none" THEN "expired" ELSE approval[p]]
     /\ prop' = [p \in Proposals |-> [prop[p] EXCEPT !.status =
                   IF p \in early \cup unsent /\ @ \notin { "filled", "rejected" } THEN "expired" ELSE @]]
     /\ UNCHANGED << display, fills, outside, at >>

\* recover_pending takes an intent that has reached the broker.
Sweep(a, p) ==
  /\ At(a, "idle") /\ intent[p].invoked
  /\ intent[p].state \in { "submitting", "submitted", "partially_filled", "unknown",
                            "reconciliation_required", "cancel_pending" }
  /\ IF late[p] /\ intent[p].state \in { "submitting", "submitted", "partially_filled" }
       THEN Begin(a, "cancel", p) ELSE Begin(a, "lookup", p)
  /\ UNCHANGED << prop, display, approval, ledger, outside >>

\* Mutant: an intent that has ended is left alone.
ReviewRequired_unless_ended(p) ==
  /\ intent' = [intent EXCEPT ![p].state = IF @ \in TERMINAL_INTENT_STATES THEN @ ELSE "reconciliation_required"]
  /\ prop' = [prop EXCEPT ![p].status = IF @ \in { "rejected", "expired" } THEN @ ELSE "manual_review"]

\* _mark_reconciliation_required_locked
ReviewRequired(p) ==
  /\ IntentState(p, "reconciliation_required")
  /\ prop' = [prop EXCEPT ![p].status = IF @ \in { "rejected", "expired" } THEN @ ELSE "manual_review"]

\* _cancel_unsubmitted_locked
CancelUnsubmitted(p) ==
  /\ IntentState(p, "cancelled") /\ res' = Released(p)
  /\ Status(p, IF prop[p].status \in { "filled", "expired" } THEN prop[p].status ELSE "rejected")
  /\ approval' = [approval EXCEPT ![p] = IF @ = "none" THEN @ ELSE "expired"]

\* cancel_intent's first transaction: cancel_pending before the call.
CancelIntent(a, p) ==
  /\ At(a, "cancel") /\ at[a].p = p
  /\ IF ~intent[p].invoked /\ intent[p].state \notin TERMINAL_INTENT_STATES
       THEN CancelUnsubmitted(p) /\ Stop(a)
     ELSE /\ UNCHANGED << res, approval >>
          /\ IF intent[p].state \in TERMINAL_INTENT_STATES \cup AMBIGUOUS_INTENT_STATES \cup { "cancel_pending" }
               THEN Stop(a) /\ UNCHANGED << intent, prop >>
             ELSE IF ~intent[p].known THEN ReviewRequired(p) /\ Stop(a)
             ELSE /\ IntentState(p, "cancel_pending") /\ UNCHANGED prop
                  /\ at' = [at EXCEPT ![a].pc = "call", ![a].was = intent[p].state]
  /\ UNCHANGED << display, fills, outside >>

\* cancel_crypto_order: requested (the broker decides when the order ends),
\* not attempted, or not available.
CancelCall(a, p) ==
  /\ At(a, "call") /\ at[a].p = p
  /\ \/ Stop(a) /\ UNCHANGED faults
     \/ Fault /\ Goto(a, "withdrawn")
     \/ Fault /\ at' = [at EXCEPT ![a].pc = "withdrawn", ![a].was = "reconciliation_required"]
  /\ UNCHANGED << prop, display, approval, ledger, order, late, crashes >>

\* cancel_intent's second transaction, when nothing was requested
CancelWithdrawn(a, p) ==
  /\ At(a, "withdrawn") /\ at[a].p = p /\ Stop(a)
  /\ IF at[a].was = "reconciliation_required" THEN ReviewRequired(p)
     ELSE /\ UNCHANGED prop
          /\ IF intent[p].state = "cancel_pending" THEN IntentState(p, at[a].was) ELSE UNCHANGED intent
  /\ UNCHANGED << display, approval, res, fills, outside >>

\* _normalize_broker_order
Reported(p) ==
  [status |-> IF order[p].state \in Ended THEN order[p].state
              ELSE IF order[p].filled > 0 THEN "partially_filled" ELSE "accepted",
   filled |-> order[p].filled]

\* reconcile_intent asks the broker by client order id.
Lookup(a, p) ==
  /\ At(a, "lookup") /\ at[a].p = p
  /\ IF ~intent[p].invoked THEN Stop(a) /\ UNCHANGED faults
     ELSE IF order[p].state \in { "none", "flight" } THEN Goto(a, "unsure") /\ UNCHANGED faults
     ELSE \/ at' = [at EXCEPT ![a].pc = "settle", ![a].seen = Reported(p)] /\ UNCHANGED faults
          \/ Fault /\ Goto(a, "unsure")       \* no answer, or one that is not consistent
  /\ UNCHANGED << prop, display, approval, ledger, order, late, crashes >>

\* reconcile_intent without usable evidence
Unsure(a, p) ==
  /\ At(a, "unsure") /\ at[a].p = p /\ Stop(a) /\ ReviewRequired(p)
  /\ UNCHANGED << display, approval, res, fills, outside >>

\* _mapped_order_state, _mapped_proposal_state
mapped_state(s) == IF s = "accepted" THEN "submitted" ELSE s
mapped_proposal(s) == IF s = "cancelled" THEN "rejected" ELSE s

\* Mutant: every answer without a fill releases, an order that is open too.
releases_unfilled(seen) == seen.filled = 0

\* Only a terminal answer without a fill releases the reservation here.
releases(seen) == seen.status \in { "cancelled", "rejected" } /\ seen.filled = 0

\* reconcile_intent's first transaction: the answer is written, whatever the
\* row has become meanwhile.
Settle(a, p) ==
  /\ At(a, "settle") /\ at[a].p = p /\ Goto(a, "totals")
  /\ LET s == mapped_state(at[a].seen.status) IN
     intent' = [intent EXCEPT ![p].state = s, ![p].known = TRUE] /\ Status(p, mapped_proposal(s))
  /\ res' = IF releases(at[a].seen) THEN Released(p) ELSE res
  /\ UNCHANGED << display, approval, fills, outside >>

\* reconcile_intent reads what is booked, in a connection of its own.
Totals(a, p) ==
  /\ At(a, "totals") /\ at[a].p = p
  /\ LET seen == at[a].seen.filled IN
     IF seen = fills[p] THEN Stop(a)
     ELSE at' = [at EXCEPT ![a].pc = IF seen > fills[p] THEN "book" ELSE "unsure", ![a].total = fills[p]]
  /\ UNCHANGED << prop, display, approval, ledger, outside >>

\* Mutant: the total that was read before is trusted.
fill_accepted_unread(a, p) == intent[p].invoked

\* _record_verified_fill_locked: the fill continues what is booked, and a
\* sale finds its lots.
fill_accepted(a, p) ==
  /\ intent[p].invoked /\ fills[p] = at[a].total
  /\ prop[p].side = "sell" => Lots >= at[a].seen.filled - fills[p]

\* Its writes: the fill, the lots (which are a function of the fills here), the
\* states of intent and proposal, and the rest of the reservation.
record_fill(p, cumulative) ==
  LET s == IF cumulative = Quantity THEN "filled" ELSE "partially_filled" IN
  /\ fills' = [fills EXCEPT ![p] = cumulative] /\ IntentState(p, s) /\ Status(p, s)
  /\ res' = [res EXCEPT ![p] =
               IF s = "filled" THEN [state |-> "released", units |-> 0]
               ELSE IF @.state = "active" THEN [@ EXCEPT !.units = Quantity - cumulative] ELSE @]

\* record_verified_fill; what it refuses is left to review
Book(a, p) ==
  /\ At(a, "book") /\ at[a].p = p
  /\ IF fill_accepted(a, p)
       THEN record_fill(p, fills[p] + (at[a].seen.filled - at[a].total)) /\ Stop(a)
       ELSE Goto(a, "unsure") /\ UNCHANGED << prop, intent, res, fills >>
  /\ UNCHANGED << display, approval, outside >>

\* integrity_report's checks of the rows, true where nothing is found
row_checks(p) ==
  [orphan_approvals |-> approval[p] # "none" => prop[p].status # "none",
   intents_without_reservation |-> intent[p].state # "none" => res[p].state # "none",
   active_intents_without_active_reservation |->
     intent[p].state \in ACTIVE_INTENT_STATES => res[p].state = "active",
   terminal_intents_with_active_reservation |->
     intent[p].state \in TERMINAL_INTENT_STATES => res[p].state # "active",
   ambiguous_auto_retry |-> intent[p].state \in AMBIGUOUS_INTENT_STATES => intent[p].invoked,
   unauthorized_intents |-> intent[p].state # "none" =>
     prop[p].status \in { "intent_created", "submitted", "partially_filled", "filled", "expired", "rejected" },
   reconciliation_required |-> intent[p].state \notin AMBIGUOUS_INTENT_STATES,
   pending_telegram_binding_missing |-> prop[p].status = "pending" => prop[p].bound,
   telegram_outbox_ambiguous_sending |-> outbox[p] # "sending",
   telegram_outbox_proposal_binding_mismatch |-> outbox[p] = "sent" => prop[p].bound]

\* Its checks of the fills against the intents and of the lots
quantity_checks(p) ==
  [fills_exceed_quantity |-> fills[p] <= Quantity,
   filled_quantity_state_mismatch |-> intent[p].state = "filled" => fills[p] = Quantity,
   partial_quantity_state_mismatch |-> intent[p].state = "partially_filled" => fills[p] \in 1..Quantity - 1,
   lot_quantity_invalid |-> Lots >= 0]

integrity_report ==
  UNION { { c \in DOMAIN row_checks(p) : ~row_checks(p)[c] }
          \cup { c \in DOMAIN quantity_checks(p) : ~quantity_checks(p)[c] } : p \in Proposals }

(***************************************************************************)
(* The broker, the clock, crashes.                                         *)
(***************************************************************************)

Arrive(p) == order[p].state = "flight" /\ order' = [order EXCEPT ![p].state = "open"]

Fill(p) ==
  /\ order[p].state = "open"
  /\ order' = [order EXCEPT ![p] = [state |-> IF @.filled + 1 = Quantity THEN "filled" ELSE "open",
                                    filled |-> @.filled + 1]]

\* Cancelled on request, or the rest of an order that does not stay open.
BrokerCancels(p) == order[p].state = "open" /\ order' = [order EXCEPT ![p].state = "cancelled"]

Broker ==
  /\ \E p \in Proposals : Arrive(p) \/ Fill(p) \/ BrokerCancels(p)
  /\ UNCHANGED << prop, display, approval, ledger, late, at, faults, crashes >>

Expires(p) ==
  /\ ~late[p] /\ prop[p].status # "none" /\ late' = [late EXCEPT ![p] = TRUE]
  /\ UNCHANGED << prop, display, approval, ledger, order, at, faults, crashes >>

Crash(a) ==
  /\ ~At(a, "idle") /\ faults + crashes < MaxFaults /\ crashes' = crashes + 1 /\ Stop(a)
  /\ UNCHANGED << prop, display, approval, ledger, order, late, faults >>

Deliver(a, p) == QueueDisplay(a, p) \/ ClaimDisplay(a, p) \/ SendDisplay(a, p) \/ MarkSent(a, p)
                 \/ BindDisplay(a, p) \/ Undelivered(a, p)
Execute(a, p) == Authorize(a, p) \/ CreateIntent(a, p) \/ Reload(a, p) \/ Claim(a, p)
                 \/ Submit(a, p) \/ Answer(a, p)
Recover(a, p) == CancelIntent(a, p) \/ CancelCall(a, p) \/ CancelWithdrawn(a, p) \/ Lookup(a, p)
                 \/ Unsure(a, p) \/ Settle(a, p) \/ Totals(a, p) \/ Book(a, p)

Next ==
  \/ \E p \in Proposals : CreateProposal(p) \/ Approve(p) \/ Reject(p) \/ Expires(p)
  \/ \E a \in Actors, p \in Proposals : Deliver(a, p) \/ Execute(a, p) \/ Recover(a, p) \/ Sweep(a, p)
  \/ \E a \in Actors : RecoverOutbox(a) \/ ExpirePending(a) \/ Crash(a)
  \/ Broker

Spec == Init /\ [][Next]_vars

(***************************************************************************)
(* Properties.                                                             *)
(***************************************************************************)

\* An order that can still trade keeps a reservation for what is left of it,
\* whatever sweeps, stale answers and crashes happen beside it.
LiveOrderIsReserved ==
  \A p \in Proposals : order[p].state \in { "flight", "open" } =>
    res[p].state = "active" /\ res[p].units >= Quantity - order[p].filled

\* At most one order of the symbol can trade at a time, although two intents
\* may hold reservations and either process may execute.
OneLiveOrder ==
  \A p, q \in Proposals :
    order[p].state \in { "flight", "open" } /\ order[q].state \in { "flight", "open" } => p = q

\* What is booked never exceeds what the broker has filled, and the lots are
\* never oversold.
BookedWithinBroker ==
  (\A p \in Proposals : fills[p] <= order[p].filled) /\ Lots >= 0

Rest == (\A a \in Actors : At(a, "idle")) /\ crashes = 0

\* When neither process is at work, an intent recorded as ended has booked all
\* that the broker filled, unless a process crashed between the two
\* transactions of a reconciliation.
EndedIntentIsBooked ==
  Rest => \A p \in Proposals : intent[p].state \in TERMINAL_INTENT_STATES => fills[p] = order[p].filled

\* What the report finds in the ordinary course: an intent or an unbound
\* proposal that waits for review or for its expiry.
Waiting == { "reconciliation_required", "unauthorized_intents", "pending_telegram_binding_missing",
             "telegram_outbox_proposal_binding_mismatch" }

\* What it finds because two writers of an intent overtake each other: a
\* remainder that was cancelled, an expired intent revived by a failed reload,
\* a lookup that outlives the withdrawal of its submission.
Overtaken == { "terminal_intents_with_active_reservation", "active_intents_without_active_reservation",
               "ambiguous_auto_retry" }

\* While neither process is at work and none has crashed, the integrity report
\* finds nothing else, however scanner and listener interleaved.
IntegrityHolds == Rest => integrity_report \subseteq Waiting \cup Overtaken
=============================================================================
