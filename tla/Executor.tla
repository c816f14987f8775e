------------------------------ MODULE Executor ------------------------------
(***************************************************************************)
(* The processes and the submission path: from an accepted approval        *)
(* through Executor.execute (app/execution.py) to the settled workflow.    *)
(*                                                                         *)
(* A process is a record: pc says which statement it reaches next, the     *)
(* other fields are the Python locals that later statements still use.     *)
(* One action is one database transaction or one broker call with the      *)
(* branch taken on its result, so that two processes interleave wherever   *)
(* the code holds no lock.  Locals die in a crash.                         *)
(***************************************************************************)
EXTENDS ExecutionStore, PaperBroker

CONSTANTS
  NoAction,     \* not an action
  Work          \* what each process runs: the scanner does everything, the
                \* listener approves and recovers but runs no cycle

Kinds == { "live", "recover", "cycle" }

ASSUME NoActionAssumption == NoAction \notin Actions
ASSUME WorkAssumption == Work \in [Procs -> SUBSET Kinds]

VARIABLE proc

vars == << storeVars, order, proc >>

\* A row of order_intents as some process last read it.
RowViews ==
  [ state : OrderStates \cup {"none"}, marked : BOOLEAN,
    absent : 0..CONFIRMED_ABSENCE_OBSERVATIONS ]

NoRow == [state |-> "none", marked |-> FALSE, absent |-> 0]

row_of(a) == [state |-> intent[a].state, marked |-> intent[a].marked,
              absent |-> intent[a].absent]

Answers == [ status : RemoteStatuses \cup { "missing", "none" },
             filled : 0..Qty ]

NoAnswer == [status |-> "none", filled |-> 0]

LivePCs == { "accepted", "consuming", "revalidating", "closing" }
ExecutorPCs ==
  { "authority", "persist", "create", "pending", "submitting", "starting",
    "verify", "reread", "mark", "rejecting", "rejectWorkflow", "marked",
    "waiting", "answered", "ambiguous", "acknowledge", "refused",
    "refusing", "returned" }
PassPCs == { "pass", "absence", "absenceMove", "found", "apply" }
RecoveryPCs ==
  { "claimed", "examined", "advance", "repend", "linked", "reconstruct", "expire",
    "submitter", "failed", "failedMove", "outcome", "looked", "release" }

Results == { "none", "submitted", "unknown", "blocked", "retry" }

PCs == {"idle"} \cup LivePCs \cup ExecutorPCs \cup PassPCs \cup RecoveryPCs

ProcRows ==
  [ pc : PCs,
    kind : Kinds \cup {"none"},
    act : Actions \cup {NoAction},      \* the action being executed or resumed
    cur : Actions \cup {NoAction},      \* the intent being reconciled
    rows : [Actions -> RowViews],
    wseen : WorkflowStates \cup {"none"},  \* the workflow state as claimed
    bound : Procs \cup {NoProc},        \* the snapshot read back
    obs : Answers,                      \* the broker's last answer
    res : Results,                      \* what execute returned
    todo : SUBSET Actions ]             \* intents left in a reconcile pass

IdleProc ==
  [ pc |-> "idle", kind |-> "none", act |-> NoAction, cur |-> NoAction,
    rows |-> [a \in Actions |-> NoRow], wseen |-> "none",
    bound |-> NoProc, obs |-> NoAnswer, res |-> "none", todo |-> {} ]

ProcTypeOK == proc \in [Procs -> ProcRows]

ProcInit == proc = [p \in Procs |-> IdleProc]

At(p, l) == proc[p].pc = l
Act(p) == proc[p].act
Row(p) == proc[p].rows[Act(p)]
Goto(p, l) == proc' = [proc EXCEPT ![p].pc = l]
Finish(p) == proc' = [proc EXCEPT ![p] = IdleProc]
Return(p, r) == proc' = [proc EXCEPT ![p].pc = "returned", ![p].res = r]

(***************************************************************************)
(* The caller: approval accepted, consumed and revalidated.                *)
(***************************************************************************)

\* accept_approval: a redelivered update finds the workflow it made before.
AcceptApproval(p, a) ==
  /\ At(p, "idle")
  /\ "live" \in Work[p]
  /\ prop[a] = "pending"
  /\ wf[a].state \in { "none", "target_resolved" }
  /\ wf' = [wf EXCEPT ![a].state = "target_resolved"]
  /\ proc' = [proc EXCEPT ![p].pc = "accepted", ![p].kind = "live",
                          ![p].act = a]
  /\ UNCHANGED << intent, resv, evid, prop, order >>

BeginValidation(p) ==
  /\ At(p, "accepted")
  /\ IF wf[Act(p)].state = "target_resolved"
       THEN wf_transition(Act(p), "validating") /\ Goto(p, "consuming")
       ELSE UNCHANGED wf /\ Finish(p)
  /\ UNCHANGED << intent, resv, evid, prop, order >>

\* An operator's "no", sleep mode, a stale listener, or a proposal that can
\* no longer be consumed: the workflow is blocked if it still may be.
RefuseApproval(p) ==
  /\ At(p, "accepted") \/ At(p, "consuming")
  /\ IF workflow_may_move(wf[Act(p)].state, "blocked")
       THEN wf_transition(Act(p), "blocked")
       ELSE UNCHANGED wf
  /\ Finish(p)
  /\ UNCHANGED << intent, resv, evid, prop, order >>

ConsumeApproval(p) ==
  /\ At(p, "consuming")
  /\ consume_approval(Act(p))
  /\ Goto(p, "revalidating")
  /\ UNCHANGED << intent, resv, evid, wf, order >>

\* _execute_final_revalidation: quotes, sizing and risk are refreshed.
FinalRevalidation(p) ==
  /\ At(p, "revalidating")
  /\ Goto(p, "authority") \/ Return(p, "blocked")
  /\ UNCHANGED << storeVars, order >>

\* expire_proposals: only what nobody approved yet.
ExpireProposal(a) ==
  /\ prop[a] = "pending"
  /\ prop' = [prop EXCEPT ![a] = "expired"]
  /\ UNCHANGED << intent, resv, evid, wf, order, proc >>

(***************************************************************************)
(* Executor.execute                                                        *)
(***************************************************************************)

\* _load_approval_authority
authority_holds(a) ==
  /\ prop[a] = "approved"
  /\ IF intent[a].state = "none"
       THEN wf[a].state \in { "validating", "approved_pending_intent" }
       ELSE wf[a].state \in { "intent_created", "submission_pending",
                              "submission_started", "submitted", "unknown",
                              "terminal" }

\* Expiry, a changed display, stale evidence or the risk engine may refuse
\* whatever the workflow says.
LoadAuthority(p) ==
  /\ At(p, "authority")
  /\ \/ /\ authority_holds(Act(p))
        /\ proc' = [proc EXCEPT ![p].pc = "persist",
                                ![p].rows[Act(p)] = row_of(Act(p))]
     \/ Return(p, "blocked")
  /\ UNCHANGED << storeVars, order >>

\* The broker client could not be built: nothing was sent by this call, and
\* nothing an earlier call may have sent is relabelled.
BrokerMissing(p) ==
  /\ At(p, "authority")
  /\ proc[p].kind = "live"
  /\ IF intent[Act(p)].state \in { "created", "reserved" }
          /\ ~ intent[Act(p)].marked
       THEN transition(Act(p), "retryable_pre_submission")
       ELSE UNCHANGED << intent, resv >>
  /\ Return(p, IF intent[Act(p)].state = "unknown" THEN "unknown"
               ELSE "blocked")
  /\ UNCHANGED << evid, wf, prop, order >>

\* The final local validation is made durable before the intent is.
PersistValidation(p) ==
  /\ At(p, "persist")
  /\ IF wf[Act(p)].state = "validating" /\ Row(p).state = "none"
       THEN /\ wf_transition(Act(p), "approved_pending_intent")
            /\ Goto(p, "create")
       ELSE /\ UNCHANGED wf
            /\ IF intent[Act(p)].state = "none"
                   /\ wf[Act(p)].state # "approved_pending_intent"
                 THEN Return(p, "blocked")
                 ELSE Goto(p, "create")
  /\ UNCHANGED << intent, resv, evid, prop, order >>

\* The only rows a call may go on to submit although they existed before.
exact_pre_broker_recovery(p, row) ==
  /\ ~ row.marked
  /\ \/ row.state = "retryable_pre_submission"
     \/ row.state = "submitting" /\ proc[p].kind = "recover"

never_submitted_again(p, row) ==
  /\ row.state \in BROKER_RELEVANT_STATES \cup TERMINAL_STATES
  /\ ~ exact_pre_broker_recovery(p, row)

result_of(s) ==
  CASE s \in { "submitted", "partially_filled", "filled" } -> "submitted"
    [] s = "unknown" -> "unknown"
    [] OTHER -> "blocked"

CreateIntent(p) ==
  /\ At(p, "create")
  /\ create_intent(p, Act(p))
  /\ proc' = [proc EXCEPT ![p].pc = "pending",
                          ![p].rows[Act(p)] = [NoRow EXCEPT !.state = "reserved"]]
  /\ UNCHANGED << evid, prop, order >>

GetIntent(p) ==
  /\ At(p, "create")
  /\ get_intent_again(p, Act(p))
  /\ IF never_submitted_again(p, row_of(Act(p)))
       THEN Return(p, result_of(intent[Act(p)].state))
       ELSE proc' = [proc EXCEPT ![p].pc = "pending",
                                 ![p].rows[Act(p)] = row_of(Act(p))]
  /\ UNCHANGED << evid, prop, order >>

\* A conflicting intent, a reached ceiling or a stale snapshot: the
\* transaction raises and nothing is kept.
IntentRefused(p) ==
  /\ At(p, "create")
  /\ Return(p, "blocked")
  /\ UNCHANGED << storeVars, order >>

MarkPending(p) ==
  /\ At(p, "pending")
  /\ IF wf[Act(p)].state = "intent_created"
       THEN wf_transition(Act(p), "submission_pending")
       ELSE UNCHANGED wf
  /\ Goto(p, "submitting")
  /\ UNCHANGED << intent, resv, evid, prop, order >>

\* The state this call expects to take the submission from.
submission_source(p) ==
  IF exact_pre_broker_recovery(p, Row(p)) THEN Row(p).state ELSE "reserved"

StartSubmission(p) ==
  /\ At(p, "submitting")
  /\ IF submission_source(p) = "submitting"
       THEN UNCHANGED << intent, resv >> /\ Goto(p, "starting")
       ELSE \/ /\ transition_from(Act(p), submission_source(p), "submitting")
               /\ Goto(p, "starting")
            \/ \* another worker owns submission
               /\ intent[Act(p)].state # submission_source(p)
               /\ UNCHANGED << intent, resv >>
               /\ Return(p, IF intent[Act(p)].state = "unknown"
                              THEN "unknown" ELSE "blocked")
  /\ UNCHANGED << evid, wf, prop, order >>

StartWorkflow(p) ==
  /\ At(p, "starting")
  /\ IF wf[Act(p)].state = "submission_pending"
       THEN wf_transition(Act(p), "submission_started")
       ELSE UNCHANGED wf
  /\ Goto(p, "verify")
  /\ UNCHANGED << intent, resv, evid, prop, order >>

\* Mutant: the marker is not looked at.
boundary_holds_unmarked(a) ==
  /\ intent[a].state = "submitting"
  /\ resv[a].state = "active"
  /\ prop[a] = "approved"
  /\ wf[a].state = "submission_started"

\* What both transactions at the adapter boundary check.
boundary_holds(a) ==
  /\ intent[a].state = "submitting"
  /\ ~ intent[a].marked
  /\ resv[a].state = "active"
  /\ prop[a] = "approved"
  /\ wf[a].state = "submission_started"

\* verify_snapshot_immediately_before_broker binds the refreshed snapshot.
VerifySnapshot(p) ==
  /\ At(p, "verify")
  /\ \/ /\ boundary_holds(Act(p))
        /\ intent' = [intent EXCEPT ![Act(p)].bound = p]
        /\ Goto(p, "reread")
     \/ UNCHANGED intent /\ Goto(p, "rejecting")
  /\ UNCHANGED << resv, evid, wf, prop, order >>

ReadBack(p) ==
  /\ At(p, "reread")
  /\ \/ proc' = [proc EXCEPT ![p].pc = "mark",
                             ![p].bound = intent[Act(p)].bound]
     \/ Goto(p, "rejecting")
  /\ UNCHANGED << storeVars, order >>

\* The invocation marker is committed before the adapter is called.
MarkInvocation(p) ==
  /\ At(p, "mark")
  /\ IF boundary_holds(Act(p)) /\ intent[Act(p)].bound = proc[p].bound
       THEN /\ intent' = [intent EXCEPT ![Act(p)].marked = TRUE]
            /\ Goto(p, "marked")
       ELSE UNCHANGED intent /\ Goto(p, "rejecting")
  /\ UNCHANGED << resv, evid, wf, prop, order >>

\* Any failure before the adapter: the code asks for SUBMITTING and not for
\* an unmarked row.
RejectBeforeBroker(p) ==
  /\ At(p, "rejecting")
  /\ transition_from(Act(p), "submitting", "rejected")
  /\ Goto(p, "rejectWorkflow")
  /\ UNCHANGED << evid, wf, prop, order >>

CloseRejectedWorkflow(p) ==
  /\ At(p, "rejectWorkflow")
  /\ IF wf[Act(p)].state = "submission_started"
       THEN wf_transition(Act(p), "terminal")
       ELSE UNCHANGED wf
  /\ Return(p, "blocked")
  /\ UNCHANGED << intent, resv, evid, prop, order >>

CallBroker(p) ==
  /\ At(p, "marked")
  /\ submit_order(Act(p))
  /\ Goto(p, "waiting")
  /\ UNCHANGED storeVars

\* BrokerSubmissionNotAttempted: the request was never built.
AdapterRefuses(p) ==
  /\ At(p, "marked")
  /\ Goto(p, "refused")
  /\ UNCHANGED << storeVars, order >>

BrokerAnswers(p) ==
  /\ At(p, "waiting")
  /\ order[Act(p)].status \in RemoteStatuses
  /\ proc' = [proc EXCEPT ![p].pc = "answered",
                          ![p].obs = remote_view(Act(p))]
  /\ UNCHANGED << storeVars, order >>

\* Mutant: a timeout is classified as a request that was never built.
AnswerLost_as_refusal(p) ==
  /\ At(p, "waiting")
  /\ Goto(p, "refused")
  /\ UNCHANGED << storeVars, order >>

\* A timeout, a lost connection or an error status.
AnswerLost(p) ==
  /\ At(p, "waiting")
  /\ Goto(p, "ambiguous")
  /\ UNCHANGED << storeVars, order >>

fill_response(o) == o.status \in { "filled", "partially_filled" }

\* Only a fill is told apart in the response; every other status is booked
\* as submitted.
BookResponse(p) ==
  /\ At(p, "answered")
  /\ LET o == proc[p].obs
     IN \/ fill_response(o) /\ record_fill(Act(p), o.filled, o.status, "submission")
        \/ ~ fill_response(o) /\ transition(Act(p), "submitted") /\ UNCHANGED evid
  /\ proc' = [proc EXCEPT ![p].pc = "acknowledge", ![p].res = "submitted"]
  /\ UNCHANGED << wf, prop, order >>

\* A fill without quantity or price is not booked.
BookIncompleteFill(p) ==
  /\ At(p, "answered")
  /\ fill_response(proc[p].obs)
  /\ transition(Act(p), "unknown")
  /\ proc' = [proc EXCEPT ![p].pc = "acknowledge", ![p].res = "unknown"]
  /\ UNCHANGED << evid, wf, prop, order >>

\* The answer is here but a local update of it raises: the request is
\* treated like one that was never answered.
LocalUpdateFails(p) ==
  /\ At(p, "answered") \/ (At(p, "acknowledge") /\ proc[p].res = "submitted")
  /\ Goto(p, "ambiguous")
  /\ UNCHANGED << storeVars, order >>

\* Mutant: no answer is taken for a rejection.
MarkUnknown_as_rejected(p) ==
  /\ At(p, "ambiguous")
  /\ transition(Act(p), "rejected")
  /\ proc' = [proc EXCEPT ![p].pc = "acknowledge", ![p].res = "unknown"]
  /\ UNCHANGED << evid, wf, prop, order >>

MarkUnknown(p) ==
  /\ At(p, "ambiguous")
  /\ transition(Act(p), "unknown")
  /\ proc' = [proc EXCEPT ![p].pc = "acknowledge", ![p].res = "unknown"]
  /\ UNCHANGED << evid, wf, prop, order >>

Acknowledge(p) ==
  /\ At(p, "acknowledge")
  /\ IF wf[Act(p)].state = "submission_started"
       THEN wf_transition(Act(p), proc[p].res)
       ELSE UNCHANGED wf
  /\ Goto(p, "returned")
  /\ UNCHANGED << intent, resv, evid, prop, order >>

ClearMark(p) ==
  /\ At(p, "refused")
  /\ intent' = [intent EXCEPT ![Act(p)].marked = FALSE]
  /\ Goto(p, "refusing")
  /\ UNCHANGED << resv, evid, wf, prop, order >>

RejectRefused(p) ==
  /\ At(p, "refusing")
  /\ transition(Act(p), "rejected")
  /\ Goto(p, "rejectWorkflow")
  /\ UNCHANGED << evid, wf, prop, order >>

\* Statements whose exception leaves execute.  A refused transition raises
\* there, and so does a database that stays locked.
RaisingPCs ==
  { "authority", "persist", "pending", "submitting", "starting",
    "rejecting", "rejectWorkflow", "ambiguous", "refused", "refusing" }

\* The live caller lets the exception go; recover catches what its
\* submission callback raises.
ExecuteRaises(p) ==
  /\ proc[p].pc \in RaisingPCs
  /\ IF proc[p].kind = "recover" THEN Goto(p, "failed") ELSE Finish(p)
  /\ UNCHANGED << storeVars, order >>

(***************************************************************************)
(* The live caller settles the workflow and the proposal.                  *)
(***************************************************************************)

\* A blocked approval that had passed validation is closed by the batch
\* path only; the single and the rotation path leave it to recovery.
settled_workflow(s, res) ==
  CASE res = "submitted" /\ s = "intent_created" -> { "submitted" }
    [] res = "unknown" /\ s = "intent_created" -> { "unknown" }
    [] res = "blocked" /\ s = "validating" -> { "blocked" }
    [] res = "blocked" /\ s = "approved_pending_intent" -> { "blocked", s }
    [] OTHER -> { s }

SettleWorkflow(p) ==
  /\ At(p, "returned")
  /\ proc[p].kind = "live"
  /\ \E t \in settled_workflow(wf[Act(p)].state, proc[p].res) :
       wf' = [wf EXCEPT ![Act(p)].state = t]
  /\ Goto(p, "closing")
  /\ UNCHANGED << intent, resv, evid, prop, order >>

CloseProposal(p) ==
  /\ At(p, "closing")
  /\ prop' = [prop EXCEPT ![Act(p)] = "closed"]
  /\ Finish(p)
  /\ UNCHANGED << intent, resv, evid, wf, order >>

LiveStep(p) ==
  \/ \E a \in Actions : AcceptApproval(p, a)
  \/ BeginValidation(p)
  \/ RefuseApproval(p)
  \/ ConsumeApproval(p)
  \/ FinalRevalidation(p)
  \/ SettleWorkflow(p)
  \/ CloseProposal(p)

ExecuteStep(p) ==
  \/ LoadAuthority(p)
  \/ BrokerMissing(p)
  \/ PersistValidation(p)
  \/ CreateIntent(p)
  \/ GetIntent(p)
  \/ IntentRefused(p)
  \/ MarkPending(p)
  \/ StartSubmission(p)
  \/ StartWorkflow(p)
  \/ VerifySnapshot(p)
  \/ ReadBack(p)
  \/ MarkInvocation(p)
  \/ RejectBeforeBroker(p)
  \/ CloseRejectedWorkflow(p)
  \/ CallBroker(p)
  \/ AdapterRefuses(p)
  \/ BrokerAnswers(p)
  \/ AnswerLost(p)
  \/ BookResponse(p)
  \/ BookIncompleteFill(p)
  \/ LocalUpdateFails(p)
  \/ MarkUnknown(p)
  \/ Acknowledge(p)
  \/ ClearMark(p)
  \/ RejectRefused(p)
  \/ ExecuteRaises(p)
=============================================================================
