--------------------------- MODULE Reconciliation ---------------------------
(***************************************************************************)
(* BrokerReconciler.reconcile (app/reconciliation.py).  A pass reads the   *)
(* broker-relevant intents once, then takes them in the order they were    *)
(* created: one broker lookup each, and what the answer means is decided   *)
(* from the row as it was read.  It never submits.  An exception ends the  *)
(* whole pass, whoever runs it: the scheduled cycle, or workflow recovery  *)
(* as its lookup-only callback.                                            *)
(***************************************************************************)
EXTENDS Executor

Cur(p) == proc[p].cur
Stale(p) == proc[p].rows[Cur(p)]

reconcilable == { a \in Actions : intent[a].state \in BROKER_RELEVANT_STATES }

\* SELECT ... WHERE state IN (...): the rows every later step goes by.
begin_pass(p, k) ==
  proc' = [proc EXCEPT
    ![p].pc = "pass", ![p].kind = k, ![p].todo = reconcilable,
    ![p].rows = [a \in Actions |->
                   IF a \in reconcilable THEN row_of(a) ELSE NoRow]]

\* ORDER BY created_at
next_in_pass(p, a) ==
  /\ a \in proc[p].todo
  /\ \A b \in proc[p].todo : intent[a].born <= intent[b].born

\* Done with a: its locals are dead.
next_intent(p, a) ==
  proc' = [proc EXCEPT
    ![p].pc = "pass", ![p].cur = NoAction, ![p].todo = @ \ {a},
    ![p].rows[a] = NoRow, ![p].obs = NoAnswer]

\* A process that stops without releasing its claim.
leak_claim(p) ==
  wf' = [a \in Actions |->
           IF wf[a].owner = p THEN [wf[a] EXCEPT !.owner = Lost] ELSE wf[a]]

\* Workflow recovery handles ValueError and lets InvalidOrderTransition go.
pass_raises(p, e) ==
  /\ IF proc[p].kind = "recover" /\ e = "ValueError"
       THEN /\ proc' = [proc EXCEPT
                 ![p].pc = "release", ![p].cur = NoAction, ![p].todo = {},
                 ![p].rows = IdleProc.rows, ![p].obs = NoAnswer]
            /\ UNCHANGED wf
       ELSE Finish(p) /\ leak_claim(p)

StartCycle(p) ==
  /\ At(p, "idle")
  /\ "cycle" \in Work[p]
  /\ begin_pass(p, "cycle")
  /\ UNCHANGED << storeVars, order >>

EndPass(p) ==
  /\ At(p, "pass")
  /\ proc[p].todo = {}
  /\ IF proc[p].kind = "recover" THEN Goto(p, "looked") ELSE Finish(p)
  /\ UNCHANGED << storeVars, order >>

\* A timeout or an error that is not "not found": nothing is concluded.
LookupFails(p, a) ==
  /\ At(p, "pass") /\ next_in_pass(p, a)
  /\ next_intent(p, a)
  /\ UNCHANGED << storeVars, order >>

LookupAnswers(p, a) ==
  /\ At(p, "pass") /\ next_in_pass(p, a)
  /\ lookup_answers(a)
  /\ proc' = [proc EXCEPT
       ![p].cur = a,
       ![p].obs = remote_view(a),
       ![p].pc = IF remote_view(a).status = "missing" THEN "absence"
                 ELSE "found"]
  /\ UNCHANGED << storeVars, order >>

(***************************************************************************)
(* Not found: three observations in a row confirm that nothing was sent.   *)
(***************************************************************************)

\* The count is taken from the row as read, not from the database.
observations(p) == Stale(p).absent + 1

AtMost(m, n) == IF m <= n THEN m ELSE n

\* Mutant: the count is not saved.
RecordAbsence_forgets(p) ==
  /\ At(p, "absence")
  /\ Goto(p, "absenceMove")
  /\ UNCHANGED << storeVars, order >>

RecordAbsence(p) ==
  /\ At(p, "absence")
  /\ intent' = [intent EXCEPT
       ![Cur(p)].absent = AtMost(observations(p), CONFIRMED_ABSENCE_OBSERVATIONS)]
  /\ Goto(p, "absenceMove")
  /\ UNCHANGED << resv, evid, wf, prop, order >>

absence_target(p) ==
  IF observations(p) >= CONFIRMED_ABSENCE_OBSERVATIONS THEN "rejected"
  ELSE "reconciliation_required"

\* An UNKNOWN row keeps its state until the absence is confirmed.
absence_concludes(p) ==
  absence_target(p) = "rejected" \/ Stale(p).state # "unknown"

ConcludeAbsence(p) ==
  /\ At(p, "absenceMove")
  /\ \/ ~ absence_concludes(p) /\ UNCHANGED << intent, resv >>
     \/ absence_concludes(p) /\ transition(Cur(p), absence_target(p))
  /\ next_intent(p, Cur(p))
  /\ UNCHANGED << evid, wf, prop, order >>

AbsenceRaises(p) ==
  /\ At(p, "absenceMove")
  /\ absence_concludes(p)
  /\ ~ validate_transition(intent[Cur(p)].state, absence_target(p))
  /\ pass_raises(p, "InvalidOrderTransition")
  /\ UNCHANGED << intent, resv, evid, prop, order >>

(***************************************************************************)
(* Found.                                                                  *)
(***************************************************************************)

RecordFound(p) ==
  /\ At(p, "found")
  /\ intent' = [intent EXCEPT ![Cur(p)].absent = 0]
  /\ Goto(p, "apply")
  /\ UNCHANGED << resv, evid, wf, prop, order >>

reconciled_target(p) ==
  broker_status_to_state(proc[p].obs.status, proc[p].obs.filled)

\* _update_proposal_projection: an approved proposal follows its fill.
project(a, t) ==
  prop' = IF t \in { "filled", "partially_filled" } /\ prop[a] = "approved"
            THEN [prop EXCEPT ![a] = "closed"] ELSE prop

\* A cumulative quantity with its price goes through record_fill, whatever
\* the status is.
ApplyFill(p) ==
  /\ At(p, "apply")
  /\ proc[p].obs.filled > 0
  /\ record_fill(Cur(p), proc[p].obs.filled, proc[p].obs.status,
                 "reconciliation")
  /\ project(Cur(p), intent'[Cur(p)].state)
  /\ next_intent(p, Cur(p))
  /\ UNCHANGED << wf, order >>

ApplyFillRaises(p) ==
  /\ At(p, "apply")
  /\ LET a == Cur(p)
         o == proc[p].obs
     IN /\ o.filled > 0
        /\ \/ /\ ~ evidence_accepted(a, o.filled, o.status, "reconciliation")
              /\ pass_raises(p, "ValueError")
           \/ /\ evidence_accepted(a, o.filled, o.status, "reconciliation")
              /\ fill_refused(a, o.filled)
              /\ pass_raises(p, "InvalidOrderTransition")
  /\ UNCHANGED << intent, resv, evid, prop, order >>

\* A fill status without quantity or price is not booked.
RequireEvidence(p) ==
  /\ At(p, "apply")
  /\ reconciled_target(p) \in { "filled", "partially_filled" }
  /\ IF Stale(p).state \in { "filled", "reconciliation_required" }
       THEN UNCHANGED << intent, resv >>
       ELSE transition(Cur(p), "reconciliation_required")
  /\ next_intent(p, Cur(p))
  /\ UNCHANGED << evid, wf, prop, order >>

\* A late report of "submitted" never undoes a partial fill or a
\* cancellation in progress.
stale_status(p) ==
  /\ Stale(p).state \in { "partially_filled", "cancel_pending" }
  /\ reconciled_target(p) = "submitted"

status_moves(p) == Stale(p).state # reconciled_target(p) /\ ~ stale_status(p)

ApplyStatus(p) ==
  /\ At(p, "apply")
  /\ proc[p].obs.filled = 0
  /\ \/ ~ status_moves(p) /\ UNCHANGED << intent, resv >>
     \/ status_moves(p) /\ transition(Cur(p), reconciled_target(p))
  /\ project(Cur(p), reconciled_target(p))
  /\ next_intent(p, Cur(p))
  /\ UNCHANGED << evid, wf, order >>

ApplyStatusRaises(p) ==
  /\ At(p, "apply")
  /\ proc[p].obs.filled = 0
  /\ status_moves(p)
  /\ ~ validate_transition(intent[Cur(p)].state, reconciled_target(p))
  /\ pass_raises(p, "InvalidOrderTransition")
  /\ UNCHANGED << intent, resv, evid, prop, order >>

PassStep(p) ==
  \/ EndPass(p)
  \/ \E a \in Actions : LookupFails(p, a)
  \/ \E a \in Actions : LookupAnswers(p, a)
  \/ RecordAbsence(p)
  \/ ConcludeAbsence(p)
  \/ AbsenceRaises(p)
  \/ RecordFound(p)
  \/ ApplyFill(p)
  \/ ApplyFillRaises(p)
  \/ RequireEvidence(p)
  \/ ApplyStatus(p)
  \/ ApplyStatusRaises(p)
=============================================================================
