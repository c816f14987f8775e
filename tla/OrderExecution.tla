--------------------------- MODULE OrderExecution ---------------------------
(***************************************************************************)
(* The whole execution core: live callers, workflow recovery and broker    *)
(* reconciliation in several processes over one database, against the      *)
(* paper broker, with crashes.  MaxCrashes bounds the crashes of a         *)
(* behaviour.                                                              *)
(***************************************************************************)
EXTENDS WorkflowRecovery

CONSTANT MaxCrashes

ASSUME MaxCrashesAssumption == MaxCrashes \in Nat

VARIABLE crashes

allVars == << vars, crashes >>

TypeOK ==
  /\ StoreTypeOK
  /\ BrokerTypeOK
  /\ ProcTypeOK
  /\ crashes \in Nat

Init == StoreInit /\ BrokerInit /\ ProcInit /\ crashes = 0

\* A killed process loses its locals; the rows it committed, the request it
\* sent and the claim it held remain.
Crash(p) ==
  /\ ~ At(p, "idle")
  /\ crashes < MaxCrashes
  /\ crashes' = crashes + 1
  /\ leak_claim(p)
  /\ Finish(p)
  /\ UNCHANGED << intent, resv, evid, prop, order >>

ProcStep(p) ==
  \/ LiveStep(p)
  \/ ExecuteStep(p)
  \/ StartCycle(p)
  \/ PassStep(p)
  \/ \E a \in Actions : ClaimWorkflow(p, a)
  \/ RecoveryStep(p)

Environment(a) ==
  \/ ExpireProposal(a)
  \/ ExpireLease(a)
  \/ BrokerStep(a) /\ UNCHANGED << storeVars, proc >>

Next ==
  \/ (\E p \in Procs : ProcStep(p)) /\ UNCHANGED crashes
  \/ \E p \in Procs : Crash(p)
  \/ (\E a \in Actions : Environment(a)) /\ UNCHANGED crashes

Spec == Init /\ [][Next]_allVars

\* Fairness.  A running process takes its next step; the scheduler starts
\* cycles again and again; the broker is reachable now and then and does
\* not withhold a fill's price for ever; a request does not travel for ever.
\* Nobody is promised an approval, a fill, a cancellation or a recoverer.
Fairness ==
  /\ \A p \in Procs :
       /\ WF_allVars(~ At(p, "idle") /\ ProcStep(p) /\ UNCHANGED crashes)
       /\ SF_allVars(StartCycle(p) /\ UNCHANGED crashes)
       /\ \A a \in Actions :
            SF_allVars(LookupAnswers(p, a) /\ UNCHANGED crashes)
       /\ SF_allVars(ApplyFill(p) /\ UNCHANGED crashes)
  /\ \A a \in Actions :
       WF_allVars((Arrive(a) \/ Vanish(a))
                    /\ UNCHANGED << storeVars, proc, crashes >>)

FairSpec == Spec /\ Fairness

(***************************************************************************)
(* Properties                                                              *)
(***************************************************************************)

\* At most one request per approved action ever leaves the process, however
\* execute, recovery and crashes interleave.
AtMostOneRequest == \A a \in Actions : order[a].sent <= 1

\* Every request was preceded by its durable invocation marker, and the
\* marker outlives the process that set it.
MarkPrecedesRequest ==
  \A a \in Actions : order[a].sent > 0 => intent[a].marked

\* An intent holds its reservation exactly as long as it is not terminal,
\* for exactly the quantity that has not been booked.
ReservationTracksIntent ==
  \A a \in Actions :
    resv[a] = IF intent[a].state = "none"
                THEN [state |-> "none", units |-> 0]
              ELSE IF intent[a].state \in TERMINAL_STATES THEN Released
              ELSE [state |-> "active", units |-> Qty - intent[a].filled]

\* No two intents for the same symbol and side are active together.
OneActivePerSlot ==
  \A a, b \in Actions :
    /\ a # b
    /\ SlotOf[a] = SlotOf[b]
    => resv[a].state # "active" \/ resv[b].state # "active"

\* The books never show more than the broker executed.
BookedWithinBroker ==
  \A a \in Actions : intent[a].filled <= order[a].filled

\* Whatever may still execute at the broker is still reserved here.
LiveOrderStaysReserved ==
  \A a \in Actions : possibly_live(a) => resv[a].state = "active"

\* A workflow is closed only when its intent is settled or was never made.
ClosedWorkflowHasNoOpenIntent ==
  \A a \in Actions :
    wf[a].state \in { "blocked", "terminal" } =>
      intent[a].state \in TERMINAL_STATES \cup { "none" }

\* Once its request may have been sent, an intent is never again made
\* eligible for submission.
NeverReopened ==
  [][\A a \in Actions :
       intent[a].marked /\ intent[a].state \notin PRE_SUBMISSION_STATES
         => intent'[a].state \notin PRE_SUBMISSION_STATES]_allVars

\* A fill that is already booked may be reported again, by whoever asks.
RepeatedFillIsAccepted ==
  \A p \in Procs :
    LET o == proc[p].obs
        a == proc[p].cur
    IN At(p, "apply") /\ fill_response(o) /\ evid[a][o.filled] # "none"
         => evidence_accepted(a, o.filled, o.status, "reconciliation")

\* What was booked is never taken back, in whatever order two processes
\* apply what they saw at the broker.
BookedOnlyGrows ==
  [][\A a \in Actions : intent'[a].filled >= intent[a].filled]_allVars

settled(a) == intent[a].state \in TERMINAL_STATES

\* A complete fill is booked in the end, whatever answer was lost.
FilledIsBooked ==
  \A a \in Actions :
    order[a].status = "filled" ~> intent[a].filled = Qty /\ settled(a)

\* A marked intent whose order was rejected, or never got there, is settled:
\* a crash right after the marker does not hold its reservation for ever.
AbsentOrRejectedIsSettled ==
  \A a \in Actions :
    (intent[a].marked /\ order[a].status \in { "absent", "rejected" })
    ~> (settled(a) \/ possibly_live(a) \/ ~ intent[a].marked)

\* An order that was cancelled or expired before any fill gives its
\* reservation back.
CancelWithoutFillReleases ==
  \A a \in Actions :
    (order[a].status \in { "canceled", "expired" } /\ order[a].filled = 0)
    ~> resv[a].state = "released"

\* An order that was cancelled after a partial fill keeps what was filled
\* and gives the rest of its reservation back.
CancelAfterPartialFillReleases ==
  \A a \in Actions :
    (order[a].status \in { "canceled", "expired" } /\ order[a].filled > 0)
    ~> resv[a].state = "released"

\* The promise of OrderPromise, read off the tables and the broker.
Promise == INSTANCE OrderPromise WITH
  capital <- [a \in Actions |-> resv[a].state],
  announced <- [a \in Actions |-> intent[a].marked],
  requests <- [a \in Actions |-> order[a].sent],
  live <- [a \in Actions |-> possibly_live(a)],
  executed <- [a \in Actions |-> order[a].filled],
  booked <- [a \in Actions |-> intent[a].filled]

\* One process implements the promise: whatever it sends is announced and
\* reserved first, it sends once, books only what was executed and never less
\* than before, and gives capital back only when nothing can execute.
KeepsPromise == Promise!Spec
=============================================================================
