------------------------ MODULE OrderExecutionProofs ------------------------
(***************************************************************************)
(* Type correctness of OrderExecution and its first safety theorems: at    *)
(* most one request per approved action leaves the program, and only after *)
(* its invocation marker is durable, for every set of processes, every     *)
(* finite set of actions, every quantity and every number of crashes.      *)
(*                                                                         *)
(* Only four actions touch the marker or send: MarkInvocation, CallBroker, *)
(* AdapterRefuses and ClearMark.  Every other action is shown to be quiet, *)
(* and a quiet step preserves the inductive invariant.                     *)
(*                                                                         *)
(* The second part is about the books: the reservation of an intent and    *)
(* its logical action follow the state of the intent.  They change in      *)
(* three transactions of the store only (creation, transition, fill);      *)
(* every other action leaves them alone.                                   *)
(*                                                                         *)
(* The third part ties the tables to the broker.  Whatever was heard of an *)
(* order stays true of it, whoever asked (BrokerInv), so the books never   *)
(* show more than was executed.  The rest is about one process at a time:  *)
(* the executor, recovery and the reconciler run in turn, with crashes,    *)
(* lost answers and an order that moves at the broker between any two      *)
(* steps.  HandInv says what the process may rely on about the row it has  *)
(* read; AbsentSeen, that an order it was told is not there is not there,  *)
(* when lookups do not overtake requests.  From these the tables implement *)
(* OrderPromise; CloseInv adds the workflow of an approval.                *)
(***************************************************************************)
EXTENDS OrderExecution, FiniteSetTheorems, TLAPS

\* The process has set the marker and has not called the broker.
Holders == { "marked", "refused" }

\* Only a process that reconciles has no action of its own, and it has an
\* intent in hand except between two of them.
Placed(r) ==
  /\ r.act = NoAction => /\ r.pc \in {"idle"} \cup PassPCs
                         /\ r.kind # "recover"
  /\ r.cur = NoAction => r.pc \notin PassPCs \ {"pass"}

Located == \A p \in Procs : Placed(proc[p])

\* Between the marker and the call the action is marked and nothing is sent.
Held ==
  \A p \in Procs : proc[p].pc \in Holders =>
    intent[proc[p].act].marked /\ order[proc[p].act].sent = 0

\* One process at most is between the two for any action.
OneHolder ==
  \A p, q \in Procs :
    /\ proc[p].pc \in Holders /\ proc[q].pc \in Holders
    /\ proc[p].act = proc[q].act
    => p = q

SentOnce ==
  \A a \in Actions :
    /\ ~ intent[a].marked => order[a].sent = 0
    /\ order[a].sent <= 1

IInv == TypeOK /\ Located /\ Held /\ OneHolder /\ SentOnce

\* What a step keeps when it neither marks, unmarks nor sends.
MarkersKept == \A b \in Actions : intent'[b].marked = intent[b].marked

StoreKept ==
  /\ StoreTypeOK'
  /\ BrokerTypeOK'
  /\ MarkersKept
  /\ \A b \in Actions : order'[b].sent = order[b].sent

ProcKept ==
  /\ ProcTypeOK'
  /\ Located'
  /\ \A p \in Procs : proc'[p].pc \in Holders =>
       /\ proc[p].pc \in Holders
       /\ proc'[p].act = proc[p].act

Quiet == StoreKept /\ ProcKept

(***************************************************************************)
(* The transactions of the store.                                          *)
(***************************************************************************)

\* An intent row stays one when its state, its filled quantity, its marker,
\* its absence count or its snapshot is replaced.
LEMMA IntentRowTypes ==
  ASSUME NEW r \in IntentRows
  PROVE  /\ \A t \in OrderStates : [r EXCEPT !.state = t] \in IntentRows
         /\ \A t \in OrderStates, n \in 0..Qty :
              [r EXCEPT !.state = t, !.filled = n] \in IntentRows
         /\ \A m \in BOOLEAN : [r EXCEPT !.marked = m] \in IntentRows
         /\ \A n \in 0..CONFIRMED_ABSENCE_OBSERVATIONS :
              [r EXCEPT !.absent = n] \in IntentRows
         /\ \A p \in Procs : [r EXCEPT !.bound = p] \in IntentRows
         /\ \A t \in OrderStates, p \in Procs, n \in Nat :
              [r EXCEPT !.state = t, !.bound = p, !.born = n] \in IntentRows
<1>1. \A t \in OrderStates : [r EXCEPT !.state = t] \in IntentRows
  BY DEF IntentRows
<1>2. \A t \in OrderStates, n \in 0..Qty :
        [r EXCEPT !.state = t, !.filled = n] \in IntentRows
  BY DEF IntentRows
<1>3. \A m \in BOOLEAN : [r EXCEPT !.marked = m] \in IntentRows
  BY DEF IntentRows
<1>4. \A n \in 0..CONFIRMED_ABSENCE_OBSERVATIONS :
        [r EXCEPT !.absent = n] \in IntentRows
  BY DEF IntentRows
<1>5. \A p \in Procs : [r EXCEPT !.bound = p] \in IntentRows
  BY DEF IntentRows
<1>6. \A t \in OrderStates, p \in Procs, n \in Nat :
        [r EXCEPT !.state = t, !.bound = p, !.born = n] \in IntentRows
  BY DEF IntentRows
<1> QED
  BY <1>1, <1>2, <1>3, <1>4, <1>5, <1>6

\* Replacing one row by a row with the same marker.
LEMMA OneIntentRow ==
  ASSUME StoreTypeOK, NEW a \in Actions, NEW r \in IntentRows,
         r.marked = intent[a].marked, intent' = [intent EXCEPT ![a] = r]
  PROVE  intent' \in [Actions -> IntentRows] /\ MarkersKept
<1>1. intent \in [Actions -> IntentRows]
  BY DEF StoreTypeOK
<1>2. intent' \in [Actions -> IntentRows]
  BY <1>1
<1>3. MarkersKept
  BY <1>1 DEF MarkersKept
<1> QED
  BY <1>2, <1>3

\* A transition keeps the rows well formed and no marker changes.
LEMMA TransitionTypes ==
  ASSUME StoreTypeOK, NEW a \in Actions, NEW t \in OrderStates,
         transition(a, t)
  PROVE  /\ intent' \in [Actions -> IntentRows]
         /\ resv' \in [Actions -> ReservationRows]
         /\ MarkersKept
<1>1. intent' \in [Actions -> IntentRows]
  BY DEF StoreTypeOK, transition, IntentRows
<1>2. resv' \in [Actions -> ReservationRows]
  BY QtyAssumption DEF StoreTypeOK, transition, ReservationRows, Released
<1>3. MarkersKept
  BY DEF StoreTypeOK, transition, IntentRows, MarkersKept
<1> QED
  BY <1>1, <1>2, <1>3

\* A booked fill leaves well-formed rows: the cumulative quantity is within
\* the request and the reservation is what remains of it.
LEMMA RecordFillTypes ==
  ASSUME StoreTypeOK, NEW a \in Actions, NEW c \in 0..Qty, NEW s,
         NEW src \in EvidenceSources, record_fill(a, c, s, src)
  PROVE  /\ intent' \in [Actions -> IntentRows]
         /\ resv' \in [Actions -> ReservationRows]
         /\ evid' \in [Actions -> [1..Qty -> EvidenceSources]]
         /\ MarkersKept
<1> DEFINE r == [intent[a] EXCEPT !.state = fill_target(a, c), !.filled = c]
           v == IF fill_target(a, c) = "filled" \/ late_after_cancel(a, c)
                  THEN Released ELSE [state |-> "active", units |-> Qty - c]
<1>1. intent[a] \in IntentRows /\ fill_target(a, c) \in OrderStates
  BY DEF StoreTypeOK, fill_target, OrderStates
<1>2. r \in IntentRows /\ r.marked = intent[a].marked
  BY <1>1, IntentRowTypes DEF IntentRows
<1>3. v \in ReservationRows
  BY QtyAssumption DEF ReservationRows, Released
<1>4. evid' \in [Actions -> [1..Qty -> EvidenceSources]]
  BY DEF StoreTypeOK, record_fill
<1>5. CASE UNCHANGED << intent, resv >>
  BY <1>4, <1>5 DEF StoreTypeOK, MarkersKept
<1>6. CASE intent' = [intent EXCEPT ![a] = r] /\ resv' = [resv EXCEPT ![a] = v]
  <2>1. intent' \in [Actions -> IntentRows] /\ MarkersKept
    BY <1>2, <1>6, OneIntentRow
  <2>2. resv' \in [Actions -> ReservationRows]
    BY <1>3, <1>6 DEF StoreTypeOK
  <2> QED
    BY <1>4, <2>1, <2>2
<1>7. \/ UNCHANGED << intent, resv >>
      \/ intent' = [intent EXCEPT ![a] = r] /\ resv' = [resv EXCEPT ![a] = v]
  BY DEF record_fill, StoreTypeOK
<1> QED
  BY <1>5, <1>6, <1>7

\* A new intent is a well-formed, unmarked row with its reservation and link.
LEMMA CreateIntentTypes ==
  ASSUME StoreTypeOK, NEW p \in Procs, NEW a \in Actions, create_intent(p, a)
  PROVE  /\ intent' \in [Actions -> IntentRows]
         /\ resv' \in [Actions -> ReservationRows]
         /\ wf' \in [Actions -> WorkflowRows]
         /\ MarkersKept
<1> DEFINE n == Cardinality(existing_intents) + 1
           r == [intent[a] EXCEPT !.state = "reserved", !.bound = p,
                                  !.born = n]
<1>1. n \in Nat
  <2>1. IsFiniteSet(existing_intents)
    BY ActionsAssumption, FS_Subset DEF existing_intents
  <2> QED
    BY <2>1, FS_CardinalityType
<1>2. r \in IntentRows /\ r.marked = intent[a].marked
  <2>1. intent[a] \in IntentRows /\ "reserved" \in OrderStates
    BY DEF StoreTypeOK, OrderStates
  <2> HIDE DEF n
  <2>2. r \in IntentRows
    BY <1>1, <2>1, IntentRowTypes
  <2>3. r.marked = intent[a].marked
    BY <2>1 DEF IntentRows
  <2> QED
    BY <2>2, <2>3
<1>3. intent' = [intent EXCEPT ![a] = r]
  BY DEF create_intent, StoreTypeOK
<1>4. intent' \in [Actions -> IntentRows] /\ MarkersKept
  BY <1>2, <1>3, OneIntentRow
<1>5. resv' \in [Actions -> ReservationRows]
  BY QtyAssumption DEF StoreTypeOK, create_intent, ReservationRows
<1>6. wf' \in [Actions -> WorkflowRows]
  BY DEF StoreTypeOK, create_intent, WorkflowRows, WorkflowStates
<1> QED
  BY <1>4, <1>5, <1>6

\* Binding an existing row to a fresh snapshot changes no marker.
LEMMA GetIntentTypes ==
  ASSUME StoreTypeOK, NEW p \in Procs, NEW a \in Actions,
         get_intent_again(p, a)
  PROVE  intent' \in [Actions -> IntentRows] /\ MarkersKept
<1>1. intent' \in [Actions -> IntentRows]
  BY DEF StoreTypeOK, get_intent_again, IntentRows
<1>2. MarkersKept
  BY DEF StoreTypeOK, get_intent_again, IntentRows, MarkersKept
<1> QED
  BY <1>1, <1>2

(***************************************************************************)
(* What the steps of a process write, put together.                        *)
(***************************************************************************)

\* The general case: well-formed tables, markers and the broker untouched.
LEMMA TablesKept ==
  ASSUME TypeOK, MarkersKept,
         intent' \in [Actions -> IntentRows],
         resv' \in [Actions -> ReservationRows],
         evid' \in [Actions -> [1..Qty -> EvidenceSources]],
         wf' \in [Actions -> WorkflowRows],
         prop' \in [Actions -> ProposalStates],
         UNCHANGED order
  PROVE  StoreKept
BY DEF TypeOK, StoreKept, StoreTypeOK, BrokerTypeOK

\* A step of locals only.
LEMMA NothingWritten ==
  ASSUME TypeOK, UNCHANGED << storeVars, order >>
  PROVE  StoreKept
BY DEF TypeOK, StoreKept, StoreTypeOK, BrokerTypeOK, storeVars, MarkersKept

\* A step that writes the workflow table only.
LEMMA WorkflowWritten ==
  ASSUME TypeOK, wf' \in [Actions -> WorkflowRows],
         UNCHANGED << intent, resv, evid, prop, order >>
  PROVE  StoreKept
<1>1. StoreTypeOK'
  BY DEF TypeOK, StoreTypeOK
<1>2. BrokerTypeOK'
  BY DEF TypeOK, BrokerTypeOK
<1>3. MarkersKept /\ \A b \in Actions : order'[b].sent = order[b].sent
  BY DEF MarkersKept
<1>4. QED
  BY <1>1, <1>2, <1>3 DEF StoreKept

\* The same for a transition of one workflow.
LEMMA WorkflowMoved ==
  ASSUME TypeOK, NEW a \in Actions, NEW t \in WorkflowStates,
         wf_transition(a, t) \/ UNCHANGED wf,
         UNCHANGED << intent, resv, evid, prop, order >>
  PROVE  StoreKept
<1>1. wf' \in [Actions -> WorkflowRows]
  BY ZenonT(60) DEF TypeOK, StoreTypeOK, wf_transition, WorkflowRows
<1> QED
  BY <1>1, WorkflowWritten

\* The same for the claim of a process that stops.
LEMMA ClaimLeaked ==
  ASSUME TypeOK, NEW p \in Procs, leak_claim(p),
         UNCHANGED << intent, resv, evid, prop, order >>
  PROVE  StoreKept
<1>1. wf' \in [Actions -> WorkflowRows]
  BY DEF TypeOK, StoreTypeOK, leak_claim, WorkflowRows
<1> QED
  BY <1>1, WorkflowWritten

\* A transition of one intent, or none.
LEMMA IntentMoved ==
  ASSUME TypeOK, NEW a \in Actions, NEW t \in OrderStates,
         transition(a, t) \/ UNCHANGED << intent, resv >>,
         UNCHANGED << evid, wf, order >>,
         prop' \in [Actions -> ProposalStates]
  PROVE  StoreKept
<1>1. CASE transition(a, t)
  BY <1>1, TransitionTypes, TablesKept DEF TypeOK, StoreTypeOK
<1>2. CASE UNCHANGED << intent, resv >>
  BY <1>2 DEF TypeOK, StoreKept, StoreTypeOK, BrokerTypeOK, MarkersKept
<1> QED
  BY <1>1, <1>2

\* An update of one intent row that leaves its marker.
LEMMA IntentRowWritten ==
  ASSUME TypeOK, NEW a \in Actions, NEW r \in IntentRows,
         r.marked = intent[a].marked, intent' = [intent EXCEPT ![a] = r],
         UNCHANGED << resv, evid, wf, prop, order >>
  PROVE  StoreKept
<1>1. intent' \in [Actions -> IntentRows] /\ MarkersKept
  BY OneIntentRow DEF TypeOK
<1> QED
  BY <1>1, TablesKept DEF TypeOK, StoreTypeOK

\* A step that writes the proposal only.
LEMMA ProposalWritten ==
  ASSUME TypeOK, prop' \in [Actions -> ProposalStates],
         UNCHANGED << intent, resv, evid, wf, order >>
  PROVE  StoreKept
BY DEF TypeOK, StoreKept, StoreTypeOK, BrokerTypeOK, MarkersKept

(***************************************************************************)
(* The locals of a process.                                                *)
(***************************************************************************)

\* A process that executes or resumes something has an action.
LEMMA Working ==
  ASSUME TypeOK, Located, NEW p \in Procs,
         proc[p].pc \notin {"idle"} \cup PassPCs
  PROVE  Act(p) \in Actions
BY DEF TypeOK, ProcTypeOK, ProcRows, Located, Placed, Act

\* What a process reads of an intent row is a row view.
LEMMA RowOfType ==
  ASSUME TypeOK, NEW a \in Actions
  PROVE  row_of(a) \in RowViews
BY DEF TypeOK, StoreTypeOK, IntentRows, row_of, RowViews

\* The row view of an intent that was not read.
LEMMA NoRowType == NoRow \in RowViews
BY DEF NoRow, RowViews, CONFIRMED_ABSENCE_OBSERVATIONS

\* What a lookup reports is an answer.
LEMMA RemoteViewType ==
  ASSUME TypeOK, NEW a \in Actions
  PROVE  remote_view(a) \in Answers
BY DEF TypeOK, BrokerTypeOK, OrderRows, remote_view, Answers

\* The locals of an idle process.
LEMMA IdleType == IdleProc \in ProcRows
BY QtyAssumption
DEF IdleProc, ProcRows, PCs, NoRow, RowViews, NoAnswer, Answers, Results,
    CONFIRMED_ABSENCE_OBSERVATIONS

\* A step that replaces the record of one process.
LEMMA LocalsReplaced ==
  ASSUME TypeOK, Located, NEW p \in Procs, NEW r \in ProcRows,
         r.pc \notin Holders, Placed(r), proc' = [proc EXCEPT ![p] = r]
  PROVE  ProcKept
<1>1. ProcTypeOK'
  BY DEF TypeOK, ProcTypeOK
<1>2. Located'
  BY DEF TypeOK, ProcTypeOK, Located
<1>3. \A q \in Procs : proc'[q].pc \in Holders =>
        proc[q].pc \in Holders /\ proc'[q].act = proc[q].act
  BY DEF TypeOK, ProcTypeOK
<1> QED
  BY <1>1, <1>2, <1>3 DEF ProcKept

\* The record of a process after the assignments the steps make.
LEMMA LocalsTypes ==
  ASSUME NEW r \in ProcRows, NEW l \in PCs
  PROVE  /\ [r EXCEPT !.pc = l] \in ProcRows
         /\ \A x \in Results : [r EXCEPT !.pc = l, !.res = x] \in ProcRows
         /\ \A a \in Actions, v \in RowViews :
              [r EXCEPT !.pc = l, !.rows[a] = v] \in ProcRows
         /\ \A b \in Procs \cup {NoProc} :
              [r EXCEPT !.pc = l, !.bound = b] \in ProcRows
         /\ \A o \in Answers : [r EXCEPT !.pc = l, !.obs = o] \in ProcRows
         /\ \A w \in WorkflowStates \cup {"none"} :
              /\ [r EXCEPT !.pc = l, !.wseen = w] \in ProcRows
              /\ [r EXCEPT !.wseen = w] \in ProcRows
<1>1. [r EXCEPT !.pc = l] \in ProcRows
  BY DEF ProcRows
<1>2. \A x \in Results : [r EXCEPT !.pc = l, !.res = x] \in ProcRows
  BY DEF ProcRows
<1>3. \A a \in Actions, v \in RowViews :
        [r EXCEPT !.pc = l, !.rows[a] = v] \in ProcRows
  BY DEF ProcRows
<1>4. \A b \in Procs \cup {NoProc} :
        [r EXCEPT !.pc = l, !.bound = b] \in ProcRows
  BY DEF ProcRows
<1>5. \A o \in Answers : [r EXCEPT !.pc = l, !.obs = o] \in ProcRows
  BY DEF ProcRows
<1>6. \A w \in WorkflowStates \cup {"none"} :
        [r EXCEPT !.pc = l, !.wseen = w] \in ProcRows
  BY DEF ProcRows
<1>7. \A w \in WorkflowStates \cup {"none"} :
        [r EXCEPT !.wseen = w] \in ProcRows
  BY DEF ProcRows
<1> QED
  BY <1>1, <1>2, <1>3, <1>4, <1>5, <1>6, <1>7

\* The same for process p, whose action stays what it is.
LEMMA LocalsKept ==
  ASSUME TypeOK, Located, NEW p \in Procs, Act(p) \in Actions,
         NEW l \in PCs \ (Holders \cup PassPCs),
         \/ Goto(p, l)
         \/ \E x \in Results : proc' = [proc EXCEPT ![p].pc = l, ![p].res = x]
         \/ \E a \in Actions, v \in RowViews :
            proc' = [proc EXCEPT ![p].pc = l, ![p].rows[a] = v]
         \/ \E b \in Procs \cup {NoProc} :
            proc' = [proc EXCEPT ![p].pc = l, ![p].bound = b]
         \/ \E o \in Answers : proc' = [proc EXCEPT ![p].pc = l, ![p].obs = o]
         \/ \E w \in WorkflowStates \cup {"none"} :
            proc' = [proc EXCEPT ![p].pc = l, ![p].wseen = w]
  PROVE  ProcKept
<1>1. proc[p] \in ProcRows /\ Act(p) # NoAction
  BY NoActionAssumption DEF TypeOK, ProcTypeOK
<1>2. CASE Goto(p, l)
  <2> DEFINE r == [proc[p] EXCEPT !.pc = l]
  <2>2. r \in ProcRows
    BY <1>1, LocalsTypes
  <2>3. r.pc = l /\ Placed(r)
    BY <1>1 DEF ProcRows, Placed, Act
  <2>4. proc' = [proc EXCEPT ![p] = r]
    BY <1>2 DEF TypeOK, ProcTypeOK, Goto
  <2> HIDE DEF r
  <2> QED
    BY <2>2, <2>3, <2>4, LocalsReplaced
<1>3. CASE \E x \in Results : proc' = [proc EXCEPT ![p].pc = l, ![p].res = x]
  <2>1. PICK x \in Results :
          proc' = [proc EXCEPT ![p].pc = l, ![p].res = x]
    BY <1>3
  <2> DEFINE r == [proc[p] EXCEPT !.pc = l, !.res = x]
  <2>2. r \in ProcRows
    BY <1>1, LocalsTypes
  <2>3. r.pc = l /\ Placed(r)
    BY <1>1 DEF ProcRows, Placed, Act
  <2>4. proc' = [proc EXCEPT ![p] = r]
    BY <2>1 DEF TypeOK, ProcTypeOK
  <2> HIDE DEF r
  <2> QED
    BY <2>2, <2>3, <2>4, LocalsReplaced
<1>4. CASE \E a \in Actions, v \in RowViews :
            proc' = [proc EXCEPT ![p].pc = l, ![p].rows[a] = v]
  <2>1. PICK a \in Actions, v \in RowViews :
          proc' = [proc EXCEPT ![p].pc = l, ![p].rows[a] = v]
    BY <1>4
  <2> DEFINE r == [proc[p] EXCEPT !.pc = l, !.rows[a] = v]
  <2>2. r \in ProcRows
    BY <1>1, LocalsTypes
  <2>3. r.pc = l /\ Placed(r)
    BY <1>1 DEF ProcRows, Placed, Act
  <2>4. proc' = [proc EXCEPT ![p] = r]
    BY <2>1, <1>1 DEF TypeOK, ProcTypeOK, ProcRows
  <2> HIDE DEF r
  <2> QED
    BY <2>2, <2>3, <2>4, LocalsReplaced
<1>5. CASE \E b \in Procs \cup {NoProc} :
            proc' = [proc EXCEPT ![p].pc = l, ![p].bound = b]
  <2>1. PICK b \in Procs \cup {NoProc} :
          proc' = [proc EXCEPT ![p].pc = l, ![p].bound = b]
    BY <1>5
  <2> DEFINE r == [proc[p] EXCEPT !.pc = l, !.bound = b]
  <2>2. r \in ProcRows
    BY <1>1, LocalsTypes
  <2>3. r.pc = l /\ Placed(r)
    BY <1>1 DEF ProcRows, Placed, Act
  <2>4. proc' = [proc EXCEPT ![p] = r]
    BY <2>1 DEF TypeOK, ProcTypeOK
  <2> HIDE DEF r
  <2> QED
    BY <2>2, <2>3, <2>4, LocalsReplaced
<1>6. CASE \E o \in Answers : proc' = [proc EXCEPT ![p].pc = l, ![p].obs = o]
  <2>1. PICK o \in Answers :
          proc' = [proc EXCEPT ![p].pc = l, ![p].obs = o]
    BY <1>6
  <2> DEFINE r == [proc[p] EXCEPT !.pc = l, !.obs = o]
  <2>2. r \in ProcRows
    BY <1>1, LocalsTypes
  <2>3. r.pc = l /\ Placed(r)
    BY <1>1 DEF ProcRows, Placed, Act
  <2>4. proc' = [proc EXCEPT ![p] = r]
    BY <2>1 DEF TypeOK, ProcTypeOK
  <2> HIDE DEF r
  <2> QED
    BY <2>2, <2>3, <2>4, LocalsReplaced
<1>7. CASE \E w \in WorkflowStates \cup {"none"} :
            proc' = [proc EXCEPT ![p].pc = l, ![p].wseen = w]
  <2>1. PICK w \in WorkflowStates \cup {"none"} :
          proc' = [proc EXCEPT ![p].pc = l, ![p].wseen = w]
    BY <1>7
  <2> DEFINE r == [proc[p] EXCEPT !.pc = l, !.wseen = w]
  <2>2. r \in ProcRows
    BY <1>1, LocalsTypes
  <2>3. r.pc = l /\ Placed(r)
    BY <1>1 DEF ProcRows, Placed, Act
  <2>4. proc' = [proc EXCEPT ![p] = r]
    BY <2>1 DEF TypeOK, ProcTypeOK
  <2> HIDE DEF r
  <2> QED
    BY <2>2, <2>3, <2>4, LocalsReplaced
<1> QED
  BY <1>2, <1>3, <1>4, <1>5, <1>6, <1>7
\* A process that finishes holds nothing.
LEMMA LocalsFinished ==
  ASSUME TypeOK, Located, NEW p \in Procs, Finish(p)
  PROVE  ProcKept
<1>1. IdleProc.pc \notin Holders /\ Placed(IdleProc)
  BY DEF IdleProc, Holders, Placed, PassPCs
<1> QED
  BY <1>1, IdleType, LocalsReplaced DEF Finish

\* Consuming or closing a proposal.
LEMMA ProposalTypes ==
  ASSUME TypeOK, NEW a \in Actions,
         consume_approval(a) \/ prop' = [prop EXCEPT ![a] = "closed"]
  PROVE  prop' \in [Actions -> ProposalStates]
BY DEF TypeOK, StoreTypeOK, consume_approval, ProposalStates

\* The state the live caller settles a workflow in.
LEMMA SettledTypes ==
  ASSUME TypeOK, NEW a \in Actions, NEW res,
         NEW t \in settled_workflow(wf[a].state, res),
         wf' = [wf EXCEPT ![a].state = t]
  PROVE  wf' \in [Actions -> WorkflowRows]
<1>1. wf \in [Actions -> WorkflowRows]
  BY DEF TypeOK, StoreTypeOK
<1>2. t \in WorkflowStates \cup {"none"}
  BY <1>1 DEF WorkflowRows, WorkflowStates, settled_workflow
<1> QED
  BY <1>1, <1>2 DEF WorkflowRows

\* The quantity of the broker's last answer is within the request.
LEMMA AnswerTypes ==
  ASSUME TypeOK, NEW p \in Procs
  PROVE  proc[p].obs.filled \in 0..Qty
BY DEF TypeOK, ProcTypeOK, ProcRows, Answers

\* Only a workflow state is ever acknowledged.
LEMMA AcknowledgedRes ==
  ASSUME NEW t, workflow_may_move("submission_started", t)
  PROVE  t \in WorkflowStates
BY DEF workflow_may_move, ALLOWED_WORKFLOW_TRANSITIONS, WorkflowStates,
       TERMINAL_WORKFLOW_STATES

\* The tables that a step leaves alone.
LEMMA StoreTypes ==
  ASSUME TypeOK
  PROVE  /\ resv \in [Actions -> ReservationRows]
         /\ evid \in [Actions -> [1..Qty -> EvidenceSources]]
         /\ wf \in [Actions -> WorkflowRows]
         /\ prop \in [Actions -> ProposalStates]
BY DEF TypeOK, StoreTypeOK

\* The view of a row just created.
LEMMA ReservedRowType == [NoRow EXCEPT !.state = "reserved"] \in RowViews
<1>1. \A v \in RowViews, t \in OrderStates :
        [v EXCEPT !.state = t] \in RowViews
  BY DEF RowViews
<1> QED
  BY <1>1, NoRowType DEF OrderStates

\* What execute returns for an existing row is a result.
LEMMA ResultTypes == \A s : result_of(s) \in Results
BY DEF result_of, Results

\* The snapshot a row is bound to.
LEMMA BoundType ==
  ASSUME TypeOK, NEW a \in Actions
  PROVE  intent[a].bound \in Procs \cup {NoProc}
BY DEF TypeOK, StoreTypeOK, IntentRows

\* Binding the refreshed snapshot changes no marker.
LEMMA SnapshotBound ==
  ASSUME TypeOK, NEW p \in Procs, NEW a \in Actions,
         intent' = [intent EXCEPT ![a].bound = p],
         UNCHANGED << resv, evid, wf, prop, order >>
  PROVE  StoreKept
<1> DEFINE r == [intent[a] EXCEPT !.bound = p]
<1>1. intent[a] \in IntentRows
  BY DEF TypeOK, StoreTypeOK
<1>2. r \in IntentRows
  BY <1>1, IntentRowTypes
<1>3. r.marked = intent[a].marked
  BY <1>1 DEF IntentRows
<1>4. intent' = [intent EXCEPT ![a] = r]
  BY DEF TypeOK, StoreTypeOK
<1> HIDE DEF r
<1> QED
  BY <1>2, <1>3, <1>4, IntentRowWritten

\* The response is booked as a fill or as submitted.
LEMMA ResponseBooked ==
  ASSUME TypeOK, NEW a \in Actions, NEW c \in 0..Qty, NEW s,
         \/ record_fill(a, c, s, "submission")
         \/ transition(a, "submitted") /\ UNCHANGED evid,
         UNCHANGED << wf, prop, order >>
  PROVE  StoreKept
<1>1. CASE record_fill(a, c, s, "submission")
  <2>1. "submission" \in EvidenceSources
    BY DEF EvidenceSources
  <2> QED
    BY <1>1, <2>1, RecordFillTypes, TablesKept, StoreTypes DEF TypeOK
<1>2. CASE transition(a, "submitted") /\ UNCHANGED evid
  BY <1>2, IntentMoved, StoreTypes DEF OrderStates
<1> QED
  BY <1>1, <1>2

\* LocalsKept for a step that reads a row.
LEMMA RowRead ==
  ASSUME TypeOK, Located, NEW p \in Procs, Act(p) \in Actions,
         NEW l \in PCs \ (Holders \cup PassPCs), NEW a \in Actions,
         NEW v \in RowViews,
         proc' = [proc EXCEPT ![p].pc = l, ![p].rows[a] = v]
  PROVE  ProcKept
BY LocalsKept

\* create_or_get_intent for a new action.
LEMMA IntentCreated ==
  ASSUME TypeOK, NEW p \in Procs, NEW a \in Actions, create_intent(p, a),
         UNCHANGED << evid, prop, order >>
  PROVE  StoreKept
BY CreateIntentTypes, TablesKept, StoreTypes DEF TypeOK

\* create_or_get_intent for an action that has its row.
LEMMA IntentFound ==
  ASSUME TypeOK, NEW p \in Procs, NEW a \in Actions, get_intent_again(p, a),
         UNCHANGED << evid, prop, order >>
  PROVE  StoreKept
<1>1. UNCHANGED << resv, wf >>
  BY DEF get_intent_again
<1> QED
  BY <1>1, GetIntentTypes, TablesKept, StoreTypes DEF TypeOK

(***************************************************************************)
(* The quiet steps.                                                        *)
(***************************************************************************)

\* The caller's steps around execute never mark, unmark or send.
LEMMA LiveQuiet ==
  ASSUME TypeOK, Located, NEW p \in Procs, LiveStep(p)
  PROVE  Quiet
<1>1. CASE \E a \in Actions : AcceptApproval(p, a)
  <2>1. PICK a \in Actions : AcceptApproval(p, a)
    BY <1>1
  <2> DEFINE r == [proc[p] EXCEPT !.pc = "accepted", !.kind = "live",
                                  !.act = a]
  <2>2. StoreKept
    <3>1. wf' \in [Actions -> WorkflowRows]
      BY <2>1 DEF AcceptApproval, TypeOK, StoreTypeOK, WorkflowRows,
                  WorkflowStates
    <3> QED
      BY <2>1, <3>1, WorkflowWritten DEF AcceptApproval
  <2>3. proc[p] \in ProcRows
    BY DEF TypeOK, ProcTypeOK
  <2>4. r \in ProcRows /\ r.pc \notin Holders /\ Placed(r)
    BY <2>3, NoActionAssumption
    DEF ProcRows, PCs, LivePCs, Kinds, Holders, Placed, PassPCs
  <2>5. proc' = [proc EXCEPT ![p] = r]
    BY <2>1, <2>3 DEF AcceptApproval, TypeOK, ProcTypeOK, ProcRows
  <2>6. ProcKept
    <3> HIDE DEF r
    <3> QED
      BY <2>4, <2>5, LocalsReplaced
  <2> QED
    BY <2>2, <2>6 DEF Quiet
<1>2. CASE BeginValidation(p)
  <2>1. Act(p) \in Actions
    BY <1>2, Working DEF BeginValidation, At, PassPCs
  <2>2. StoreKept
    BY <1>2, <2>1, WorkflowMoved DEF BeginValidation, WorkflowStates
  <2>3. ProcKept
    BY <1>2, <2>1, LocalsKept, LocalsFinished
    DEF BeginValidation, PCs, LivePCs, ExecutorPCs, Holders, PassPCs
  <2> QED
    BY <2>2, <2>3 DEF Quiet
<1>3. CASE RefuseApproval(p)
  <2>1. Act(p) \in Actions
    BY <1>3, Working DEF RefuseApproval, At, PassPCs
  <2>2. StoreKept
    BY <1>3, <2>1, WorkflowMoved DEF RefuseApproval, WorkflowStates
  <2>3. ProcKept
    BY <1>3, <2>1, LocalsFinished DEF RefuseApproval
  <2> QED
    BY <2>2, <2>3 DEF Quiet
<1>4. CASE ConsumeApproval(p)
  <2>1. Act(p) \in Actions
    BY <1>4, Working DEF ConsumeApproval, At, PassPCs
  <2>2. StoreKept
    BY <1>4, <2>1, ProposalWritten, ProposalTypes DEF ConsumeApproval
  <2>3. ProcKept
    BY <1>4, <2>1, LocalsKept
    DEF ConsumeApproval, PCs, LivePCs, ExecutorPCs, Holders, PassPCs
  <2> QED
    BY <2>2, <2>3 DEF Quiet
<1>5. CASE FinalRevalidation(p)
  <2>1. Act(p) \in Actions
    BY <1>5, Working DEF FinalRevalidation, At, PassPCs
  <2>2. StoreKept
    BY <1>5, <2>1, NothingWritten DEF FinalRevalidation
  <2>3. ProcKept
    BY <1>5, <2>1, LocalsKept
    DEF FinalRevalidation, PCs, LivePCs, ExecutorPCs, Holders, PassPCs,
        Return, Results
  <2> QED
    BY <2>2, <2>3 DEF Quiet
<1>6. CASE SettleWorkflow(p)
  <2>1. Act(p) \in Actions
    BY <1>6, Working DEF SettleWorkflow, At, PassPCs
  <2>2. StoreKept
    <3>1. PICK t \in settled_workflow(wf[Act(p)].state, proc[p].res) :
            wf' = [wf EXCEPT ![Act(p)].state = t]
      BY <1>6 DEF SettleWorkflow
    <3>2. wf' \in [Actions -> WorkflowRows]
      BY <2>1, <3>1, SettledTypes
    <3> QED
      BY <1>6, <3>2, WorkflowWritten DEF SettleWorkflow
  <2>3. ProcKept
    BY <1>6, <2>1, LocalsKept
    DEF SettleWorkflow, PCs, LivePCs, ExecutorPCs, Holders, PassPCs
  <2> QED
    BY <2>2, <2>3 DEF Quiet
<1>7. CASE CloseProposal(p)
  <2>1. Act(p) \in Actions
    BY <1>7, Working DEF CloseProposal, At, PassPCs
  <2>2. StoreKept
    BY <1>7, <2>1, ProposalWritten, ProposalTypes DEF CloseProposal
  <2>3. ProcKept
    BY <1>7, <2>1, LocalsFinished DEF CloseProposal
  <2> QED
    BY <2>2, <2>3 DEF Quiet
<1> QED
  BY <1>1, <1>2, <1>3, <1>4, <1>5, <1>6, <1>7 DEF LiveStep

\* Neither does anything in execute but the four steps at the adapter.
LEMMA ExecuteQuiet ==
  ASSUME TypeOK, Located, NEW p \in Procs, ExecuteStep(p),
         ~ MarkInvocation(p), ~ CallBroker(p), ~ AdapterRefuses(p),
         ~ ClearMark(p)
  PROVE  Quiet
<1>1. CASE LoadAuthority(p)
  <2>1. Act(p) \in Actions
    BY <1>1, Working DEF LoadAuthority, At, PassPCs
  <2>2. StoreKept
    BY <1>1, NothingWritten DEF LoadAuthority
  <2>3. CASE proc' = [proc EXCEPT ![p].pc = "persist",
                                  ![p].rows[Act(p)] = row_of(Act(p))]
    BY <2>1, <2>2, <2>3, RowOfType, RowRead
    DEF Quiet, PCs, ExecutorPCs, Holders,
        PassPCs
  <2>4. CASE Return(p, "blocked")
    BY <2>1, <2>2, <2>4, LocalsKept
    DEF Quiet, Return, Results, PCs, ExecutorPCs, Holders,
        PassPCs
  <2> QED
    BY <1>1, <2>3, <2>4 DEF LoadAuthority
<1>2. CASE BrokerMissing(p)
  <2>1. Act(p) \in Actions
    BY <1>2, Working DEF BrokerMissing, At, PassPCs
  <2>2. StoreKept
    BY <1>2, <2>1, IntentMoved, StoreTypes DEF BrokerMissing, OrderStates
  <2>3. ProcKept
    BY <1>2, <2>1, LocalsKept
    DEF BrokerMissing, PCs, LivePCs, ExecutorPCs, Holders, PassPCs,
        Return, Results
  <2> QED
    BY <2>2, <2>3 DEF Quiet
<1>3. CASE PersistValidation(p)
  <2>1. Act(p) \in Actions
    BY <1>3, Working DEF PersistValidation, At, PassPCs
  <2>2. StoreKept
    BY <1>3, <2>1, WorkflowMoved DEF PersistValidation, WorkflowStates
  <2>3. ProcKept
    BY <1>3, <2>1, LocalsKept
    DEF PersistValidation, PCs, LivePCs, ExecutorPCs, Holders, PassPCs,
        Return, Results
  <2> QED
    BY <2>2, <2>3 DEF Quiet
<1>4. CASE CreateIntent(p)
  <2>1. Act(p) \in Actions
    BY <1>4, Working DEF CreateIntent, At, PassPCs
  <2>2. StoreKept
    BY <1>4, <2>1, IntentCreated DEF CreateIntent
  <2>3. ProcKept
    BY <1>4, <2>1, ReservedRowType, RowRead, LocalsKept
    DEF CreateIntent, PCs, LivePCs, ExecutorPCs, Holders, PassPCs
  <2> QED
    BY <2>2, <2>3 DEF Quiet
<1>5. CASE GetIntent(p)
  <2>1. Act(p) \in Actions
    BY <1>5, Working DEF GetIntent, At, PassPCs
  <2>2. StoreKept
    BY <1>5, <2>1, IntentFound DEF GetIntent
  <2>3. ProcKept
    BY <1>5, <2>1, RowOfType, ResultTypes, RowRead, LocalsKept
    DEF GetIntent, PCs, LivePCs, ExecutorPCs, Holders, PassPCs, Return
  <2> QED
    BY <2>2, <2>3 DEF Quiet
<1>6. CASE IntentRefused(p)
  <2>1. Act(p) \in Actions
    BY <1>6, Working DEF IntentRefused, At, PassPCs
  <2>2. StoreKept
    BY <1>6, <2>1, NothingWritten DEF IntentRefused
  <2>3. ProcKept
    BY <1>6, <2>1, LocalsKept
    DEF IntentRefused, PCs, LivePCs, ExecutorPCs, Holders, PassPCs,
        Return, Results
  <2> QED
    BY <2>2, <2>3 DEF Quiet
<1>7. CASE MarkPending(p)
  <2>1. Act(p) \in Actions
    BY <1>7, Working DEF MarkPending, At, PassPCs
  <2>2. StoreKept
    BY <1>7, <2>1, WorkflowMoved DEF MarkPending, WorkflowStates
  <2>3. ProcKept
    BY <1>7, <2>1, LocalsKept
    DEF MarkPending, PCs, LivePCs, ExecutorPCs, Holders, PassPCs
  <2> QED
    BY <2>2, <2>3 DEF Quiet
<1>8. CASE StartSubmission(p)
  <2>1. Act(p) \in Actions
    BY <1>8, Working DEF StartSubmission, At, PassPCs
  <2>2. StoreKept
    BY <1>8, <2>1, IntentMoved, StoreTypes
    DEF StartSubmission, transition_from, OrderStates
  <2>3. ProcKept
    BY <1>8, <2>1, LocalsKept
    DEF StartSubmission, PCs, LivePCs, ExecutorPCs, Holders, PassPCs,
        Return, Results
  <2> QED
    BY <2>2, <2>3 DEF Quiet
<1>9. CASE StartWorkflow(p)
  <2>1. Act(p) \in Actions
    BY <1>9, Working DEF StartWorkflow, At, PassPCs
  <2>2. StoreKept
    BY <1>9, <2>1, WorkflowMoved DEF StartWorkflow, WorkflowStates
  <2>3. ProcKept
    BY <1>9, <2>1, LocalsKept
    DEF StartWorkflow, PCs, LivePCs, ExecutorPCs, Holders, PassPCs
  <2> QED
    BY <2>2, <2>3 DEF Quiet
<1>10. CASE VerifySnapshot(p)
  <2>1. Act(p) \in Actions
    BY <1>10, Working DEF VerifySnapshot, At, PassPCs
  <2>2. StoreKept
    BY <1>10, <2>1, SnapshotBound, NothingWritten
    DEF VerifySnapshot, storeVars
  <2>3. ProcKept
    BY <1>10, <2>1, LocalsKept
    DEF VerifySnapshot, PCs, LivePCs, ExecutorPCs, Holders, PassPCs
  <2> QED
    BY <2>2, <2>3 DEF Quiet
<1>11. CASE ReadBack(p)
  <2>1. Act(p) \in Actions
    BY <1>11, Working DEF ReadBack, At, PassPCs
  <2>2. StoreKept
    BY <1>11, <2>1, NothingWritten DEF ReadBack
  <2>3. ProcKept
    BY <1>11, <2>1, BoundType, LocalsKept
    DEF ReadBack, PCs, LivePCs, ExecutorPCs, Holders, PassPCs
  <2> QED
    BY <2>2, <2>3 DEF Quiet
<1>12. CASE RejectBeforeBroker(p)
  <2>1. Act(p) \in Actions
    BY <1>12, Working DEF RejectBeforeBroker, At, PassPCs
  <2>2. StoreKept
    BY <1>12, <2>1, IntentMoved, StoreTypes
    DEF RejectBeforeBroker, transition_from, OrderStates
  <2>3. ProcKept
    BY <1>12, <2>1, LocalsKept
    DEF RejectBeforeBroker, PCs, LivePCs, ExecutorPCs, Holders, PassPCs
  <2> QED
    BY <2>2, <2>3 DEF Quiet
<1>13. CASE CloseRejectedWorkflow(p)
  <2>1. Act(p) \in Actions
    BY <1>13, Working DEF CloseRejectedWorkflow, At, PassPCs
  <2>2. StoreKept
    BY <1>13, <2>1, WorkflowMoved DEF CloseRejectedWorkflow, WorkflowStates
  <2>3. ProcKept
    BY <1>13, <2>1, LocalsKept
    DEF CloseRejectedWorkflow, PCs, LivePCs, ExecutorPCs, Holders,
        PassPCs, Return, Results
  <2> QED
    BY <2>2, <2>3 DEF Quiet
<1>14. CASE BrokerAnswers(p)
  <2>1. Act(p) \in Actions
    BY <1>14, Working DEF BrokerAnswers, At, PassPCs
  <2>2. StoreKept
    BY <1>14, <2>1, NothingWritten DEF BrokerAnswers
  <2>3. ProcKept
    BY <1>14, <2>1, RemoteViewType, LocalsKept
    DEF BrokerAnswers, PCs, LivePCs, ExecutorPCs, Holders, PassPCs
  <2> QED
    BY <2>2, <2>3 DEF Quiet
<1>15. CASE AnswerLost(p)
  <2>1. Act(p) \in Actions
    BY <1>15, Working DEF AnswerLost, At, PassPCs
  <2>2. StoreKept
    BY <1>15, <2>1, NothingWritten DEF AnswerLost
  <2>3. ProcKept
    BY <1>15, <2>1, LocalsKept
    DEF AnswerLost, PCs, LivePCs, ExecutorPCs, Holders, PassPCs
  <2> QED
    BY <2>2, <2>3 DEF Quiet
<1>16. CASE BookResponse(p)
  <2>1. Act(p) \in Actions
    BY <1>16, Working DEF BookResponse, At, PassPCs
  <2>2. StoreKept
    BY <1>16, <2>1, ResponseBooked, AnswerTypes DEF BookResponse
  <2>3. ProcKept
    BY <1>16, <2>1, LocalsKept
    DEF BookResponse, PCs, LivePCs, ExecutorPCs, Holders, PassPCs, Results
  <2> QED
    BY <2>2, <2>3 DEF Quiet
<1>17. CASE BookIncompleteFill(p)
  <2>1. Act(p) \in Actions
    BY <1>17, Working DEF BookIncompleteFill, At, PassPCs
  <2>2. StoreKept
    BY <1>17, <2>1, IntentMoved, StoreTypes
    DEF BookIncompleteFill, OrderStates
  <2>3. ProcKept
    BY <1>17, <2>1, LocalsKept
    DEF BookIncompleteFill, PCs, LivePCs, ExecutorPCs, Holders, PassPCs,
        Results
  <2> QED
    BY <2>2, <2>3 DEF Quiet
<1>18. CASE LocalUpdateFails(p)
  <2>1. Act(p) \in Actions
    BY <1>18, Working DEF LocalUpdateFails, At, PassPCs
  <2>2. StoreKept
    BY <1>18, <2>1, NothingWritten DEF LocalUpdateFails
  <2>3. ProcKept
    BY <1>18, <2>1, LocalsKept
    DEF LocalUpdateFails, PCs, LivePCs, ExecutorPCs, Holders, PassPCs
  <2> QED
    BY <2>2, <2>3 DEF Quiet
<1>19. CASE MarkUnknown(p)
  <2>1. Act(p) \in Actions
    BY <1>19, Working DEF MarkUnknown, At, PassPCs
  <2>2. StoreKept
    BY <1>19, <2>1, IntentMoved, StoreTypes DEF MarkUnknown, OrderStates
  <2>3. ProcKept
    BY <1>19, <2>1, LocalsKept
    DEF MarkUnknown, PCs, LivePCs, ExecutorPCs, Holders, PassPCs, Results
  <2> QED
    BY <2>2, <2>3 DEF Quiet
<1>20. CASE Acknowledge(p)
  <2>1. Act(p) \in Actions
    BY <1>20, Working DEF Acknowledge, At, PassPCs
  <2>2. StoreKept
    BY <1>20, <2>1, WorkflowMoved, NothingWritten, AcknowledgedRes
    DEF Acknowledge, wf_transition, storeVars
  <2>3. ProcKept
    BY <1>20, <2>1, LocalsKept
    DEF Acknowledge, PCs, LivePCs, ExecutorPCs, Holders, PassPCs
  <2> QED
    BY <2>2, <2>3 DEF Quiet
<1>21. CASE RejectRefused(p)
  <2>1. Act(p) \in Actions
    BY <1>21, Working DEF RejectRefused, At, PassPCs
  <2>2. StoreKept
    BY <1>21, <2>1, IntentMoved, StoreTypes DEF RejectRefused, OrderStates
  <2>3. ProcKept
    BY <1>21, <2>1, LocalsKept
    DEF RejectRefused, PCs, LivePCs, ExecutorPCs, Holders, PassPCs
  <2> QED
    BY <2>2, <2>3 DEF Quiet
<1>22. CASE ExecuteRaises(p)
  <2>1. Act(p) \in Actions
    BY <1>22, Working DEF ExecuteRaises, At, PassPCs, RaisingPCs
  <2>2. StoreKept
    BY <1>22, <2>1, NothingWritten DEF ExecuteRaises
  <2>3. ProcKept
    BY <1>22, <2>1, LocalsFinished, LocalsKept
    DEF ExecuteRaises, RecoveryPCs, PCs, LivePCs, ExecutorPCs, Holders,
        PassPCs
  <2> QED
    BY <2>2, <2>3 DEF Quiet
<1> QED
  BY <1>1, <1>2, <1>3, <1>4, <1>5, <1>6, <1>7, <1>8, <1>9, <1>10, <1>11,
     <1>12, <1>13, <1>14, <1>15, <1>16, <1>17, <1>18, <1>19, <1>20, <1>21,
     <1>22
  DEF ExecuteStep

(***************************************************************************)
(* The locals of a reconcile pass.                                         *)
(***************************************************************************)

\* In a pass, except between two intents, there is an intent in hand.
LEMMA Reconciling ==
  ASSUME TypeOK, Located, NEW p \in Procs, proc[p].pc \in PassPCs \ {"pass"}
  PROVE  Cur(p) \in Actions
BY DEF TypeOK, ProcTypeOK, ProcRows, Located, Placed, Cur

\* A step within a pass that keeps the intent in hand.
LEMMA PassGoto ==
  ASSUME TypeOK, Located, NEW p \in Procs, proc[p].pc \in PassPCs \ {"pass"},
         NEW l \in PassPCs, Goto(p, l)
  PROVE  ProcKept
<1> DEFINE r == [proc[p] EXCEPT !.pc = l]
<1>1. proc[p] \in ProcRows /\ Placed(proc[p])
  BY DEF TypeOK, ProcTypeOK, Located
<1>2. r \in ProcRows
  BY <1>1, LocalsTypes DEF PCs
<1>3. r.pc \notin Holders /\ Placed(r)
  BY <1>1 DEF ProcRows, Placed, Holders, PassPCs
<1>4. proc' = [proc EXCEPT ![p] = r]
  BY DEF TypeOK, ProcTypeOK, Goto
<1> HIDE DEF r
<1> QED
  BY <1>2, <1>3, <1>4, LocalsReplaced

\* The answer before any lookup.
LEMMA NoAnswerType == NoAnswer \in Answers
BY QtyAssumption DEF NoAnswer, Answers

\* A pass that is done with one intent.
LEMMA NextIntentKept ==
  ASSUME TypeOK, Located, NEW p \in Procs, proc[p].pc \in PassPCs,
         NEW a \in Actions, next_intent(p, a)
  PROVE  ProcKept
<1> DEFINE r == [proc[p] EXCEPT !.pc = "pass", !.cur = NoAction,
                                !.todo = @ \ {a}, !.rows[a] = NoRow,
                                !.obs = NoAnswer]
<1>1. proc[p] \in ProcRows /\ Placed(proc[p])
  BY DEF TypeOK, ProcTypeOK, Located
<1>2. r \in ProcRows
  BY <1>1, NoRowType, NoAnswerType DEF ProcRows, PCs, PassPCs
<1>3. r.pc \notin Holders /\ Placed(r)
  BY <1>1 DEF ProcRows, Placed, Holders, PassPCs
<1>4. proc' = [proc EXCEPT ![p] = r]
  BY <1>1 DEF next_intent, TypeOK, ProcTypeOK, ProcRows
<1> HIDE DEF r
<1> QED
  BY <1>2, <1>3, <1>4, LocalsReplaced

\* A pass begins for the scheduler, or for a recoverer with its workflow.
LEMMA PassBegun ==
  ASSUME TypeOK, Located, NEW p \in Procs, NEW k \in Kinds,
         k = "recover" => Act(p) \in Actions, begin_pass(p, k)
  PROVE  ProcKept
<1> DEFINE v == [a \in Actions |-> IF a \in reconcilable THEN row_of(a)
                                   ELSE NoRow]
           r == [proc[p] EXCEPT !.pc = "pass", !.kind = k,
                                !.todo = reconcilable, !.rows = v]
<1>1. proc[p] \in ProcRows
  BY DEF TypeOK, ProcTypeOK
<1>2. v \in [Actions -> RowViews] /\ reconcilable \in SUBSET Actions
  BY NoRowType, RowOfType DEF reconcilable
<1>3. proc' = [proc EXCEPT ![p] = r]
  BY <1>1 DEF begin_pass, TypeOK, ProcTypeOK, ProcRows
<1> HIDE DEF v
<1>4. r \in ProcRows
  BY <1>1, <1>2 DEF ProcRows, PCs, PassPCs
<1>5. r.pc \notin Holders /\ Placed(r)
  BY <1>1, NoActionAssumption DEF ProcRows, Placed, Holders, PassPCs, Act
<1> HIDE DEF r
<1> QED
  BY <1>3, <1>4, <1>5, LocalsReplaced

\* An exception ends the pass: recovery goes on to release its claim or
\* stops, and the claim it leaves behind is well formed.
LEMMA PassRaised ==
  ASSUME TypeOK, Located, NEW p \in Procs, NEW e, pass_raises(p, e)
  PROVE  /\ ProcKept
         /\ wf' \in [Actions -> WorkflowRows]
<1>1. CASE Finish(p) /\ leak_claim(p)
  <2>1. wf' \in [Actions -> WorkflowRows]
    BY <1>1 DEF TypeOK, StoreTypeOK, leak_claim, WorkflowRows
  <2> QED
    BY <1>1, <2>1, LocalsFinished
<1>2. CASE proc[p].kind = "recover" /\ ~ (Finish(p) /\ leak_claim(p))
  <2> DEFINE r == [proc[p] EXCEPT
                     !.pc = "release", !.cur = NoAction, !.todo = {},
                     !.rows = IdleProc.rows, !.obs = NoAnswer]
  <2>1. proc[p] \in ProcRows /\ Placed(proc[p])
    BY DEF TypeOK, ProcTypeOK, Located
  <2>2. IdleProc.rows \in [Actions -> RowViews]
    BY NoRowType DEF IdleProc
  <2>3. r \in ProcRows
    BY <2>1, <2>2, NoAnswerType DEF ProcRows, PCs, RecoveryPCs
  <2>4. r.pc \notin Holders /\ Placed(r)
    BY <2>1, <1>2 DEF ProcRows, Placed, Holders, PassPCs
  <2>5. proc' = [proc EXCEPT ![p] = r] /\ UNCHANGED wf
    BY <1>2, <2>1 DEF pass_raises, TypeOK, ProcTypeOK, ProcRows
  <2>6. wf' \in [Actions -> WorkflowRows]
    BY <2>5 DEF TypeOK, StoreTypeOK
  <2> HIDE DEF r
  <2> QED
    BY <2>3, <2>4, <2>5, <2>6, LocalsReplaced
<1> QED
  BY <1>1, <1>2 DEF pass_raises

\* The proposal that follows a fill.
LEMMA Projected ==
  ASSUME TypeOK, NEW a \in Actions, NEW t, project(a, t)
  PROVE  prop' \in [Actions -> ProposalStates]
BY DEF TypeOK, StoreTypeOK, project, ProposalStates

\* The saved count is capped at the number that confirms the absence.
LEMMA AbsenceCounted ==
  ASSUME TypeOK, NEW a \in Actions,
         NEW n \in 0..CONFIRMED_ABSENCE_OBSERVATIONS,
         intent' = [intent EXCEPT ![a].absent = n],
         UNCHANGED << resv, evid, wf, prop, order >>
  PROVE  StoreKept
<1> DEFINE r == [intent[a] EXCEPT !.absent = n]
<1>1. intent[a] \in IntentRows
  BY DEF TypeOK, StoreTypeOK
<1>2. r \in IntentRows
  BY <1>1, IntentRowTypes
<1>3. r.marked = intent[a].marked
  BY <1>1 DEF IntentRows
<1>4. intent' = [intent EXCEPT ![a] = r]
  BY DEF TypeOK, StoreTypeOK
<1> HIDE DEF r
<1> QED
  BY <1>2, <1>3, <1>4, IntentRowWritten

\* No absence observed.
LEMMA NoAbsence == 0 \in 0..CONFIRMED_ABSENCE_OBSERVATIONS
BY DEF CONFIRMED_ABSENCE_OBSERVATIONS

\* The count a pass writes back is one the row can hold.
LEMMA CountType ==
  ASSUME TypeOK, NEW p \in Procs, Cur(p) \in Actions
  PROVE  AtMost(observations(p), CONFIRMED_ABSENCE_OBSERVATIONS)
           \in 0..CONFIRMED_ABSENCE_OBSERVATIONS
<1>1. Stale(p) \in RowViews
  BY DEF TypeOK, ProcTypeOK, ProcRows, Stale
<1> QED
  BY <1>1 DEF RowViews, AtMost, observations, CONFIRMED_ABSENCE_OBSERVATIONS

\* A fill booked by the reconciler.
LEMMA FillApplied ==
  ASSUME TypeOK, NEW a \in Actions, NEW c \in 0..Qty, NEW s,
         record_fill(a, c, s, "reconciliation"),
         prop' \in [Actions -> ProposalStates],
         UNCHANGED << wf, order >>
  PROVE  StoreKept
<1>1. "reconciliation" \in EvidenceSources
  BY DEF EvidenceSources
<1> QED
  BY <1>1, RecordFillTypes, TablesKept, StoreTypes DEF TypeOK

\* The state a remote status is read as is an order state.
LEMMA TargetType == \A p \in Procs : reconciled_target(p) \in OrderStates
BY DEF reconciled_target, broker_status_to_state, OrderStates

\* A reconcile pass only looks up: it never marks and never sends.
LEMMA PassQuiet ==
  ASSUME TypeOK, Located, NEW p \in Procs, PassStep(p)
  PROVE  Quiet
<1>1. CASE EndPass(p)
  <2>1. StoreKept
    BY <1>1, NothingWritten DEF EndPass
  <2>2. CASE proc[p].kind = "recover"
    <3>1. Act(p) \in Actions
      BY <2>2 DEF TypeOK, ProcTypeOK, ProcRows, Located, Placed, Act
    <3> QED
      BY <1>1, <2>1, <2>2, <3>1, LocalsKept
      DEF EndPass, Quiet, PCs, RecoveryPCs, Holders, PassPCs
  <2>3. CASE proc[p].kind # "recover"
    BY <1>1, <2>1, <2>3, LocalsFinished DEF EndPass, Quiet
  <2> QED
    BY <2>2, <2>3
<1>2. CASE \E a \in Actions : LookupFails(p, a)
  <2>1. PICK a \in Actions : LookupFails(p, a)
    BY <1>2
  <2>2. StoreKept
    BY <2>1, NothingWritten DEF LookupFails
  <2>3. ProcKept
    BY <2>1, NextIntentKept DEF LookupFails, At, PassPCs
  <2> QED
    BY <2>2, <2>3 DEF Quiet
<1>3. CASE \E a \in Actions : LookupAnswers(p, a)
  <2>1. PICK a \in Actions : LookupAnswers(p, a)
    BY <1>3
  <2> DEFINE l == IF remote_view(a).status = "missing" THEN "absence"
                  ELSE "found"
             r == [proc[p] EXCEPT !.cur = a, !.obs = remote_view(a), !.pc = l]
  <2>2. StoreKept
    BY <2>1, NothingWritten DEF LookupAnswers
  <2>3. proc[p] \in ProcRows /\ Placed(proc[p]) /\ proc[p].pc = "pass"
    BY <2>1 DEF TypeOK, ProcTypeOK, Located, LookupAnswers, At
  <2>4. remote_view(a) \in Answers
    BY RemoteViewType
  <2>5. proc' = [proc EXCEPT ![p] = r]
    BY <2>1, <2>3 DEF LookupAnswers, TypeOK, ProcTypeOK, ProcRows
  <2>6. l \in {"absence", "found"}
    OBVIOUS
  <2> HIDE DEF l
  <2>7. r \in ProcRows
    BY <2>3, <2>4, <2>6 DEF ProcRows, PCs, PassPCs
  <2>8. r.pc \notin Holders /\ Placed(r)
    BY <2>3, <2>6, NoActionAssumption
    DEF ProcRows, Placed, Holders, PassPCs
  <2> HIDE DEF r
  <2> QED
    BY <2>2, <2>5, <2>7, <2>8, LocalsReplaced DEF Quiet
<1>4. CASE RecordAbsence(p)
  <2>1. proc[p].pc \in PassPCs \ {"pass"} /\ Cur(p) \in Actions
    BY <1>4, Reconciling DEF RecordAbsence, At, PassPCs
  <2>2. StoreKept
    BY <1>4, <2>1, AbsenceCounted, CountType DEF RecordAbsence
  <2>3. ProcKept
    BY <1>4, <2>1, PassGoto DEF RecordAbsence, PassPCs
  <2> QED
    BY <2>2, <2>3 DEF Quiet
<1>5. CASE ConcludeAbsence(p)
  <2>1. proc[p].pc \in PassPCs \ {"pass"} /\ Cur(p) \in Actions
    BY <1>5, Reconciling DEF ConcludeAbsence, At, PassPCs
  <2>2. StoreKept
    BY <1>5, <2>1, IntentMoved, StoreTypes
    DEF ConcludeAbsence, absence_target, OrderStates
  <2>3. ProcKept
    BY <1>5, <2>1, NextIntentKept DEF ConcludeAbsence
  <2> QED
    BY <2>2, <2>3 DEF Quiet
<1>6. CASE AbsenceRaises(p)
  <2>1. proc[p].pc \in PassPCs \ {"pass"} /\ Cur(p) \in Actions
    BY <1>6, Reconciling DEF AbsenceRaises, At, PassPCs
  <2>2. StoreKept
    BY <1>6, <2>1, PassRaised, WorkflowWritten DEF AbsenceRaises
  <2>3. ProcKept
    BY <1>6, <2>1, PassRaised DEF AbsenceRaises
  <2> QED
    BY <2>2, <2>3 DEF Quiet
<1>7. CASE RecordFound(p)
  <2>1. proc[p].pc \in PassPCs \ {"pass"} /\ Cur(p) \in Actions
    BY <1>7, Reconciling DEF RecordFound, At, PassPCs
  <2>2. StoreKept
    BY <1>7, <2>1, AbsenceCounted, NoAbsence DEF RecordFound
  <2>3. ProcKept
    BY <1>7, <2>1, PassGoto DEF RecordFound, PassPCs
  <2> QED
    BY <2>2, <2>3 DEF Quiet
<1>8. CASE ApplyFill(p)
  <2>1. proc[p].pc \in PassPCs \ {"pass"} /\ Cur(p) \in Actions
    BY <1>8, Reconciling DEF ApplyFill, At, PassPCs
  <2>2. StoreKept
    BY <1>8, <2>1, FillApplied, AnswerTypes, Projected DEF ApplyFill
  <2>3. ProcKept
    BY <1>8, <2>1, NextIntentKept DEF ApplyFill
  <2> QED
    BY <2>2, <2>3 DEF Quiet
<1>9. CASE ApplyFillRaises(p)
  <2>1. proc[p].pc \in PassPCs \ {"pass"} /\ Cur(p) \in Actions
    BY <1>9, Reconciling DEF ApplyFillRaises, At, PassPCs
  <2>2. StoreKept
    BY <1>9, <2>1, PassRaised, WorkflowWritten DEF ApplyFillRaises
  <2>3. ProcKept
    BY <1>9, <2>1, PassRaised DEF ApplyFillRaises
  <2> QED
    BY <2>2, <2>3 DEF Quiet
<1>10. CASE RequireEvidence(p)
  <2>1. proc[p].pc \in PassPCs \ {"pass"} /\ Cur(p) \in Actions
    BY <1>10, Reconciling DEF RequireEvidence, At, PassPCs
  <2>2. StoreKept
    BY <1>10, <2>1, IntentMoved, StoreTypes DEF RequireEvidence, OrderStates
  <2>3. ProcKept
    BY <1>10, <2>1, NextIntentKept DEF RequireEvidence
  <2> QED
    BY <2>2, <2>3 DEF Quiet
<1>11. CASE ApplyStatus(p)
  <2>1. proc[p].pc \in PassPCs \ {"pass"} /\ Cur(p) \in Actions
    BY <1>11, Reconciling DEF ApplyStatus, At, PassPCs
  <2>2. StoreKept
    BY <1>11, <2>1, IntentMoved, Projected, TargetType DEF ApplyStatus
  <2>3. ProcKept
    BY <1>11, <2>1, NextIntentKept DEF ApplyStatus
  <2> QED
    BY <2>2, <2>3 DEF Quiet
<1>12. CASE ApplyStatusRaises(p)
  <2>1. proc[p].pc \in PassPCs \ {"pass"} /\ Cur(p) \in Actions
    BY <1>12, Reconciling DEF ApplyStatusRaises, At, PassPCs
  <2>2. StoreKept
    BY <1>12, <2>1, PassRaised, WorkflowWritten DEF ApplyStatusRaises
  <2>3. ProcKept
    BY <1>12, <2>1, PassRaised DEF ApplyStatusRaises
  <2> QED
    BY <2>2, <2>3 DEF Quiet
<1> QED
  BY <1>1, <1>2, <1>3, <1>4, <1>5, <1>6, <1>7, <1>8, <1>9, <1>10, <1>11, <1>12
  DEF PassStep

\* The pass as the scheduler starts it.
LEMMA CycleQuiet ==
  ASSUME TypeOK, Located, NEW p \in Procs, StartCycle(p)
  PROVE  Quiet
<1>1. StoreKept
  BY NothingWritten DEF StartCycle
<1>2. ProcKept
  BY PassBegun DEF StartCycle, Kinds
<1> QED
  BY <1>1, <1>2 DEF Quiet

(***************************************************************************)
(* Workflow recovery.                                                      *)
(***************************************************************************)

\* A transition under the claim, or none, writes the workflow table only.
LEMMA OwnedTypes ==
  ASSUME TypeOK, NEW p \in Procs, NEW a \in Actions, NEW t \in WorkflowStates,
         owned_transition(p, a, t) \/ UNCHANGED wf,
         UNCHANGED << intent, resv, evid, prop, order >>
  PROVE  StoreKept
BY WorkflowMoved DEF owned_transition

\* A workflow move under the claim, made or refused.
LEMMA OwnedMove ==
  ASSUME TypeOK, Located, NEW p \in Procs, Act(p) \in Actions,
         NEW t \in WorkflowStates, NEW l \in PCs \ (Holders \cup PassPCs),
         owned_move(p, t, l), UNCHANGED << intent, resv, evid, prop, order >>
  PROVE  Quiet
<1>1. StoreKept
  BY OwnedTypes DEF owned_move
<1>2. ProcKept
  BY LocalsKept DEF owned_move, PCs, RecoveryPCs, Holders, PassPCs
<1> QED
  BY <1>1, <1>2 DEF Quiet

\* A recovery call that ends with its claim held.
LEMMA Abandoned ==
  ASSUME TypeOK, Located, NEW p \in Procs, Abandon(p)
  PROVE  Quiet
BY LocalsFinished, ClaimLeaked DEF Abandon, Quiet

\* A compare-and-set on the intent, won or lost.
LEMMA ExpectedOrAbandoned ==
  ASSUME TypeOK, Located, NEW p \in Procs, Act(p) \in Actions, NEW s,
         NEW t \in OrderStates, NEW l \in PCs \ (Holders \cup PassPCs),
         expected_or_abandon(p, s, t, l)
  PROVE  Quiet
<1>1. CASE Abandon(p)
  BY <1>1, Abandoned
<1>2. CASE /\ transition_from(Act(p), s, t)
           /\ Goto(p, l)
           /\ UNCHANGED << evid, wf, prop, order >>
  BY <1>2, IntentMoved, StoreTypes, LocalsKept DEF transition_from, Quiet
<1> QED
  BY <1>1, <1>2 DEF expected_or_abandon

\* A step that only moves on.
LEMMA MovedOn ==
  ASSUME TypeOK, Located, NEW p \in Procs, Act(p) \in Actions,
         NEW l \in PCs \ (Holders \cup PassPCs), Goto(p, l),
         UNCHANGED << storeVars, order >>
  PROVE  Quiet
BY NothingWritten, LocalsKept DEF Quiet

\* The same, with the tables spelled out.
LEMMA MovedOnWorkflow ==
  ASSUME TypeOK, Located, NEW p \in Procs, Act(p) \in Actions,
         NEW l \in PCs \ (Holders \cup PassPCs), Goto(p, l), UNCHANGED wf,
         UNCHANGED << intent, resv, evid, prop, order >>
  PROVE  Quiet
BY MovedOn DEF storeVars

\* The locals remember the workflow state a move under the claim led to.
LEMMA SeenMoved ==
  ASSUME TypeOK, Located, NEW p \in Procs, Act(p) \in Actions,
         NEW t \in WorkflowStates, NEW l \in PCs \ (Holders \cup PassPCs),
         \/ /\ owned_transition(p, Act(p), t)
            /\ proc' = [proc EXCEPT ![p].pc = l, ![p].wseen = t]
         \/ UNCHANGED wf /\ Goto(p, "release"),
         UNCHANGED << intent, resv, evid, prop, order >>
  PROVE  Quiet
<1>1. StoreKept
  BY OwnedTypes
<1>2. CASE proc' = [proc EXCEPT ![p].pc = l, ![p].wseen = t]
  BY <1>1, <1>2, LocalsKept DEF Quiet
<1>3. CASE Goto(p, "release")
  BY <1>1, <1>3, LocalsKept
  DEF Quiet, PCs, RecoveryPCs, Holders, PassPCs
<1> QED
  BY <1>2, <1>3

\* Classifying the failed callback: nothing is written unless the row proves
\* that nothing was sent.
LEMMA FailureClassified ==
  ASSUME TypeOK, Located, NEW p \in Procs, Act(p) \in Actions,
         NEW x \in Results, FailedOutcome(p, x),
         \/ transition_from(Act(p), "submitting", "retryable_pre_submission")
         \/ UNCHANGED << intent, resv >>,
         UNCHANGED << evid, wf, prop, order >>
  PROVE  Quiet
<1>1. StoreKept
  BY IntentMoved, StoreTypes DEF transition_from, OrderStates
<1>2. ProcKept
  BY LocalsKept DEF FailedOutcome, PCs, RecoveryPCs, Holders, PassPCs
<1> QED
  BY <1>1, <1>2 DEF Quiet

\* No workflow moves to something that is not a workflow state.
LEMMA NotAWorkflowState ==
  ASSUME TypeOK, NEW a \in Actions, NEW t, t \notin WorkflowStates,
         workflow_may_move(wf[a].state, t), wf[a].state # "none"
  PROVE  FALSE
BY DEF TypeOK, StoreTypeOK, WorkflowRows, workflow_may_move,
       ALLOWED_WORKFLOW_TRANSITIONS, WorkflowStates, TERMINAL_WORKFLOW_STATES

\* Recovery sends nothing itself: what it resumes goes through execute.
LEMMA RecoveryQuiet ==
  ASSUME TypeOK, Located, NEW p \in Procs, RecoveryStep(p)
  PROVE  Quiet
<1>1. CASE ReadIntent(p)
  <2>1. Act(p) \in Actions
    BY <1>1, Working DEF ReadIntent, At, PassPCs
  <2>2. StoreKept
    BY <1>1, <2>1, NothingWritten DEF ReadIntent
  <2>3. ProcKept
    BY <1>1, <2>1, RowOfType, RowRead
    DEF ReadIntent, PCs, LivePCs, ExecutorPCs, RecoveryPCs, Holders,
        PassPCs
  <2> QED
    BY <2>2, <2>3 DEF Quiet
<1>2. CASE LinkExisting(p)
  <2>1. Act(p) \in Actions
    BY <1>2, Working DEF LinkExisting, At, PassPCs
  <2>2. proc[p].pc = "examined"
    BY <1>2 DEF LinkExisting, At
  <2>3. "intent_created" \in WorkflowStates
    BY DEF WorkflowStates
  <2>4. StoreKept
    BY <1>2, <2>1, <2>3, OwnedTypes DEF LinkExisting
  <2>5. CASE proc' = [proc EXCEPT ![p].wseen = "intent_created"]
    <3> DEFINE r == [proc[p] EXCEPT !.wseen = "intent_created"]
    <3>1. proc[p] \in ProcRows /\ Placed(proc[p])
      BY DEF TypeOK, ProcTypeOK, Located
    <3>2. r \in ProcRows
      BY <2>3, <3>1, LocalsTypes DEF ProcRows
    <3>3. r.pc \notin Holders /\ Placed(r)
      BY <2>2, <3>1 DEF ProcRows, Placed, Holders, PassPCs
    <3>4. proc' = [proc EXCEPT ![p] = r]
      BY <2>5 DEF TypeOK, ProcTypeOK
    <3> HIDE DEF r
    <3> QED
      BY <2>4, <3>2, <3>3, <3>4, LocalsReplaced DEF Quiet
  <2>6. CASE Goto(p, "release")
    BY <2>1, <2>4, <2>6, LocalsKept
    DEF Quiet, PCs, RecoveryPCs, Holders, PassPCs
  <2> QED
    BY <1>2, <2>5, <2>6 DEF LinkExisting
<1>3. CASE ProveUnsent(p)
  <2>1. Act(p) \in Actions
    BY <1>3, Working DEF ProveUnsent, At, PassPCs
  <2> QED
    BY <1>3, <2>1, MovedOn, ExpectedOrAbandoned
    DEF ProveUnsent, OrderStates, PCs, LivePCs, ExecutorPCs, RecoveryPCs,
        Holders, PassPCs
<1>4. CASE Repend(p)
  <2>1. Act(p) \in Actions
    BY <1>4, Working DEF Repend, At, PassPCs
  <2> QED
    BY <1>4, <2>1, SeenMoved
    DEF Repend, WorkflowStates, PCs, LivePCs, ExecutorPCs, RecoveryPCs,
        Holders, PassPCs
<1>5. CASE ResumeValidation(p)
  <2>1. Act(p) \in Actions
    BY <1>5, Working DEF ResumeValidation, At, PassPCs, unvalidated
  <2> QED
    BY <1>5, <2>1, MovedOnWorkflow, OwnedMove
    DEF ResumeValidation, WorkflowStates, PCs, LivePCs, ExecutorPCs,
        RecoveryPCs, Holders, PassPCs
<1>6. CASE AdvanceValidation(p)
  <2> DEFINE t == next_validation_state(Seen(p))
             l == IF t = "approved_pending_intent" THEN "examined"
                  ELSE "advance"
  <2>1. Act(p) \in Actions
    BY <1>6, Working DEF AdvanceValidation, At, PassPCs
  <2>2. t \in WorkflowStates
    BY DEF next_validation_state, WorkflowStates
  <2>3. l \in PCs \ (Holders \cup PassPCs)
    BY DEF PCs, RecoveryPCs, Holders, PassPCs
  <2>4. \/ /\ owned_transition(p, Act(p), t)
           /\ proc' = [proc EXCEPT ![p].pc = l, ![p].wseen = t]
        \/ UNCHANGED wf /\ Goto(p, "release")
    BY <1>6 DEF AdvanceValidation, TypeOK, ProcTypeOK, ProcRows
  <2>5. UNCHANGED << intent, resv, evid, prop, order >>
    BY <1>6 DEF AdvanceValidation
  <2> HIDE DEF t, l
  <2> QED
    BY <2>1, <2>2, <2>3, <2>4, <2>5, SeenMoved
<1>7. CASE DeclineIntent(p)
  <2>1. Act(p) \in Actions
    BY <1>7, Working DEF DeclineIntent, At, PassPCs, pending_intent
  <2> QED
    BY <1>7, <2>1, MovedOnWorkflow, OwnedMove
    DEF DeclineIntent, WorkflowStates, PCs, LivePCs, ExecutorPCs,
        RecoveryPCs, Holders, PassPCs
<1>8. CASE EnsureIntent(p)
  <2>1. Act(p) \in Actions
    BY <1>8, Working DEF EnsureIntent, At, PassPCs, pending_intent
  <2>2. StoreKept
    BY <1>8, <2>1, IntentCreated, NothingWritten DEF EnsureIntent, storeVars
  <2>3. ProcKept
    BY <1>8, <2>1, LocalsKept
    DEF EnsureIntent, PCs, LivePCs, ExecutorPCs, RecoveryPCs, Holders,
        PassPCs
  <2> QED
    BY <2>2, <2>3 DEF Quiet
<1>9. CASE EnsureIntentRaises(p)
  <2>1. Act(p) \in Actions
    BY <1>9, Working DEF EnsureIntentRaises, At, PassPCs, pending_intent
  <2> QED
    BY <1>9, <2>1, MovedOn, Abandoned
    DEF EnsureIntentRaises, PCs, LivePCs, ExecutorPCs, RecoveryPCs,
        Holders, PassPCs
<1>10. CASE MarkLinked(p)
  <2>1. Act(p) \in Actions
    BY <1>10, Working DEF MarkLinked, At, PassPCs
  <2> QED
    BY <1>10, <2>1, OwnedMove
    DEF MarkLinked, WorkflowStates, PCs, LivePCs, ExecutorPCs,
        RecoveryPCs, Holders, PassPCs
<1>11. CASE ResumeLinked(p)
  <2>1. Act(p) \in Actions
    BY <1>11, Working DEF ResumeLinked, At, PassPCs
  <2> QED
    BY <1>11, <2>1, OwnedMove, ExpectedOrAbandoned
    DEF ResumeLinked, WorkflowStates, OrderStates, PCs, LivePCs,
        ExecutorPCs, RecoveryPCs, Holders, PassPCs
<1>12. CASE Reconstruct(p)
  <2>1. Act(p) \in Actions
    BY <1>12, Working DEF Reconstruct, At, PassPCs
  <2> QED
    BY <1>12, <2>1, OwnedMove
    DEF Reconstruct, WorkflowStates, PCs, LivePCs, ExecutorPCs,
        RecoveryPCs, Holders, PassPCs
<1>13. CASE SuppressSubmission(p)
  <2>1. Act(p) \in Actions
    BY <1>13, Working DEF SuppressSubmission, At, PassPCs, pending_submission
  <2> QED
    BY <1>13, <2>1, OwnedMove
    DEF SuppressSubmission, WorkflowStates, PCs, LivePCs, ExecutorPCs,
        RecoveryPCs, Holders, PassPCs
<1>14. CASE ExpireSubmission(p)
  <2>1. Act(p) \in Actions
    BY <1>14, Working DEF ExpireSubmission, At, PassPCs, pending_submission
  <2> QED
    BY <1>14, <2>1, ExpectedOrAbandoned
    DEF ExpireSubmission, OrderStates, PCs, LivePCs, ExecutorPCs,
        RecoveryPCs, Holders, PassPCs
<1>15. CASE CloseExpired(p)
  <2>1. Act(p) \in Actions
    BY <1>15, Working DEF CloseExpired, At, PassPCs
  <2> QED
    BY <1>15, <2>1, OwnedMove
    DEF CloseExpired, WorkflowStates, PCs, LivePCs, ExecutorPCs,
        RecoveryPCs, Holders, PassPCs
<1>16. CASE DeferSubmission(p)
  <2>1. Act(p) \in Actions
    BY <1>16, Working DEF DeferSubmission, At, PassPCs, pending_submission
  <2> QED
    BY <1>16, <2>1, MovedOn, ExpectedOrAbandoned
    DEF DeferSubmission, OrderStates, PCs, LivePCs, ExecutorPCs,
        RecoveryPCs, Holders, PassPCs
<1>17. CASE ResumeSubmission(p)
  <2>1. Act(p) \in Actions
    BY <1>17, Working DEF ResumeSubmission, At, PassPCs, pending_submission
  <2> QED
    BY <1>17, <2>1, OwnedMove
    DEF ResumeSubmission, WorkflowStates, PCs, LivePCs, ExecutorPCs,
        RecoveryPCs, Holders, PassPCs
<1>18. CASE RunSubmitter(p)
  <2>1. Act(p) \in Actions
    BY <1>18, Working DEF RunSubmitter, At, PassPCs
  <2>2. StoreKept
    BY <1>18, <2>1, NothingWritten DEF RunSubmitter
  <2>3. ProcKept
    BY <1>18, <2>1, LocalsKept
    DEF RunSubmitter, Return, Results, PCs, LivePCs, ExecutorPCs,
        RecoveryPCs, Holders, PassPCs
  <2> QED
    BY <2>2, <2>3 DEF Quiet
<1>19. CASE RecoverReturned(p)
  <2>1. Act(p) \in Actions
    BY <1>19, Working DEF RecoverReturned, At, PassPCs
  <2>2. StoreKept
    BY <1>19, <2>1, IntentMoved, StoreTypes DEF RecoverReturned, OrderStates
  <2>3. ProcKept
    BY <1>19, <2>1, LocalsKept
    DEF RecoverReturned, PCs, LivePCs, ExecutorPCs, RecoveryPCs, Holders,
        PassPCs
  <2> QED
    BY <2>2, <2>3 DEF Quiet
<1>20. CASE CallbackFailed(p)
  <2>1. Act(p) \in Actions
    BY <1>20, Working DEF CallbackFailed, At, PassPCs
  <2>2. StoreKept
    BY <1>20, <2>1, NothingWritten DEF CallbackFailed
  <2>3. ProcKept
    BY <1>20, <2>1, RowOfType, RowRead
    DEF CallbackFailed, PCs, LivePCs, ExecutorPCs, RecoveryPCs, Holders,
        PassPCs
  <2> QED
    BY <2>2, <2>3 DEF Quiet
<1>21. CASE ClassifyFailure(p)
  <2>1. Act(p) \in Actions
    BY <1>21, Working DEF ClassifyFailure, At, PassPCs
  <2>2. CASE Abandon(p)
    BY <2>2, Abandoned
  <2>3. CASE ~ Abandon(p)
    <3>1. PICK x \in Results : FailedOutcome(p, x)
      BY <1>21, <2>3 DEF ClassifyFailure, Results
    <3>2. /\ \/ transition_from(Act(p), "submitting",
                                "retryable_pre_submission")
             \/ UNCHANGED << intent, resv >>
          /\ UNCHANGED << evid, wf, prop, order >>
      BY <1>21, <2>3 DEF ClassifyFailure, storeVars
    <3> QED
      BY <2>1, <3>1, <3>2, FailureClassified
  <2> QED
    BY <2>2, <2>3
<1>22. CASE RecordOutcome(p)
  <2>1. Act(p) \in Actions
    BY <1>22, Working DEF RecordOutcome, At, PassPCs
  <2>2. CASE outcome_state(proc[p].res) \in WorkflowStates
    BY <1>22, <2>1, <2>2, OwnedMove
    DEF RecordOutcome, PCs, RecoveryPCs, Holders, PassPCs
  <2>3. CASE outcome_state(proc[p].res) \notin WorkflowStates
    BY <1>22, <2>1, <2>3, NotAWorkflowState, MovedOnWorkflow
    DEF RecordOutcome, owned_move, owned_transition, wf_transition, PCs,
         RecoveryPCs, Holders, PassPCs
  <2> QED
    BY <2>2, <2>3
<1>23. CASE LookupOnly(p)
  <2>1. Act(p) \in Actions
    BY <1>23, Working DEF LookupOnly, lookup_only, At, PassPCs
  <2>2. StoreKept
    BY <1>23, NothingWritten DEF LookupOnly
  <2>3. ProcKept
    BY <1>23, <2>1, PassBegun DEF LookupOnly, Kinds
  <2> QED
    BY <2>2, <2>3 DEF Quiet
<1>24. CASE LookupUnavailable(p)
  <2>1. Act(p) \in Actions
    BY <1>24, Working DEF LookupUnavailable, At, PassPCs, lookup_only
  <2> QED
    BY <1>24, <2>1, MovedOnWorkflow, OwnedMove
    DEF LookupUnavailable, conclude, WorkflowStates, PCs, LivePCs,
        ExecutorPCs, RecoveryPCs, Holders, PassPCs
<1>25. CASE ConcludeLookup(p)
  <2>1. Act(p) \in Actions
    BY <1>25, Working DEF ConcludeLookup, At, PassPCs
  <2>2. lookup_outcome(Act(p)) \in WorkflowStates
    BY DEF lookup_outcome, WorkflowStates
  <2> QED
    BY <1>25, <2>1, <2>2, MovedOnWorkflow, OwnedMove
    DEF ConcludeLookup, conclude, PCs, RecoveryPCs, Holders, PassPCs
<1>26. CASE Release(p)
  <2>1. Act(p) \in Actions
    BY <1>26, Working DEF Release, At, PassPCs
  <2>2. wf' \in [Actions -> WorkflowRows]
    BY <1>26, <2>1
    DEF Release, release_claim, TypeOK, StoreTypeOK, WorkflowRows
  <2> QED
    BY <1>26, <2>2, WorkflowWritten, LocalsFinished DEF Release, Quiet
<1> QED
  BY <1>1, <1>2, <1>3, <1>4, <1>5, <1>6, <1>7, <1>8, <1>9, <1>10, <1>11,
     <1>12, <1>13, <1>14, <1>15, <1>16, <1>17, <1>18, <1>19, <1>20, <1>21,
     <1>22, <1>23, <1>24, <1>25, <1>26 DEF RecoveryStep

\* Claiming a workflow changes the claim and the claimer.
LEMMA ClaimQuiet ==
  ASSUME TypeOK, Located, NEW p \in Procs,
         \E a \in Actions : ClaimWorkflow(p, a)
  PROVE  Quiet
<1>1. PICK a \in Actions : ClaimWorkflow(p, a)
  OBVIOUS
<1> DEFINE r == [proc[p] EXCEPT !.pc = "claimed", !.kind = "recover",
                                !.act = a, !.wseen = wf[a].state]
<1>2. wf' \in [Actions -> WorkflowRows]
  <2> DEFINE w == [wf[a] EXCEPT !.owner = p, !.lapsed = FALSE]
  <2>1. wf \in [Actions -> WorkflowRows] /\ wf[a] \in WorkflowRows
    BY DEF TypeOK, StoreTypeOK
  <2>2. w \in WorkflowRows
    BY <2>1 DEF WorkflowRows
  <2>3. wf' = [wf EXCEPT ![a] = w]
    BY <1>1, <2>1 DEF ClaimWorkflow, claim
  <2> HIDE DEF w
  <2> QED
    BY <2>1, <2>2, <2>3
<1>3. StoreKept
  BY <1>1, <1>2, WorkflowWritten DEF ClaimWorkflow
<1>4. proc[p] \in ProcRows /\ wf[a].state \in WorkflowStates \cup {"none"}
  BY DEF TypeOK, ProcTypeOK, StoreTypeOK, WorkflowRows
<1>5. r \in ProcRows /\ r.pc \notin Holders /\ Placed(r)
  BY <1>4, NoActionAssumption, ZenonT(60)
  DEF ProcRows, PCs, RecoveryPCs, Kinds, Holders, Placed, PassPCs
<1>6. proc' = [proc EXCEPT ![p] = r]
  BY <1>1, <1>4 DEF ClaimWorkflow, TypeOK, ProcTypeOK, ProcRows
<1>7. ProcKept
  <2> HIDE DEF r
  <2> QED
    BY <1>5, <1>6, LocalsReplaced
<1> QED
  BY <1>3, <1>7 DEF Quiet

(***************************************************************************)
(* The world around the processes.                                         *)
(***************************************************************************)

\* A step no process takes.
LEMMA ProcUnchanged ==
  ASSUME TypeOK, Located, UNCHANGED proc
  PROVE  ProcKept
BY DEF TypeOK, ProcTypeOK, Located, ProcKept

\* Whatever the broker does with an order, it counts no request twice.
LEMMA BrokerKeepsCount ==
  ASSUME TypeOK, NEW a \in Actions, BrokerStep(a), UNCHANGED storeVars
  PROVE  StoreKept
<1> DEFINE Counted(r) == r \in OrderRows /\ r.sent = order[a].sent
<1>1. order \in [Actions -> OrderRows] /\ order[a] \in OrderRows
  BY DEF TypeOK, BrokerTypeOK
<1>2. ASSUME NEW s \in RemoteStatuses \cup {"absent"}, Becomes(a, s)
      PROVE  \E r : Counted(r) /\ order' = [order EXCEPT ![a] = r]
  <2> DEFINE r == [order[a] EXCEPT !.status = s]
  <2>1. Counted(r)
    BY <1>1 DEF OrderRows
  <2>2. order' = [order EXCEPT ![a] = r]
    BY <1>1, <1>2 DEF Becomes
  <2> QED
    BY <2>1, <2>2
<1>3. ASSUME NEW q \in 1..Qty, Execute(a, q)
      PROVE  \E r : Counted(r) /\ order' = [order EXCEPT ![a] = r]
  <2> DEFINE t == IF order[a].filled + q = Qty THEN "filled"
                  ELSE IF order[a].status = "pending_cancel"
                         THEN order[a].status ELSE "partially_filled"
             r == [order[a] EXCEPT !.filled = order[a].filled + q,
                                   !.status = t]
  <2>1. t \in RemoteStatuses
    BY DEF RemoteStatuses
  <2>2. order[a].filled + q \in 0..Qty
    BY <1>1, <1>3, QtyAssumption DEF Execute, OrderRows
  <2>3. order' = [order EXCEPT ![a] = r]
    BY <1>1, <1>3 DEF Execute
  <2> HIDE DEF t
  <2>4. Counted(r)
    BY <1>1, <2>1, <2>2 DEF OrderRows
  <2> QED
    BY <2>3, <2>4
<1>4. \/ \E s \in RemoteStatuses \cup {"absent"} : Becomes(a, s)
      \/ \E q \in 1..Qty : Execute(a, q)
  BY DEF BrokerStep, Arrive, Vanish, RequestCancel, CloseRemainder,
         RemoteStatuses
<1>5. PICK r : Counted(r) /\ order' = [order EXCEPT ![a] = r]
  BY <1>2, <1>3, <1>4
<1>6. BrokerTypeOK'
  BY <1>1, <1>5 DEF BrokerTypeOK
<1>7. \A b \in Actions : order'[b].sent = order[b].sent
  BY <1>1, <1>5
<1> QED
  BY <1>6, <1>7 DEF StoreKept, MarkersKept, storeVars, TypeOK, StoreTypeOK

\* Expiry, leases and the broker's own steps.
LEMMA EnvironmentQuiet ==
  ASSUME TypeOK, Located, NEW a \in Actions, Environment(a)
  PROVE  Quiet
<1>1. CASE ExpireProposal(a)
  <2>1. prop' \in [Actions -> ProposalStates]
    BY <1>1 DEF ExpireProposal, TypeOK, StoreTypeOK, ProposalStates
  <2> QED
    BY <1>1, <2>1, ProposalWritten, ProcUnchanged DEF ExpireProposal, Quiet
<1>2. CASE ExpireLease(a)
  <2>1. wf' \in [Actions -> WorkflowRows]
    BY <1>2 DEF ExpireLease, TypeOK, StoreTypeOK, WorkflowRows
  <2> QED
    BY <1>2, <2>1, WorkflowWritten, ProcUnchanged DEF ExpireLease, Quiet
<1>3. CASE BrokerStep(a) /\ UNCHANGED << storeVars, proc >>
  BY <1>3, BrokerKeepsCount, ProcUnchanged DEF Quiet
<1> QED
  BY <1>1, <1>2, <1>3 DEF Environment

\* A crash forgets who was about to call the broker; the marker stays.
LEMMA CrashQuiet ==
  ASSUME TypeOK, Located, NEW p \in Procs, Crash(p)
  PROVE  Quiet
BY ClaimLeaked, LocalsFinished DEF Crash, Quiet

(***************************************************************************)
(* The inductive invariant.                                                *)
(***************************************************************************)

\* A quiet step preserves the inductive invariant.
LEMMA QuietPreserves ==
  ASSUME IInv, Quiet, crashes' \in Nat
  PROVE  IInv'
<1>1. TypeOK' /\ Located'
  BY DEF Quiet, StoreKept, ProcKept, TypeOK
<1>2. Held'
  BY DEF IInv, Held, TypeOK, ProcTypeOK, ProcRows, Quiet, StoreKept, ProcKept,
         MarkersKept, Located, Placed, Holders, PassPCs
<1>3. OneHolder'
  BY DEF IInv, OneHolder, Quiet, ProcKept
<1>4. SentOnce'
  BY DEF IInv, SentOnce, Quiet, StoreKept, MarkersKept
<1> QED
  BY <1>1, <1>2, <1>3, <1>4 DEF IInv

\* The steps that do mark, unmark or send belong to a process that moves
\* from one label to another.
LEMMA Moved ==
  ASSUME TypeOK, Located, NEW p \in Procs, Act(p) \in Actions,
         NEW l \in PCs \ PassPCs, Goto(p, l)
  PROVE  /\ ProcTypeOK'
         /\ Located'
         /\ \A q \in Procs :
              /\ proc'[q].act = proc[q].act
              /\ proc'[q].pc = IF q = p THEN l ELSE proc[q].pc
<1> DEFINE r == [proc[p] EXCEPT !.pc = l]
<1>1. proc \in [Procs -> ProcRows] /\ proc[p] \in ProcRows /\ Placed(proc[p])
  BY DEF TypeOK, ProcTypeOK, Located
<1>2. r \in ProcRows
  BY <1>1, LocalsTypes
<1>3. r.pc = l /\ r.act = proc[p].act /\ Placed(r)
  BY <1>1, NoActionAssumption DEF ProcRows, Placed, Act
<1>4. proc' = [proc EXCEPT ![p] = r]
  BY <1>1 DEF Goto
<1> HIDE DEF r
<1>5. ProcTypeOK'
  BY <1>1, <1>2, <1>4 DEF ProcTypeOK
<1>6. Located'
  BY <1>1, <1>3, <1>4 DEF Located
<1>7. \A q \in Procs : /\ proc'[q].act = proc[q].act
                       /\ proc'[q].pc = IF q = p THEN l ELSE proc[q].pc
  BY <1>1, <1>3, <1>4
<1> QED
  BY <1>5, <1>6, <1>7

\* Who holds an action has it.
LEMMA HolderWorks ==
  ASSUME TypeOK, Located, NEW p \in Procs, proc[p].pc \in Holders
  PROVE  proc[p].act \in Actions
BY Working DEF Holders, PassPCs, Act

\* A marker that is rewritten leaves well-formed tables.
LEMMA MarkerTypes ==
  ASSUME TypeOK, NEW a \in Actions, NEW m \in BOOLEAN,
         intent' = [intent EXCEPT ![a].marked = m],
         UNCHANGED << resv, evid, wf, prop >>
  PROVE  /\ StoreTypeOK'
         /\ \A b \in Actions :
              intent'[b].marked = IF b = a THEN m ELSE intent[b].marked
<1> DEFINE r == [intent[a] EXCEPT !.marked = m]
<1>1. intent \in [Actions -> IntentRows] /\ intent[a] \in IntentRows
  BY DEF TypeOK, StoreTypeOK
<1>2. r \in IntentRows
  BY <1>1, IntentRowTypes
<1>3. r.marked = m
  BY <1>1 DEF IntentRows
<1>4. intent' = [intent EXCEPT ![a] = r]
  BY <1>1
<1> HIDE DEF r
<1>5. intent' \in [Actions -> IntentRows]
  BY <1>1, <1>2, <1>4
<1>6. StoreTypeOK'
  BY <1>5 DEF TypeOK, StoreTypeOK
<1>7. \A b \in Actions :
        intent'[b].marked = IF b = a THEN m ELSE intent[b].marked
  BY <1>1, <1>3, <1>4
<1> QED
  BY <1>6, <1>7

\* The marker is set by one process on an unmarked row: nothing was sent yet
\* and nobody else holds the action.
LEMMA MarkPreserves ==
  ASSUME IInv, NEW p \in Procs, MarkInvocation(p), UNCHANGED crashes
  PROVE  IInv'
<1>1. TypeOK /\ Located /\ Act(p) \in Actions /\ crashes' \in Nat
  BY Working DEF IInv, TypeOK, MarkInvocation, At, PassPCs
<1>2. CASE boundary_holds(Act(p)) /\ intent[Act(p)].bound = proc[p].bound
  <2>1. /\ intent' = [intent EXCEPT ![Act(p)].marked = TRUE]
        /\ Goto(p, "marked")
        /\ UNCHANGED << resv, evid, wf, prop, order >>
    BY <1>2 DEF MarkInvocation
  <2>2. /\ StoreTypeOK'
        /\ \A b \in Actions :
             intent'[b].marked = IF b = Act(p) THEN TRUE ELSE intent[b].marked
    BY <1>1, <2>1, MarkerTypes
  <2>3. /\ ProcTypeOK'
        /\ Located'
        /\ \A q \in Procs :
             /\ proc'[q].act = proc[q].act
             /\ proc'[q].pc = IF q = p THEN "marked" ELSE proc[q].pc
    BY <1>1, <2>1, Moved DEF PCs, ExecutorPCs, PassPCs
  <2>4. TypeOK'
    BY <1>1, <2>1, <2>2, <2>3 DEF TypeOK, BrokerTypeOK
  <2>5. ~ intent[Act(p)].marked /\ order[Act(p)].sent = 0
    BY <1>1, <1>2 DEF boundary_holds, IInv, SentOnce
  <2>6. Held'
    BY <1>1, <2>1, <2>2, <2>3, <2>5, HolderWorks DEF IInv, Held, Act
  <2>7. OneHolder'
    BY <2>3, <2>5 DEF IInv, Held, OneHolder, Act
  <2>8. SentOnce'
    BY <2>1, <2>2, <2>5 DEF IInv, SentOnce
  <2> QED
    BY <2>3, <2>4, <2>6, <2>7, <2>8 DEF IInv
<1>3. CASE UNCHANGED intent /\ Goto(p, "rejecting")
  <2>1. UNCHANGED << storeVars, order >>
    BY <1>3 DEF MarkInvocation, storeVars
  <2>2. Quiet
    BY <1>1, <1>3, <2>1, MovedOn DEF PCs, ExecutorPCs, Holders, PassPCs
  <2> QED
    BY <1>1, <2>2, QuietPreserves
<1> QED
  BY <1>2, <1>3 DEF MarkInvocation

\* The call is made by the only holder, so it is the first for the action.
LEMMA CallPreserves ==
  ASSUME IInv, NEW p \in Procs, CallBroker(p), UNCHANGED crashes
  PROVE  IInv'
<1>1. /\ TypeOK /\ Located /\ Act(p) \in Actions /\ crashes' \in Nat
      /\ proc[p].pc \in Holders
  BY Working DEF IInv, TypeOK, CallBroker, At, PassPCs, Holders
<1>2. intent[Act(p)].marked /\ order[Act(p)].sent = 0
  BY <1>1 DEF IInv, Held, Act
<1>3. /\ ProcTypeOK'
      /\ Located'
      /\ \A q \in Procs :
           /\ proc'[q].act = proc[q].act
           /\ proc'[q].pc = IF q = p THEN "waiting" ELSE proc[q].pc
  BY <1>1, Moved DEF CallBroker, PCs, ExecutorPCs, PassPCs
<1>4. /\ BrokerTypeOK'
      /\ \A b \in Actions :
           order'[b].sent = IF b = Act(p) THEN 1 ELSE order[b].sent
  <2> DEFINE a == Act(p)
             t == IF order[a].status = "absent" THEN "travelling"
                  ELSE order[a].status
             r == [order[a] EXCEPT !.sent = 1, !.status = t]
  <2>1. order \in [Actions -> OrderRows] /\ order[a] \in OrderRows
    BY <1>1 DEF TypeOK, BrokerTypeOK
  <2>2. order' = [order EXCEPT ![a] = r]
    <3>1. order' = [order EXCEPT
             ![a] = [order[a] EXCEPT !.sent = order[a].sent + 1, !.status = t]]
      BY <2>1 DEF CallBroker, submit_order
    <3>2. order[a].sent + 1 = 1
      BY <1>2
    <3> QED
      BY <3>1, <3>2
  <2>3. t \in RemoteStatuses \cup {"absent", "travelling"}
    BY <2>1 DEF OrderRows
  <2> HIDE DEF t
  <2>4. r \in OrderRows /\ r.sent = 1
    BY <2>1, <2>3 DEF OrderRows
  <2> HIDE DEF r
  <2> QED
    BY <2>1, <2>2, <2>4 DEF BrokerTypeOK
<1>5. UNCHANGED storeVars
  BY DEF CallBroker
<1>6. TypeOK'
  BY <1>1, <1>3, <1>4, <1>5 DEF TypeOK, StoreTypeOK, storeVars
<1>7. Held'
  BY <1>1, <1>3, <1>4, <1>5, HolderWorks
  DEF IInv, Held, OneHolder, Holders, Act, storeVars
<1>8. OneHolder'
  BY <1>3 DEF IInv, OneHolder, Holders
<1>9. SentOnce'
  BY <1>2, <1>4, <1>5 DEF IInv, SentOnce, storeVars
<1> QED
  BY <1>3, <1>6, <1>7, <1>8, <1>9 DEF IInv

\* The adapter refused before it built a request: the holder stays the
\* holder until it has cleared the marker.
LEMMA RefusalPreserves ==
  ASSUME IInv, NEW p \in Procs, AdapterRefuses(p), UNCHANGED crashes
  PROVE  IInv'
<1>1. /\ TypeOK /\ Located /\ Act(p) \in Actions /\ crashes' \in Nat
      /\ proc[p].pc \in Holders
  BY Working DEF IInv, TypeOK, AdapterRefuses, At, PassPCs, Holders
<1>2. /\ ProcTypeOK'
      /\ Located'
      /\ \A q \in Procs :
           /\ proc'[q].act = proc[q].act
           /\ proc'[q].pc = IF q = p THEN "refused" ELSE proc[q].pc
  BY <1>1, Moved DEF AdapterRefuses, PCs, ExecutorPCs, PassPCs
<1>3. UNCHANGED << storeVars, order >>
  BY DEF AdapterRefuses
<1>4. TypeOK'
  BY <1>1, <1>2, <1>3 DEF TypeOK, StoreTypeOK, BrokerTypeOK, storeVars
<1>5. Held'
  BY <1>1, <1>2, <1>3 DEF IInv, Held, storeVars
<1>6. OneHolder'
  BY <1>1, <1>2 DEF IInv, OneHolder
<1>7. SentOnce'
  BY <1>3 DEF IInv, SentOnce, storeVars
<1> QED
  BY <1>2, <1>4, <1>5, <1>6, <1>7 DEF IInv

\* The marker is cleared by its only holder, before anything was sent.
LEMMA ClearPreserves ==
  ASSUME IInv, NEW p \in Procs, ClearMark(p), UNCHANGED crashes
  PROVE  IInv'
<1>1. /\ TypeOK /\ Located /\ Act(p) \in Actions /\ crashes' \in Nat
      /\ proc[p].pc \in Holders
  BY Working DEF IInv, TypeOK, ClearMark, At, PassPCs, Holders
<1>2. intent[Act(p)].marked /\ order[Act(p)].sent = 0
  BY <1>1 DEF IInv, Held, Act
<1>3. /\ ProcTypeOK'
      /\ Located'
      /\ \A q \in Procs :
           /\ proc'[q].act = proc[q].act
           /\ proc'[q].pc = IF q = p THEN "refusing" ELSE proc[q].pc
  BY <1>1, Moved DEF ClearMark, PCs, ExecutorPCs, PassPCs
<1>4. UNCHANGED << resv, evid, wf, prop, order >>
  BY DEF ClearMark
<1>5. /\ StoreTypeOK'
      /\ \A b \in Actions :
           intent'[b].marked = IF b = Act(p) THEN FALSE ELSE intent[b].marked
  BY <1>1, <1>4, MarkerTypes DEF ClearMark
<1>6. TypeOK'
  BY <1>1, <1>3, <1>4, <1>5 DEF TypeOK, BrokerTypeOK
<1>7. Held'
  BY <1>1, <1>3, <1>4, <1>5, HolderWorks
  DEF IInv, Held, OneHolder, Holders, Act
<1>8. OneHolder'
  BY <1>3 DEF IInv, OneHolder, Holders
<1>9. SentOnce'
  BY <1>2, <1>4, <1>5 DEF IInv, SentOnce
<1> QED
  BY <1>3, <1>6, <1>7, <1>8, <1>9 DEF IInv

\* Initially nothing is marked, held or sent.
LEMMA InitIInv == Init => IInv
<1> SUFFICES ASSUME Init PROVE IInv
  OBVIOUS
<1>1. StoreTypeOK
  BY QtyAssumption
  DEF Init, StoreInit, StoreTypeOK, IntentRows, ReservationRows, WorkflowRows,
      EvidenceSources, ProposalStates, CONFIRMED_ABSENCE_OBSERVATIONS
<1>2. BrokerTypeOK
  BY QtyAssumption DEF Init, BrokerInit, BrokerTypeOK, OrderRows
<1>3. ProcTypeOK
  BY IdleType DEF Init, ProcInit, ProcTypeOK
<1>4. crashes \in Nat
  BY DEF Init
<1>5. \A p \in Procs : proc[p].pc = "idle" /\ Placed(proc[p])
  BY DEF Init, ProcInit, IdleProc, Placed, PassPCs
<1>6. \A a \in Actions : order[a].sent = 0
  BY DEF Init, BrokerInit
<1> QED
  BY <1>1, <1>2, <1>3, <1>4, <1>5, <1>6
  DEF IInv, TypeOK, Located, Held, OneHolder, SentOnce, Holders

\* Every step preserves the inductive invariant.
LEMMA NextIInv == IInv /\ [Next]_allVars => IInv'
<1> SUFFICES ASSUME IInv, [Next]_allVars PROVE IInv'
  OBVIOUS
<1>1. TypeOK /\ Located /\ crashes \in Nat
  BY DEF IInv, TypeOK
<1>2. ASSUME NEW p \in Procs, ProcStep(p), UNCHANGED crashes
      PROVE  IInv'
  <2>1. CASE LiveStep(p)
    BY <1>1, <1>2, <2>1, LiveQuiet, QuietPreserves
  <2>2. CASE ExecuteStep(p)
    BY <1>1, <1>2, <2>2, ExecuteQuiet, QuietPreserves, MarkPreserves,
       CallPreserves, RefusalPreserves, ClearPreserves
  <2>3. CASE StartCycle(p)
    BY <1>1, <1>2, <2>3, CycleQuiet, QuietPreserves
  <2>4. CASE PassStep(p)
    BY <1>1, <1>2, <2>4, PassQuiet, QuietPreserves
  <2>5. CASE \E a \in Actions : ClaimWorkflow(p, a)
    BY <1>1, <1>2, <2>5, ClaimQuiet, QuietPreserves
  <2>6. CASE RecoveryStep(p)
    BY <1>1, <1>2, <2>6, RecoveryQuiet, QuietPreserves
  <2> QED
    BY <1>2, <2>1, <2>2, <2>3, <2>4, <2>5, <2>6 DEF ProcStep
<1>3. ASSUME NEW p \in Procs, Crash(p) PROVE IInv'
  BY <1>1, <1>3, CrashQuiet, QuietPreserves DEF Crash
<1>4. ASSUME NEW a \in Actions, Environment(a), UNCHANGED crashes PROVE IInv'
  BY <1>1, <1>4, EnvironmentQuiet, QuietPreserves
<1>5. CASE UNCHANGED allVars
  <2>1. Quiet
    BY <1>1, <1>5, NothingWritten, ProcUnchanged DEF allVars, vars, Quiet
  <2> QED
    BY <1>1, <1>5, <2>1, QuietPreserves DEF allVars
<1> QED
  BY <1>2, <1>3, <1>4, <1>5 DEF Next

\* The inductive invariant: the marker of Executor.execute has one holder,
\* and a request is counted only once and only behind a marker.
THEOREM IInvHolds == Spec => []IInv
BY InitIInv, NextIInv, PTL DEF Spec

\* The tables, the broker's book and the locals of every process keep their
\* types: in particular no code path books more than was asked for or counts
\* an absence past the confirming one.
THEOREM TypeCorrect == Spec => []TypeOK
<1>1. IInv => TypeOK
  BY DEF IInv
<1> QED
  BY <1>1, IInvHolds, PTL

\* One approved action is sent to the broker at most once, whoever executes
\* or resumes it and however often processes crash: Executor.execute sets
\* the invocation marker only on an unmarked row, and only the process that
\* set it calls the adapter.
THEOREM SentAtMostOnce == Spec => []AtMostOneRequest
<1>1. IInv => AtMostOneRequest
  BY DEF IInv, SentOnce, AtMostOneRequest
<1> QED
  BY <1>1, IInvHolds, PTL

\* Whatever was sent is marked, so that nobody takes the row for unsent: the
\* marker is cleared only by the process that set it, and only when the
\* adapter refused to build the request.
THEOREM SentIsMarked == Spec => []MarkPrecedesRequest
<1>1. IInv => MarkPrecedesRequest
  BY DEF IInv, TypeOK, BrokerTypeOK, OrderRows, SentOnce, MarkPrecedesRequest
<1> QED
  BY <1>1, IInvHolds, PTL

(***************************************************************************)
(* What every step does to intents and reservations: nothing, or one of    *)
(* the three transactions that write both.                                 *)
(***************************************************************************)

\* No state, no filled quantity and no reservation changes.
BooksKept ==
  /\ UNCHANGED resv
  /\ \A b \in Actions : /\ intent'[b].state = intent[b].state
                        /\ intent'[b].filled = intent[b].filled

Transition == \E a \in Actions, t \in OrderStates : transition(a, t)

\* A process books what the broker told it of the order in hand.
Booking ==
  \E p \in Procs, a \in Actions, src \in EvidenceSources :
    /\ \/ proc[p].pc = "answered" /\ a = Act(p)
       \/ proc[p].pc = "apply" /\ a = Cur(p)
    /\ record_fill(a, proc[p].obs.filled, proc[p].obs.status, src)

Creation == \E p \in Procs, a \in Actions : create_intent(p, a)

BooksMove == BooksKept \/ Transition \/ Booking \/ Creation

\* An update of a marker, a count or a snapshot is none of the books.
LEMMA RowDetails ==
  ASSUME StoreTypeOK, NEW a \in Actions, UNCHANGED resv,
         \/ \E m \in BOOLEAN : intent' = [intent EXCEPT ![a].marked = m]
         \/ \E p \in Procs : intent' = [intent EXCEPT ![a].bound = p]
         \/ \E n : intent' = [intent EXCEPT ![a].absent = n]
         \/ UNCHANGED intent
  PROVE  BooksKept
<1>1. intent \in [Actions -> IntentRows]
  BY DEF StoreTypeOK
<1>2. \A r \in IntentRows : \A m : /\ [r EXCEPT !.marked = m].state = r.state
                                   /\ [r EXCEPT !.marked = m].filled = r.filled
                                   /\ [r EXCEPT !.bound = m].state = r.state
                                   /\ [r EXCEPT !.bound = m].filled = r.filled
                                   /\ [r EXCEPT !.absent = m].state = r.state
                                   /\ [r EXCEPT !.absent = m].filled = r.filled
  BY DEF IntentRows
<1>3. CASE \E m \in BOOLEAN : intent' = [intent EXCEPT ![a].marked = m]
  BY <1>1, <1>2, <1>3 DEF BooksKept
<1>4. CASE \E p \in Procs : intent' = [intent EXCEPT ![a].bound = p]
  BY <1>1, <1>2, <1>4 DEF BooksKept
<1>5. CASE \E n : intent' = [intent EXCEPT ![a].absent = n]
  BY <1>1, <1>2, <1>5 DEF BooksKept
<1>6. QED
  BY <1>3, <1>4, <1>5 DEF BooksKept

\* The live caller writes the intent of no order.
LEMMA LiveBooks ==
  ASSUME TypeOK, Located, NEW p \in Procs, LiveStep(p)
  PROVE  BooksKept
BY DEF LiveStep, AcceptApproval, BeginValidation, RefuseApproval, ConsumeApproval,
   FinalRevalidation, SettleWorkflow, CloseProposal, BooksKept, storeVars

\* Executor.execute moves an intent by transition, books the response of the
\* broker, or creates the intent.
LEMMA ExecuteBooks ==
  ASSUME TypeOK, Located, NEW p \in Procs, ExecuteStep(p)
  PROVE  BooksMove
<1>1. StoreTypeOK /\ (~ At(p, "idle") /\ proc[p].pc \notin PassPCs => Act(p) \in Actions)
  BY Working DEF TypeOK, At
<1>2. CASE UNCHANGED << intent, resv >>
  BY <1>2 DEF BooksMove, BooksKept
<1>3. CASE BrokerMissing(p)
  <2>1. Act(p) \in Actions
    BY <1>1, <1>3 DEF BrokerMissing, At, PassPCs
  <2>2. QED
    BY <1>2, <1>3, <2>1 DEF BrokerMissing, BooksMove, Transition, OrderStates
<1>4. CASE CreateIntent(p)
  <2>1. Act(p) \in Actions
    BY <1>1, <1>4 DEF CreateIntent, At, PassPCs
  <2>2. QED
    BY <1>4, <2>1 DEF CreateIntent, BooksMove, Creation
<1>5. CASE GetIntent(p)
  <2>1. Act(p) \in Actions
    BY <1>1, <1>5 DEF GetIntent, At, PassPCs
  <2>2. BooksKept
    BY <1>1, <1>5, <2>1, RowDetails DEF GetIntent, get_intent_again
  <2>3. QED
    BY <2>2 DEF BooksMove
<1>6. CASE StartSubmission(p)
  <2>1. Act(p) \in Actions
    BY <1>1, <1>6 DEF StartSubmission, At, PassPCs
  <2>2. QED
    BY <1>2, <1>6, <2>1
    DEF StartSubmission, BooksMove, Transition, transition_from, OrderStates
<1>7. CASE VerifySnapshot(p) \/ MarkInvocation(p) \/ ClearMark(p)
  <2>1. Act(p) \in Actions
    BY <1>1, <1>7 DEF VerifySnapshot, MarkInvocation, ClearMark, At, PassPCs
  <2>2. UNCHANGED resv
    BY <1>7 DEF VerifySnapshot, MarkInvocation, ClearMark
  <2>3. \/ \E m \in BOOLEAN : intent' = [intent EXCEPT ![Act(p)].marked = m]
        \/ \E q \in Procs : intent' = [intent EXCEPT ![Act(p)].bound = q]
        \/ UNCHANGED intent
    BY <1>7 DEF VerifySnapshot, MarkInvocation, ClearMark
  <2>4. BooksKept
    BY <1>1, <2>1, <2>2, <2>3, RowDetails
  <2>5. QED
    BY <2>4 DEF BooksMove
<1>8. CASE RejectBeforeBroker(p) \/ BookIncompleteFill(p) \/ MarkUnknown(p) \/ RejectRefused(p)
  <2>1. Act(p) \in Actions
    BY <1>1, <1>8
    DEF RejectBeforeBroker, BookIncompleteFill, MarkUnknown, RejectRefused, At, PassPCs
  <2>2. \E t \in OrderStates : transition(Act(p), t)
    BY <1>8
    DEF RejectBeforeBroker, BookIncompleteFill, MarkUnknown, RejectRefused, transition_from,
        OrderStates
  <2>3. QED
    BY <2>1, <2>2 DEF BooksMove, Transition
<1>9. CASE BookResponse(p)
  <2>1. Act(p) \in Actions
    BY <1>1, <1>9 DEF BookResponse, At, PassPCs
  <2>2. \/ record_fill(Act(p), proc[p].obs.filled, proc[p].obs.status, "submission")
        \/ transition(Act(p), "submitted")
    BY <1>9 DEF BookResponse
  <2>3. proc[p].pc = "answered"
    BY <1>9 DEF BookResponse, At
  <2>4. QED
    BY <2>1, <2>2, <2>3 DEF BooksMove, Booking, Transition, OrderStates, EvidenceSources
<1>10. QED
  BY <1>2, <1>3, <1>4, <1>5, <1>6, <1>7, <1>8, <1>9
  DEF ExecuteStep, LoadAuthority, PersistValidation, IntentRefused, MarkPending, StartWorkflow,
      ReadBack, CloseRejectedWorkflow, CallBroker, AdapterRefuses, BrokerAnswers, AnswerLost,
      LocalUpdateFails, Acknowledge, ExecuteRaises, storeVars

\* A pass books what it saw, or moves an intent by transition.
LEMMA PassBooks ==
  ASSUME TypeOK, Located, NEW p \in Procs, PassStep(p)
  PROVE  BooksMove
<1>1. StoreTypeOK /\ (proc[p].pc \in PassPCs \ { "pass" } => Cur(p) \in Actions)
  BY Reconciling DEF TypeOK
<1>2. CASE UNCHANGED << intent, resv >>
  BY <1>2 DEF BooksMove, BooksKept
<1>3. CASE RecordAbsence(p) \/ RecordFound(p)
  <2>1. Cur(p) \in Actions
    BY <1>1, <1>3 DEF RecordAbsence, RecordFound, At, PassPCs
  <2>2. UNCHANGED resv /\ \E n : intent' = [intent EXCEPT ![Cur(p)].absent = n]
    BY <1>3 DEF RecordAbsence, RecordFound
  <2>3. BooksKept
    BY <1>1, <2>1, <2>2, RowDetails
  <2>4. QED
    BY <2>3 DEF BooksMove
<1>4. CASE ConcludeAbsence(p) \/ RequireEvidence(p) \/ ApplyStatus(p)
  <2>1. Cur(p) \in Actions
    BY <1>1, <1>4 DEF ConcludeAbsence, RequireEvidence, ApplyStatus, At, PassPCs
  <2>2. UNCHANGED << intent, resv >> \/ \E t \in OrderStates : transition(Cur(p), t)
    BY <1>4, TargetType
    DEF ConcludeAbsence, RequireEvidence, ApplyStatus, absence_target, OrderStates
  <2>3. QED
    BY <1>2, <2>1, <2>2 DEF BooksMove, Transition
<1>5. CASE ApplyFill(p)
  <2>1. Cur(p) \in Actions
    BY <1>1, <1>5 DEF ApplyFill, At, PassPCs
  <2>2. /\ record_fill(Cur(p), proc[p].obs.filled, proc[p].obs.status, "reconciliation")
        /\ proc[p].pc = "apply"
    BY <1>5 DEF ApplyFill, At
  <2>3. QED
    BY <2>1, <2>2 DEF BooksMove, Booking, EvidenceSources
<1>6. QED
  BY <1>2, <1>3, <1>4, <1>5
  DEF PassStep, EndPass, LookupFails, LookupAnswers, AbsenceRaises, ApplyFillRaises,
      ApplyStatusRaises, storeVars

\* Recovery moves an intent by transition or makes the missing one.
LEMMA RecoveryBooks ==
  ASSUME TypeOK, Located, NEW p \in Procs, RecoveryStep(p)
  PROVE  BooksMove
<1>1. Row(p) \in RowViews \/ Act(p) \notin Actions
  BY DEF TypeOK, ProcTypeOK, ProcRows, Row, Act
<1>2. CASE UNCHANGED << intent, resv >>
  BY <1>2 DEF BooksMove, BooksKept
<1>3. ASSUME NEW s, NEW t \in OrderStates, NEW l, expected_or_abandon(p, s, t, l),
             Act(p) \in Actions
      PROVE  BooksMove
  BY <1>2, <1>3 DEF expected_or_abandon, Abandon, transition_from, BooksMove, Transition
<1>4. ASSUME proc[p].pc \notin {"idle"} \cup PassPCs PROVE Act(p) \in Actions
  BY <1>4, Working
<1>5. CASE ProveUnsent(p)
  BY <1>2, <1>3, <1>4, <1>5 DEF ProveUnsent, At, PassPCs, OrderStates, storeVars
<1>6. CASE EnsureIntent(p)
  BY <1>2, <1>4, <1>6 DEF EnsureIntent, pending_intent, At, PassPCs, BooksMove, Creation
<1>7. CASE EnsureIntentRaises(p)
  BY <1>2, <1>7 DEF EnsureIntentRaises, Abandon, storeVars
<1>8. CASE ResumeLinked(p)
  BY <1>2, <1>3, <1>4, <1>8 DEF ResumeLinked, At, PassPCs, OrderStates
<1>9. CASE ExpireSubmission(p) \/ DeferSubmission(p)
  BY <1>2, <1>3, <1>4, <1>9
  DEF ExpireSubmission, DeferSubmission, pending_submission, At, PassPCs, OrderStates, storeVars
<1>10. CASE RecoverReturned(p)
  BY <1>2, <1>4, <1>10 DEF RecoverReturned, At, PassPCs, BooksMove, Transition, OrderStates
<1>11. CASE ClassifyFailure(p)
  BY <1>2, <1>4, <1>11
  DEF ClassifyFailure, Abandon, At, PassPCs, BooksMove, Transition, transition_from, OrderStates,
      storeVars
<1>12. QED
  BY <1>2, <1>5, <1>6, <1>7, <1>8, <1>9, <1>10, <1>11
  DEF RecoveryStep, ReadIntent, LinkExisting, Repend, ResumeValidation, AdvanceValidation,
      DeclineIntent, MarkLinked, Reconstruct, SuppressSubmission, CloseExpired, ResumeSubmission,
      RunSubmitter, CallbackFailed, RecordOutcome, LookupOnly, LookupUnavailable,
      ConcludeLookup, Release, storeVars

\* Every step of the system is one of the four.
LEMMA NextBooks ==
  ASSUME TypeOK, Located, [Next]_allVars
  PROVE  BooksMove
<1>1. CASE UNCHANGED << intent, resv >>
  BY <1>1 DEF BooksMove, BooksKept
<1>2. ASSUME NEW p \in Procs, ProcStep(p) PROVE BooksMove
  BY <1>1, <1>2, LiveBooks, ExecuteBooks, PassBooks, RecoveryBooks
  DEF ProcStep, StartCycle, ClaimWorkflow, BooksMove, storeVars
<1>3. ASSUME NEW p \in Procs, Crash(p) PROVE BooksMove
  BY <1>1, <1>3 DEF Crash
<1>4. ASSUME NEW a \in Actions, Environment(a) PROVE BooksMove
  BY <1>1, <1>4 DEF Environment, ExpireProposal, ExpireLease, storeVars
<1>5. QED
  BY <1>1, <1>2, <1>3, <1>4 DEF Next, allVars, vars, storeVars

(***************************************************************************)
(* The books: a reservation is the image of its intent, and a symbol and   *)
(* side have one active reservation.                                       *)
(***************************************************************************)

\* The reservation that belongs to an intent row.
reservation_of(r) ==
  IF r.state = "none" THEN [state |-> "none", units |-> 0]
  ELSE IF r.state \in TERMINAL_STATES THEN Released
  ELSE [state |-> "active", units |-> Qty - r.filled]

\* An action without a row has no fill either.
UnbornIsUnfilled ==
  \A a \in Actions : intent[a].state = "none" => intent[a].filled = 0

BooksInv == ReservationTracksIntent /\ OneActivePerSlot /\ UnbornIsUnfilled

\* The table of transitions leaves no terminal state and leads from and to
\* states of orders only.
LEMMA TransitionTable ==
  ASSUME NEW s \in OrderStates \cup {"none"}, NEW t, s # "none", validate_transition(s, t)
  PROVE  t \in OrderStates /\ (s \in TERMINAL_STATES => t = s)
BY DEF validate_transition, ALLOWED_TRANSITIONS, OrderStates, TERMINAL_STATES

\* Rows that are left alone keep the books.
LEMMA BooksKeptPreserves ==
  ASSUME StoreTypeOK, BooksInv, BooksKept
  PROVE  BooksInv'
BY DEF BooksInv, BooksKept, ReservationTracksIntent, OneActivePerSlot, UnbornIsUnfilled, StoreTypeOK

\* One row and its reservation are written: the books survive when the new
\* pair matches and the reservation is active only if it was before, or no
\* other intent of the slot is.
LEMMA PairWritten ==
  ASSUME StoreTypeOK, BooksInv, NEW a \in Actions, NEW r \in IntentRows, r.state # "none",
         intent' = [intent EXCEPT ![a] = r],
         resv' = [resv EXCEPT ![a] = reservation_of(r)],
         \/ intent[a].state \notin TERMINAL_STATES \cup {"none"}
         \/ r.state \in TERMINAL_STATES
         \/ ~ conflicting_active_intent(a)
  PROVE  BooksInv'
<1>1. intent \in [Actions -> IntentRows] /\ resv \in [Actions -> ReservationRows]
  BY DEF StoreTypeOK
<1>2. \A b \in Actions : /\ b # a => intent'[b] = intent[b] /\ resv'[b] = resv[b]
                         /\ intent'[a] = r /\ resv'[a] = reservation_of(r)
  BY <1>1
<1>3. ReservationTracksIntent'
  BY <1>2 DEF BooksInv, ReservationTracksIntent, reservation_of
<1>4. UnbornIsUnfilled'
  BY <1>2 DEF BooksInv, UnbornIsUnfilled
<1>5. \A b \in Actions : b # a /\ SlotOf[b] = SlotOf[a] /\ resv'[a].state = "active"
                            => resv[b].state # "active"
  <2>1. SUFFICES ASSUME NEW b \in Actions, b # a, SlotOf[b] = SlotOf[a], resv'[a].state = "active"
                 PROVE  resv[b].state # "active"
    OBVIOUS
  <2>2. r.state \notin TERMINAL_STATES
    BY <1>2, <2>1 DEF reservation_of, Released
  <2>3. CASE intent[a].state \notin TERMINAL_STATES \cup {"none"}
    <3>1. resv[a] = reservation_of(intent[a])
      BY DEF BooksInv, ReservationTracksIntent, reservation_of
    <3>2. QED
      BY <2>1, <2>3, <3>1 DEF BooksInv, OneActivePerSlot, reservation_of
  <2>4. CASE ~ conflicting_active_intent(a)
    <3>1. intent[b].state \notin ACTIVE_RESERVATION_STATES
      BY <2>1, <2>4 DEF conflicting_active_intent
    <3>2. intent[b].state \in TERMINAL_STATES \cup {"none"}
      BY <1>1, <3>1 DEF ACTIVE_RESERVATION_STATES, IntentRows
    <3>3. resv[b] = reservation_of(intent[b])
      BY DEF BooksInv, ReservationTracksIntent, reservation_of
    <3>4. QED
      BY <3>2, <3>3 DEF reservation_of, Released
  <2>5. QED
    BY <2>2, <2>3, <2>4
<1>6. OneActivePerSlot'
  <2>1. SUFFICES ASSUME NEW b \in Actions, NEW c \in Actions, b # c, SlotOf[b] = SlotOf[c],
                        resv'[b].state = "active", resv'[c].state = "active"
                 PROVE  FALSE
    BY DEF OneActivePerSlot
  <2>2. CASE b = a
    BY <1>2, <1>5, <2>1, <2>2
  <2>3. CASE c = a
    BY <1>2, <1>5, <2>1, <2>3
  <2>4. CASE b # a /\ c # a
    BY <1>2, <2>1, <2>4 DEF BooksInv, OneActivePerSlot
  <2>5. QED
    BY <2>2, <2>3, <2>4
<1>7. QED
  BY <1>3, <1>4, <1>6 DEF BooksInv

\* A transition releases the reservation exactly when it settles the intent.
LEMMA TransitionBooks ==
  ASSUME StoreTypeOK, BooksInv, NEW a \in Actions, NEW t \in OrderStates, transition(a, t)
  PROVE  BooksInv'
<1> DEFINE r == [intent[a] EXCEPT !.state = t]
<1>1. intent \in [Actions -> IntentRows] /\ resv \in [Actions -> ReservationRows]
  BY DEF StoreTypeOK
<1>2. /\ r \in IntentRows /\ r.state = t /\ r.filled = intent[a].filled
      /\ intent[a].state \in OrderStates \cup {"none"}
      /\ t # "none"
  BY <1>1 DEF IntentRows, OrderStates
<1>3. /\ intent' = [intent EXCEPT ![a] = r]
      /\ intent[a].state # "none" /\ validate_transition(intent[a].state, t)
      /\ resv' = IF t \in TERMINAL_STATES /\ resv[a].state = "active"
                   THEN [resv EXCEPT ![a] = Released] ELSE resv
  BY <1>1 DEF transition
<1>4. intent[a].state \in TERMINAL_STATES => t = intent[a].state
  BY <1>2, <1>3, TransitionTable
<1>5. resv[a] = reservation_of(intent[a])
  BY DEF BooksInv, ReservationTracksIntent, reservation_of
<1>6. resv' = [resv EXCEPT ![a] = reservation_of(r)]
  <2>1. CASE t \in TERMINAL_STATES /\ resv[a].state = "active"
    BY <1>2, <1>3, <2>1 DEF reservation_of
  <2>2. CASE t \in TERMINAL_STATES /\ resv[a].state # "active"
    <3>1. intent[a].state \in TERMINAL_STATES
      BY <1>3, <1>5, <2>2 DEF reservation_of
    <3>2. resv[a] = Released /\ reservation_of(r) = Released
      BY <1>2, <1>3, <1>5, <2>2, <3>1 DEF reservation_of
    <3>3. QED
      BY <1>1, <1>3, <2>2, <3>2
  <2>3. CASE t \notin TERMINAL_STATES
    <3>1. reservation_of(r) = resv[a]
      BY <1>2, <1>3, <1>4, <1>5, <2>3 DEF reservation_of
    <3>2. QED
      BY <1>1, <1>3, <2>3, <3>1
  <2>4. QED
    BY <2>1, <2>2, <2>3
<1>7. intent[a].state \notin TERMINAL_STATES \cup {"none"} \/ r.state \in TERMINAL_STATES
  BY <1>2, <1>3, <1>4
<1> HIDE DEF r
<1>8. QED
  BY <1>2, <1>3, <1>6, <1>7, PairWritten

\* A booked fill leaves reserved what has not been filled, or nothing.
LEMMA FillBooks ==
  ASSUME StoreTypeOK, BooksInv, NEW a \in Actions, NEW c \in 0..Qty, NEW s, NEW src,
         record_fill(a, c, s, src)
  PROVE  BooksInv'
<1> DEFINE t == fill_target(a, c)
           r == [intent[a] EXCEPT !.state = t, !.filled = c]
<1>1. intent \in [Actions -> IntentRows] /\ resv \in [Actions -> ReservationRows]
  BY DEF StoreTypeOK
<1>2. CASE UNCHANGED << intent, resv >>
  BY <1>2, BooksKeptPreserves DEF BooksKept
<1>3. ASSUME validate_transition(intent[a].state, t),
             intent' = [intent EXCEPT ![a].state = t, ![a].filled = c],
             resv' = [resv EXCEPT ![a] =
               IF t = "filled" \/ late_after_cancel(a, c)
                 THEN Released ELSE [state |-> "active", units |-> Qty - c]]
      PROVE  BooksInv'
  <2>1. t \in {"cancelled", "filled", "partially_filled"}
    BY DEF fill_target
  <2>2. /\ r \in IntentRows /\ r.state = t /\ r.filled = c
        /\ intent[a].state \in OrderStates \cup {"none"} /\ intent[a].state # "none"
    BY <1>1, <2>1, ZenonT(60) DEF IntentRows, OrderStates, record_fill
  <2>3. intent' = [intent EXCEPT ![a] = r]
    BY <1>1, <1>3
  <2>4. t = "cancelled" <=> late_after_cancel(a, c)
    BY DEF fill_target
  <2>5. resv' = [resv EXCEPT ![a] = reservation_of(r)]
    <3>1. reservation_of(r) = IF t = "filled" \/ late_after_cancel(a, c)
                 THEN Released ELSE [state |-> "active", units |-> Qty - c]
      BY <2>1, <2>2, <2>4 DEF reservation_of, TERMINAL_STATES
    <3>2. QED
      BY <1>3, <3>1
  <2>6. intent[a].state \notin TERMINAL_STATES \cup {"none"} \/ r.state \in TERMINAL_STATES
    BY <1>3, <2>2, TransitionTable
  <2> HIDE DEF r, t
  <2>7. r.state # "none"
    BY <2>1, <2>2
  <2>8. QED
    BY <2>2, <2>3, <2>5, <2>6, <2>7, PairWritten
<1>4. QED
  BY <1>2, <1>3 DEF record_fill

\* create_or_get_intent reserves the whole quantity, after it has checked in
\* the same transaction that no other intent of the slot is active.
LEMMA CreationBooks ==
  ASSUME StoreTypeOK, BooksInv, NEW p \in Procs, NEW a \in Actions, create_intent(p, a)
  PROVE  BooksInv'
<1> DEFINE n == Cardinality(existing_intents) + 1
           r == [intent[a] EXCEPT !.state = "reserved", !.bound = p, !.born = n]
<1>1. intent \in [Actions -> IntentRows] /\ resv \in [Actions -> ReservationRows]
  BY DEF StoreTypeOK
<1>2. intent' = [intent EXCEPT ![a] = r]
  BY <1>1 DEF create_intent
<1>3. intent[a].filled = 0 /\ intent[a].state = "none"
  BY DEF create_intent, BooksInv, UnbornIsUnfilled
<1>4. intent' \in [Actions -> IntentRows]
  BY CreateIntentTypes DEF StoreTypeOK
<1>5. r \in IntentRows /\ r.state = "reserved" /\ r.filled = 0
  BY <1>1, <1>2, <1>3, <1>4 DEF IntentRows
<1>6. resv' = [resv EXCEPT ![a] = reservation_of(r)]
  <2>1. reservation_of(r) = [state |-> "active", units |-> Qty]
    BY <1>5, QtyAssumption DEF reservation_of, TERMINAL_STATES
  <2>2. QED
    BY <2>1 DEF create_intent
<1>7. ~ conflicting_active_intent(a)
  BY DEF create_intent
<1> HIDE DEF r
<1>8. QED
  BY <1>2, <1>5, <1>6, <1>7, PairWritten

\* Initially there is no row.
LEMMA BooksInit == Init => BooksInv
BY DEF Init, StoreInit, BooksInv, ReservationTracksIntent, OneActivePerSlot, UnbornIsUnfilled

\* Every step keeps the books.
LEMMA BooksNext == IInv /\ BooksInv /\ [Next]_allVars => BooksInv'
<1> SUFFICES ASSUME IInv, BooksInv, [Next]_allVars PROVE BooksInv'
  OBVIOUS
<1>1. TypeOK /\ Located /\ StoreTypeOK
  BY DEF IInv, TypeOK
<1>2. BooksMove
  BY <1>1, NextBooks
<1>3. CASE BooksKept
  BY <1>1, <1>3, BooksKeptPreserves
<1>4. CASE Transition
  BY <1>1, <1>4, TransitionBooks DEF Transition
<1>5. CASE Booking
  <2>1. \A p \in Procs : proc[p].obs.filled \in 0..Qty
    BY <1>1 DEF TypeOK, ProcTypeOK, ProcRows, Answers
  <2> QED
    BY <1>1, <1>5, <2>1, FillBooks DEF Booking
<1>6. CASE Creation
  BY <1>1, <1>6, CreationBooks DEF Creation
<1>7. QED
  BY <1>2, <1>3, <1>4, <1>5, <1>6 DEF BooksMove

\* The books hold in every behaviour.
LEMMA BooksHold == Spec => []BooksInv
BY BooksInit, BooksNext, IInvHolds, PTL DEF Spec

\* Capital is reserved for exactly what an open intent has not yet been
\* filled for, and for nothing else: DurableExecutionStore writes an intent
\* and its reservation in one transaction, and no other code writes either.
THEOREM CapitalFollowsIntent == Spec => []ReservationTracksIntent
<1>1. BooksInv => ReservationTracksIntent
  BY DEF BooksInv
<1> QED
  BY <1>1, BooksHold, PTL

\* However many processes approve orders for one symbol and side, at most one
\* of them holds capital: the conflict query of create_or_get_intent and the
\* insert are one transaction, and no later event makes a released
\* reservation active again.
THEOREM SlotIsExclusive == Spec => []OneActivePerSlot
<1>1. BooksInv => OneActivePerSlot
  BY DEF BooksInv
<1> QED
  BY <1>1, BooksHold, PTL

\* What was booked is never taken back, in whatever order processes apply
\* what they saw at the broker: record_fill skips a lower cumulative
\* quantity, and nothing else writes the column.
THEOREM BookedNeverShrinks == Spec => BookedOnlyGrows
<1>1. ASSUME IInv, [Next]_allVars
      PROVE  \A a \in Actions : intent'[a].filled >= intent[a].filled
  <2>1. TypeOK /\ Located /\ StoreTypeOK
    BY <1>1 DEF IInv, TypeOK
  <2>2. intent \in [Actions -> IntentRows] /\ (\A a \in Actions : intent[a].filled \in Nat)
    BY <2>1, QtyAssumption DEF StoreTypeOK, IntentRows
  <2>3. BooksMove
    BY <1>1, <2>1, NextBooks
  <2>4. CASE BooksKept
    BY <2>2, <2>4 DEF BooksKept
  <2>5. CASE Transition
    BY <2>2, <2>5 DEF Transition, transition, IntentRows
  <2>6. CASE Booking
    <3>1. PICK p \in Procs, a \in Actions, src \in EvidenceSources :
            record_fill(a, proc[p].obs.filled, proc[p].obs.status, src)
      BY <2>6 DEF Booking
    <3>2. proc[p].obs.filled \in Nat
      BY <2>1, QtyAssumption DEF TypeOK, ProcTypeOK, ProcRows, Answers
    <3> QED
      BY <2>2, <3>1, <3>2 DEF record_fill, IntentRows
  <2>7. CASE Creation
    BY <2>2, <2>7 DEF Creation, create_intent, IntentRows
  <2>8. QED
    BY <2>3, <2>4, <2>5, <2>6, <2>7 DEF BooksMove
<1>2. QED
  BY <1>1, IInvHolds, PTL DEF Spec, BookedOnlyGrows

(***************************************************************************)
(* One process.  Whoever executes or recovers has an action in hand.       *)
(***************************************************************************)

\* Executor.execute makes and moves the intent of the action it works on.
LEMMA ExecuteWorks ==
  ASSUME TypeOK, Located, NEW p \in Procs, ExecuteStep(p)
  PROVE  Act(p) \in Actions
<1>1. proc[p].pc \notin {"idle"} \cup PassPCs
  BY DEF ExecuteStep, LoadAuthority, BrokerMissing, PersistValidation, CreateIntent, GetIntent,
      IntentRefused, MarkPending, StartSubmission, StartWorkflow, VerifySnapshot, ReadBack,
      MarkInvocation, RejectBeforeBroker, CloseRejectedWorkflow, CallBroker, AdapterRefuses,
      BrokerAnswers, AnswerLost, BookResponse, BookIncompleteFill, LocalUpdateFails, MarkUnknown,
      Acknowledge, ClearMark, RejectRefused, ExecuteRaises, RaisingPCs, At, PassPCs
<1> QED
  BY <1>1, Working

\* Recovery works on the action it claimed.
LEMMA RecoveryWorks ==
  ASSUME TypeOK, Located, NEW p \in Procs, RecoveryStep(p)
  PROVE  Act(p) \in Actions
<1>1. proc[p].pc \notin {"idle"} \cup PassPCs
  BY DEF RecoveryStep, ReadIntent, LinkExisting, ProveUnsent, Repend, ResumeValidation,
      unvalidated, AdvanceValidation, DeclineIntent, pending_intent, EnsureIntent,
      EnsureIntentRaises, MarkLinked, ResumeLinked, Reconstruct, SuppressSubmission,
      pending_submission, ExpireSubmission, CloseExpired, DeferSubmission, ResumeSubmission,
      RunSubmitter, RecoverReturned, CallbackFailed, ClassifyFailure, RecordOutcome, LookupOnly,
      lookup_only, LookupUnavailable, ConcludeLookup, Release, At, PassPCs
<1> QED
  BY <1>1, Working

(***************************************************************************)
(* Where a step takes the process that makes it.                           *)
(***************************************************************************)

\* The process is at one of the labels with the work it had, or has stopped.
Onto(p, L) ==
  \/ proc'[p].pc = "idle"
  \/ /\ proc'[p].pc \in L
     /\ proc'[p].act = proc[p].act
     /\ proc'[p].kind = proc[p].kind

\* A jump changes the label only.
LEMMA GotoLocals ==
  ASSUME ProcTypeOK, NEW p \in Procs, NEW l, Goto(p, l)
  PROVE  /\ proc'[p].pc = l
         /\ proc'[p].act = proc[p].act
         /\ proc'[p].kind = proc[p].kind
         /\ proc'[p].cur = proc[p].cur
         /\ proc'[p].rows = proc[p].rows
         /\ proc'[p].obs = proc[p].obs
         /\ proc'[p].res = proc[p].res
BY DEF Goto, ProcTypeOK, ProcRows

\* Return is such a step.
LEMMA ReturnLocals ==
  ASSUME ProcTypeOK, NEW p \in Procs, NEW x, Return(p, x)
  PROVE  Onto(p, {"returned"}) /\ proc'[p].res = x
BY DEF Return, Onto, ProcTypeOK, ProcRows

\* A process that finishes is idle.
LEMMA FinishLocals ==
  ASSUME ProcTypeOK, NEW p \in Procs, Finish(p)
  PROVE  proc'[p].pc = "idle"
BY DEF Finish, ProcTypeOK, IdleProc

\* The live caller.
LEMMA LiveLocals ==
  ASSUME TypeOK, NEW p \in Procs
  PROVE  /\ \A a \in Actions : AcceptApproval(p, a) =>
              proc'[p].pc = "accepted" /\ proc'[p].act = a
         /\ BeginValidation(p) => Onto(p, {"consuming"})
         /\ RefuseApproval(p) => Onto(p, {})
         /\ ConsumeApproval(p) => Onto(p, {"revalidating"})
         /\ FinalRevalidation(p) => Onto(p, {"authority", "returned"})
         /\ SettleWorkflow(p) => Onto(p, {"closing"})
         /\ CloseProposal(p) => Onto(p, {})
<1>1. ProcTypeOK
  BY DEF TypeOK
<1>2. \A a \in Actions : AcceptApproval(p, a) =>
        proc'[p].pc = "accepted" /\ proc'[p].act = a
  BY <1>1 DEF AcceptApproval, ProcTypeOK, ProcRows
<1>3. BeginValidation(p) => Onto(p, {"consuming"})
  BY <1>1, GotoLocals, FinishLocals DEF BeginValidation, Onto
<1>4. RefuseApproval(p) => Onto(p, {})
  BY <1>1, FinishLocals DEF RefuseApproval, Onto
<1>5. ConsumeApproval(p) => Onto(p, {"revalidating"})
  BY <1>1, GotoLocals DEF ConsumeApproval, Onto
<1>6. FinalRevalidation(p) => Onto(p, {"authority", "returned"})
  BY <1>1, GotoLocals, ReturnLocals DEF FinalRevalidation, Onto
<1>7. SettleWorkflow(p) => Onto(p, {"closing"})
  BY <1>1, GotoLocals DEF SettleWorkflow, Onto
<1>8. CloseProposal(p) => Onto(p, {})
  BY <1>1, FinishLocals DEF CloseProposal, Onto
<1> QED
  BY <1>2, <1>3, <1>4, <1>5, <1>6, <1>7, <1>8

\* Executor.execute.
LEMMA ExecuteLocals ==
  ASSUME TypeOK, NEW p \in Procs, Act(p) \in Actions
  PROVE  /\ LoadAuthority(p) => Onto(p, {"persist", "returned"})
         /\ BrokerMissing(p) => Onto(p, {"returned"})
         /\ PersistValidation(p) => Onto(p, {"create", "returned"})
         /\ CreateIntent(p) => Onto(p, {"pending"})
         /\ GetIntent(p) => Onto(p, {"pending", "returned"})
         /\ IntentRefused(p) => Onto(p, {"returned"})
         /\ MarkPending(p) => Onto(p, {"submitting"})
         /\ StartSubmission(p) => Onto(p, {"starting", "returned"})
         /\ StartWorkflow(p) => Onto(p, {"verify"})
         /\ VerifySnapshot(p) => Onto(p, {"reread", "rejecting"})
         /\ ReadBack(p) => Onto(p, {"mark", "rejecting"})
         /\ MarkInvocation(p) => Onto(p, {"marked", "rejecting"})
         /\ RejectBeforeBroker(p) => Onto(p, {"rejectWorkflow"})
         /\ CloseRejectedWorkflow(p) => Onto(p, {"returned"})
         /\ CallBroker(p) => Onto(p, {"waiting"})
         /\ AdapterRefuses(p) => Onto(p, {"refused"})
         /\ BrokerAnswers(p) =>
              Onto(p, {"answered"}) /\ proc'[p].obs = remote_view(Act(p))
         /\ AnswerLost(p) => Onto(p, {"ambiguous"})
         /\ BookResponse(p) =>
              Onto(p, {"acknowledge"}) /\ proc'[p].res = "submitted"
         /\ BookIncompleteFill(p) =>
              Onto(p, {"acknowledge"}) /\ proc'[p].res = "unknown"
         /\ LocalUpdateFails(p) => Onto(p, {"ambiguous"})
         /\ MarkUnknown(p) =>
              Onto(p, {"acknowledge"}) /\ proc'[p].res = "unknown"
         /\ Acknowledge(p) => Onto(p, {"returned"}) /\ proc'[p].res = proc[p].res
         /\ ClearMark(p) => Onto(p, {"refusing"})
         /\ RejectRefused(p) => Onto(p, {"rejectWorkflow"})
         /\ ExecuteRaises(p) => Onto(p, {"failed"})
<1>1. ProcTypeOK
  BY DEF TypeOK
<1>2. LoadAuthority(p) => Onto(p, {"persist", "returned"})
  BY <1>1, ReturnLocals DEF LoadAuthority, Onto, ProcTypeOK, ProcRows
<1>3. BrokerMissing(p) => Onto(p, {"returned"})
  BY <1>1, ReturnLocals DEF BrokerMissing
<1>4. PersistValidation(p) => Onto(p, {"create", "returned"})
  BY <1>1, GotoLocals, ReturnLocals DEF PersistValidation, Onto
<1>5. CreateIntent(p) => Onto(p, {"pending"})
  BY <1>1 DEF CreateIntent, Onto, ProcTypeOK, ProcRows
<1>6. GetIntent(p) => Onto(p, {"pending", "returned"})
  BY <1>1, ReturnLocals DEF GetIntent, Onto, ProcTypeOK, ProcRows
<1>7. IntentRefused(p) => Onto(p, {"returned"})
  BY <1>1, ReturnLocals DEF IntentRefused
<1>8. MarkPending(p) => Onto(p, {"submitting"})
  BY <1>1, GotoLocals DEF MarkPending, Onto
<1>9. StartSubmission(p) => Onto(p, {"starting", "returned"})
  BY <1>1, GotoLocals, ReturnLocals DEF StartSubmission, Onto
<1>10. StartWorkflow(p) => Onto(p, {"verify"})
  BY <1>1, GotoLocals DEF StartWorkflow, Onto
<1>11. VerifySnapshot(p) => Onto(p, {"reread", "rejecting"})
  BY <1>1, GotoLocals DEF VerifySnapshot, Onto
<1>12. ReadBack(p) => Onto(p, {"mark", "rejecting"})
  <2>1. ASSUME NEW b, proc' = [proc EXCEPT ![p].pc = "mark", ![p].bound = b]
        PROVE  Onto(p, {"mark"})
    BY <1>1, <2>1 DEF Onto, ProcTypeOK, ProcRows
  <2> QED
    BY <1>1, <2>1, GotoLocals DEF ReadBack, Onto
<1>13. MarkInvocation(p) => Onto(p, {"marked", "rejecting"})
  BY <1>1, GotoLocals DEF MarkInvocation, Onto
<1>14. RejectBeforeBroker(p) => Onto(p, {"rejectWorkflow"})
  BY <1>1, GotoLocals DEF RejectBeforeBroker, Onto
<1>15. CloseRejectedWorkflow(p) => Onto(p, {"returned"})
  BY <1>1, ReturnLocals DEF CloseRejectedWorkflow
<1>16. CallBroker(p) => Onto(p, {"waiting"})
  BY <1>1, GotoLocals DEF CallBroker, Onto
<1>17. AdapterRefuses(p) => Onto(p, {"refused"})
  BY <1>1, GotoLocals DEF AdapterRefuses, Onto
<1>18. BrokerAnswers(p) =>
         Onto(p, {"answered"}) /\ proc'[p].obs = remote_view(Act(p))
  <2>1. ASSUME NEW o, proc' = [proc EXCEPT ![p].pc = "answered", ![p].obs = o]
        PROVE  Onto(p, {"answered"}) /\ proc'[p].obs = o
    BY <1>1, <2>1 DEF Onto, ProcTypeOK, ProcRows
  <2> QED
    BY <2>1 DEF BrokerAnswers
<1>19. AnswerLost(p) => Onto(p, {"ambiguous"})
  BY <1>1, GotoLocals DEF AnswerLost, Onto
<1>20. BookResponse(p) =>
         Onto(p, {"acknowledge"}) /\ proc'[p].res = "submitted"
  BY <1>1 DEF BookResponse, Onto, ProcTypeOK, ProcRows
<1>21. BookIncompleteFill(p) =>
         Onto(p, {"acknowledge"}) /\ proc'[p].res = "unknown"
  BY <1>1 DEF BookIncompleteFill, Onto, ProcTypeOK, ProcRows
<1>22. LocalUpdateFails(p) => Onto(p, {"ambiguous"})
  BY <1>1, GotoLocals DEF LocalUpdateFails, Onto
<1>23. MarkUnknown(p) =>
         Onto(p, {"acknowledge"}) /\ proc'[p].res = "unknown"
  BY <1>1 DEF MarkUnknown, Onto, ProcTypeOK, ProcRows
<1>24. Acknowledge(p) => Onto(p, {"returned"}) /\ proc'[p].res = proc[p].res
  BY <1>1, GotoLocals DEF Acknowledge, Onto
<1>25. ClearMark(p) => Onto(p, {"refusing"})
  BY <1>1, GotoLocals DEF ClearMark, Onto
<1>26. RejectRefused(p) => Onto(p, {"rejectWorkflow"})
  BY <1>1, GotoLocals DEF RejectRefused, Onto
<1>27. ExecuteRaises(p) => Onto(p, {"failed"})
  BY <1>1, GotoLocals, FinishLocals DEF ExecuteRaises, Onto
<1> QED
  BY <1>2, <1>3, <1>4, <1>5, <1>6, <1>7, <1>8, <1>9, <1>10, <1>11, <1>12,
     <1>13, <1>14, <1>15, <1>16, <1>17, <1>18, <1>19, <1>20, <1>21, <1>22,
     <1>23, <1>24, <1>25, <1>26, <1>27

\* A pass that is done with one intent, begins, or ends with an exception.
LEMMA PassLabels ==
  ASSUME ProcTypeOK, NEW p \in Procs
  PROVE  /\ \A a \in Actions : next_intent(p, a) => Onto(p, {"pass"})
         /\ \A k : begin_pass(p, k) => proc'[p].pc = "pass"
         /\ \A e : pass_raises(p, e) => Onto(p, {"release"})
<1>1. ASSUME NEW a \in Actions, next_intent(p, a) PROVE Onto(p, {"pass"})
  BY <1>1 DEF next_intent, Onto, ProcTypeOK, ProcRows
<1>2. ASSUME NEW k, begin_pass(p, k) PROVE proc'[p].pc = "pass"
  BY <1>2 DEF begin_pass, ProcTypeOK, ProcRows
<1>3. ASSUME NEW e, pass_raises(p, e) PROVE Onto(p, {"release"})
  BY <1>3, FinishLocals DEF pass_raises, Onto, ProcTypeOK, ProcRows
<1> QED
  BY <1>1, <1>2, <1>3

\* BrokerReconciler.reconcile.
LEMMA PassLocals ==
  ASSUME TypeOK, Located, NEW p \in Procs
  PROVE  /\ EndPass(p) => Onto(p, {"looked"})
         /\ \A a \in Actions : LookupFails(p, a) => Onto(p, {"pass"})
         /\ \A a \in Actions : LookupAnswers(p, a) =>
              /\ proc'[p].pc = IF remote_view(a).status = "missing"
                                 THEN "absence" ELSE "found"
              /\ proc'[p].act = proc[p].act
              /\ proc'[p].cur = a
              /\ proc'[p].obs = remote_view(a)
         /\ RecordAbsence(p) =>
              Onto(p, {"absenceMove"}) /\ proc'[p].cur = proc[p].cur
         /\ ConcludeAbsence(p) => Onto(p, {"pass"})
         /\ AbsenceRaises(p) => Onto(p, {"release"})
         /\ RecordFound(p) => /\ Onto(p, {"apply"})
                              /\ proc'[p].cur = proc[p].cur
                              /\ proc'[p].obs = proc[p].obs
         /\ ApplyFill(p) => Onto(p, {"pass"})
         /\ ApplyFillRaises(p) => Onto(p, {"release"})
         /\ RequireEvidence(p) => Onto(p, {"pass"})
         /\ ApplyStatus(p) => Onto(p, {"pass"})
         /\ ApplyStatusRaises(p) => Onto(p, {"release"})
<1>1. ProcTypeOK
  BY DEF TypeOK
<1>2. \A l : At(p, l) /\ l \in PassPCs \ {"pass"} => Cur(p) \in Actions
  BY Reconciling DEF At
<1>3. EndPass(p) => Onto(p, {"looked"})
  BY <1>1, GotoLocals, FinishLocals DEF EndPass, Onto
<1>4. \A a \in Actions : LookupFails(p, a) => Onto(p, {"pass"})
  BY <1>1, PassLabels DEF LookupFails
<1>5. ASSUME NEW a \in Actions, LookupAnswers(p, a)
      PROVE  /\ proc'[p].pc = IF remote_view(a).status = "missing"
                                THEN "absence" ELSE "found"
             /\ proc'[p].act = proc[p].act
             /\ proc'[p].cur = a
             /\ proc'[p].obs = remote_view(a)
  <2>1. ASSUME NEW o, NEW l,
               proc' = [proc EXCEPT ![p].cur = a, ![p].obs = o, ![p].pc = l]
        PROVE  /\ proc'[p].pc = l /\ proc'[p].act = proc[p].act
               /\ proc'[p].cur = a /\ proc'[p].obs = o
    BY <1>1, <2>1 DEF ProcTypeOK, ProcRows
  <2> QED
    BY <1>5, <2>1 DEF LookupAnswers
<1>6. RecordAbsence(p) =>
        Onto(p, {"absenceMove"}) /\ proc'[p].cur = proc[p].cur
  BY <1>1, GotoLocals DEF RecordAbsence, Onto
<1>7. ConcludeAbsence(p) => Onto(p, {"pass"})
  BY <1>1, <1>2, PassLabels DEF ConcludeAbsence, PassPCs
<1>8. AbsenceRaises(p) => Onto(p, {"release"})
  BY <1>1, PassLabels DEF AbsenceRaises
<1>9. RecordFound(p) => /\ Onto(p, {"apply"})
                        /\ proc'[p].cur = proc[p].cur
                        /\ proc'[p].obs = proc[p].obs
  BY <1>1, GotoLocals DEF RecordFound, Onto
<1>10. ApplyFill(p) => Onto(p, {"pass"})
  BY <1>1, <1>2, PassLabels DEF ApplyFill, PassPCs
<1>11. ApplyFillRaises(p) => Onto(p, {"release"})
  BY <1>1, PassLabels DEF ApplyFillRaises
<1>12. RequireEvidence(p) => Onto(p, {"pass"})
  BY <1>1, <1>2, PassLabels DEF RequireEvidence, PassPCs
<1>13. ApplyStatus(p) => Onto(p, {"pass"})
  BY <1>1, <1>2, PassLabels DEF ApplyStatus, PassPCs
<1>14. ApplyStatusRaises(p) => Onto(p, {"release"})
  BY <1>1, PassLabels DEF ApplyStatusRaises
<1> QED
  BY <1>3, <1>4, <1>5, <1>6, <1>7, <1>8, <1>9, <1>10, <1>11, <1>12, <1>13,
     <1>14

\* A workflow transition under the claim, and an intent transition that may
\* find the row moved.
LEMMA MoveLocals ==
  ASSUME ProcTypeOK, NEW p \in Procs
  PROVE  /\ \A t, l : owned_move(p, t, l) =>
              /\ Onto(p, {l, "release"})
              /\ proc'[p].rows = proc[p].rows
         /\ \A s, t, l : expected_or_abandon(p, s, t, l) => Onto(p, {l})
<1>1. ASSUME NEW t, NEW l, owned_move(p, t, l)
      PROVE  Onto(p, {l, "release"}) /\ proc'[p].rows = proc[p].rows
  BY <1>1, GotoLocals DEF owned_move, Onto
<1>2. ASSUME NEW s, NEW t, NEW l, expected_or_abandon(p, s, t, l)
      PROVE  Onto(p, {l})
  BY <1>2, GotoLocals, FinishLocals DEF expected_or_abandon, Abandon, Onto
<1> QED
  BY <1>1, <1>2

\* ApprovalWorkflowStore.recover.
LEMMA RecoveryLocals ==
  ASSUME TypeOK, NEW p \in Procs, Act(p) \in Actions
  PROVE  /\ ReadIntent(p) =>
              Onto(p, {"examined"}) /\ proc'[p].rows[Act(p)] = row_of(Act(p))
         /\ LinkExisting(p) =>
              Onto(p, {"examined", "release"}) /\ proc'[p].rows = proc[p].rows
         /\ ProveUnsent(p) => Onto(p, {"repend"})
         /\ Repend(p) => Onto(p, {"claimed", "release"})
         /\ ResumeValidation(p) =>
              Onto(p, {"advance", "release"}) /\ proc'[p].rows = proc[p].rows
         /\ AdvanceValidation(p) =>
              /\ Onto(p, {"examined", "advance", "release"})
              /\ proc'[p].rows = proc[p].rows
         /\ DeclineIntent(p) => Onto(p, {"release"})
         /\ EnsureIntent(p) => Onto(p, {"linked"})
         /\ EnsureIntentRaises(p) => Onto(p, {"release"})
         /\ MarkLinked(p) => Onto(p, {"release"})
         /\ ResumeLinked(p) =>
              /\ Onto(p, {"linked", "reconstruct", "release"})
              /\ proc'[p].pc = "reconstruct" => proc'[p].rows = proc[p].rows
         /\ Reconstruct(p) => Onto(p, {"release"})
         /\ SuppressSubmission(p) => Onto(p, {"release"})
         /\ ExpireSubmission(p) => Onto(p, {"expire"})
         /\ CloseExpired(p) => Onto(p, {"release"})
         /\ DeferSubmission(p) => Onto(p, {"release"})
         /\ ResumeSubmission(p) => Onto(p, {"submitter", "release"})
         /\ RunSubmitter(p) =>
              /\ Onto(p, {"authority", "returned", "outcome", "failed"})
              /\ proc'[p].pc = "outcome" => proc'[p].res = "retry"
         /\ RecoverReturned(p) =>
              Onto(p, {"outcome", "failed"}) /\ proc'[p].res = proc[p].res
         /\ CallbackFailed(p) =>
              Onto(p, {"failedMove"}) /\ proc'[p].rows[Act(p)] = row_of(Act(p))
         /\ ClassifyFailure(p) =>
              /\ Onto(p, {"outcome"})
              /\ proc'[p].pc = "outcome" => proc'[p].res \in {"unknown", "retry"}
         /\ RecordOutcome(p) => Onto(p, {"release"})
         /\ LookupOnly(p) => proc'[p].pc = "pass"
         /\ LookupUnavailable(p) => Onto(p, {"release"})
         /\ ConcludeLookup(p) => Onto(p, {"release"})
         /\ Release(p) => Onto(p, {})
<1>1. ProcTypeOK
  BY DEF TypeOK
<1>2. ReadIntent(p) =>
        Onto(p, {"examined"}) /\ proc'[p].rows[Act(p)] = row_of(Act(p))
  BY <1>1 DEF ReadIntent, Onto, ProcTypeOK, ProcRows
<1>3. LinkExisting(p) =>
        Onto(p, {"examined", "release"}) /\ proc'[p].rows = proc[p].rows
  BY <1>1, GotoLocals DEF LinkExisting, At, Onto, ProcTypeOK, ProcRows
<1>4. ProveUnsent(p) => Onto(p, {"repend"})
  BY <1>1, GotoLocals, MoveLocals DEF ProveUnsent, Onto
<1>5. Repend(p) => Onto(p, {"claimed", "release"})
  BY <1>1, GotoLocals DEF Repend, Onto, ProcTypeOK, ProcRows
<1>6. ResumeValidation(p) =>
        Onto(p, {"advance", "release"}) /\ proc'[p].rows = proc[p].rows
  BY <1>1, GotoLocals, MoveLocals DEF ResumeValidation, Onto
<1>7. AdvanceValidation(p) =>
        /\ Onto(p, {"examined", "advance", "release"})
        /\ proc'[p].rows = proc[p].rows
  BY <1>1, GotoLocals DEF AdvanceValidation, Onto, ProcTypeOK, ProcRows
<1>8. DeclineIntent(p) => Onto(p, {"release"})
  BY <1>1, GotoLocals, MoveLocals DEF DeclineIntent, Onto
<1>9. EnsureIntent(p) => Onto(p, {"linked"})
  BY <1>1, GotoLocals DEF EnsureIntent, Onto
<1>10. EnsureIntentRaises(p) => Onto(p, {"release"})
  BY <1>1, GotoLocals, FinishLocals DEF EnsureIntentRaises, Abandon, Onto
<1>11. MarkLinked(p) => Onto(p, {"release"})
  BY <1>1, MoveLocals DEF MarkLinked, Onto
<1>12. ResumeLinked(p) =>
         /\ Onto(p, {"linked", "reconstruct", "release"})
         /\ proc'[p].pc = "reconstruct" => proc'[p].rows = proc[p].rows
  BY <1>1, MoveLocals DEF ResumeLinked, Onto
<1>13. Reconstruct(p) => Onto(p, {"release"})
  BY <1>1, MoveLocals DEF Reconstruct, Onto
<1>14. SuppressSubmission(p) => Onto(p, {"release"})
  BY <1>1, MoveLocals DEF SuppressSubmission, Onto
<1>15. ExpireSubmission(p) => Onto(p, {"expire"})
  BY <1>1, MoveLocals DEF ExpireSubmission
<1>16. CloseExpired(p) => Onto(p, {"release"})
  BY <1>1, MoveLocals DEF CloseExpired, Onto
<1>17. DeferSubmission(p) => Onto(p, {"release"})
  BY <1>1, GotoLocals, MoveLocals DEF DeferSubmission, Onto
<1>18. ResumeSubmission(p) => Onto(p, {"submitter", "release"})
  BY <1>1, MoveLocals DEF ResumeSubmission
<1>19. RunSubmitter(p) =>
         /\ Onto(p, {"authority", "returned", "outcome", "failed"})
         /\ proc'[p].pc = "outcome" => proc'[p].res = "retry"
  <2>1. ASSUME proc' = [proc EXCEPT ![p].pc = "outcome", ![p].res = "retry"]
        PROVE  Onto(p, {"outcome"}) /\ proc'[p].res = "retry"
    BY <1>1, <2>1 DEF Onto, ProcTypeOK, ProcRows
  <2> QED
    BY <1>1, <2>1, GotoLocals, ReturnLocals DEF RunSubmitter, Onto
<1>20. RecoverReturned(p) =>
         Onto(p, {"outcome", "failed"}) /\ proc'[p].res = proc[p].res
  BY <1>1, GotoLocals DEF RecoverReturned, Onto
<1>21. CallbackFailed(p) =>
         Onto(p, {"failedMove"}) /\ proc'[p].rows[Act(p)] = row_of(Act(p))
  BY <1>1 DEF CallbackFailed, Onto, ProcTypeOK, ProcRows
<1>22. ClassifyFailure(p) =>
         /\ Onto(p, {"outcome"})
         /\ proc'[p].pc = "outcome" => proc'[p].res \in {"unknown", "retry"}
  <2>1. ASSUME NEW x, FailedOutcome(p, x)
        PROVE  Onto(p, {"outcome"}) /\ proc'[p].res = x
    BY <1>1, <2>1 DEF FailedOutcome, Onto, ProcTypeOK, ProcRows
  <2> QED
    BY <1>1, <2>1, FinishLocals DEF ClassifyFailure, Abandon, Onto
<1>23. RecordOutcome(p) => Onto(p, {"release"})
  BY <1>1, MoveLocals DEF RecordOutcome, Onto
<1>24. LookupOnly(p) => proc'[p].pc = "pass"
  BY <1>1, PassLabels DEF LookupOnly
<1>25. LookupUnavailable(p) => Onto(p, {"release"})
  BY <1>1, GotoLocals, MoveLocals DEF LookupUnavailable, conclude, Onto
<1>26. ConcludeLookup(p) => Onto(p, {"release"})
  BY <1>1, GotoLocals, MoveLocals DEF ConcludeLookup, conclude, Onto
<1>27. Release(p) => Onto(p, {})
  BY <1>1, FinishLocals DEF Release, Onto
<1> QED
  BY <1>2, <1>3, <1>4, <1>5, <1>6, <1>7, <1>8, <1>9, <1>10, <1>11, <1>12,
     <1>13, <1>14, <1>15, <1>16, <1>17, <1>18, <1>19, <1>20, <1>21, <1>22,
     <1>23, <1>24, <1>25, <1>26, <1>27

\* The other processes are left alone.
LEMMA OthersKept ==
  ASSUME TypeOK, NEW p \in Procs, ProcStep(p) \/ Crash(p), NEW q \in Procs, q # p
  PROVE  proc'[q] = proc[q]
<1>1. \A l : Goto(p, l) => proc'[q] = proc[q]
  BY DEF Goto, TypeOK, ProcTypeOK
<1>2. Finish(p) => proc'[q] = proc[q]
  BY DEF Finish, TypeOK, ProcTypeOK
<1>3. \A x : Return(p, x) => proc'[q] = proc[q]
  BY DEF Return, TypeOK, ProcTypeOK
<1>4. \A a : next_intent(p, a) => proc'[q] = proc[q]
  BY DEF next_intent, TypeOK, ProcTypeOK
<1>5. \A k : begin_pass(p, k) => proc'[q] = proc[q]
  BY DEF begin_pass, TypeOK, ProcTypeOK
<1>6. \A e : pass_raises(p, e) => proc'[q] = proc[q]
  BY <1>2 DEF pass_raises, TypeOK, ProcTypeOK
<1>7. \A t, l : owned_move(p, t, l) => proc'[q] = proc[q]
  BY <1>1 DEF owned_move
<1>8. \A s, t, l : expected_or_abandon(p, s, t, l) => proc'[q] = proc[q]
  BY <1>1, <1>2 DEF expected_or_abandon, Abandon
<1>9. ASSUME LiveStep(p) PROVE proc'[q] = proc[q]
  BY <1>1, <1>2, <1>3, <1>9
  DEF LiveStep, AcceptApproval, BeginValidation, RefuseApproval, ConsumeApproval,
      FinalRevalidation, SettleWorkflow, CloseProposal, TypeOK, ProcTypeOK
<1>10. ASSUME ExecuteStep(p) PROVE proc'[q] = proc[q]
  <2>1. CASE \/ LoadAuthority(p) \/ CreateIntent(p) \/ GetIntent(p) \/ ReadBack(p)
             \/ BrokerAnswers(p) \/ BookResponse(p) \/ BookIncompleteFill(p)
             \/ MarkUnknown(p)
    BY <1>1, <1>3, <2>1
    DEF LoadAuthority, CreateIntent, GetIntent, ReadBack, BrokerAnswers, BookResponse,
        BookIncompleteFill, MarkUnknown, TypeOK, ProcTypeOK
  <2> QED
    BY <1>1, <1>2, <1>3, <1>10, <2>1
    DEF ExecuteStep, BrokerMissing, PersistValidation, IntentRefused, MarkPending,
        StartSubmission, StartWorkflow, VerifySnapshot, MarkInvocation, RejectBeforeBroker,
        CloseRejectedWorkflow, CallBroker, AdapterRefuses, AnswerLost, LocalUpdateFails,
        Acknowledge, ClearMark, RejectRefused, ExecuteRaises
<1>11. ASSUME PassStep(p) PROVE proc'[q] = proc[q]
  <2>1. CASE \E a \in Actions : LookupAnswers(p, a)
    BY <2>1 DEF LookupAnswers, TypeOK, ProcTypeOK
  <2> QED
    BY <1>1, <1>2, <1>4, <1>6, <1>11, <2>1
    DEF PassStep, EndPass, LookupFails, RecordAbsence, ConcludeAbsence, AbsenceRaises,
        RecordFound, ApplyFill, ApplyFillRaises, RequireEvidence, ApplyStatus, ApplyStatusRaises
<1>12. ASSUME RecoveryStep(p) PROVE proc'[q] = proc[q]
  <2>1. CASE \/ ReadIntent(p) \/ LinkExisting(p) \/ Repend(p) \/ AdvanceValidation(p)
             \/ RunSubmitter(p) \/ CallbackFailed(p) \/ ClassifyFailure(p)
    BY <1>1, <1>2, <1>3, <2>1
    DEF ReadIntent, LinkExisting, Repend, AdvanceValidation, RunSubmitter, CallbackFailed,
        ClassifyFailure, FailedOutcome, Abandon, TypeOK, ProcTypeOK
  <2> QED
    BY <1>1, <1>2, <1>5, <1>7, <1>8, <1>12, <2>1
    DEF RecoveryStep, ProveUnsent, ResumeValidation, DeclineIntent, EnsureIntent,
        EnsureIntentRaises, Abandon, MarkLinked, ResumeLinked, Reconstruct, SuppressSubmission,
        ExpireSubmission, CloseExpired, DeferSubmission, ResumeSubmission, RecoverReturned,
        RecordOutcome, LookupOnly, LookupUnavailable, ConcludeLookup, conclude, Release
<1>13. ASSUME \E a \in Actions : ClaimWorkflow(p, a) PROVE proc'[q] = proc[q]
  BY <1>13 DEF ClaimWorkflow, TypeOK, ProcTypeOK
<1>14. ASSUME StartCycle(p) PROVE proc'[q] = proc[q]
  BY <1>5, <1>14 DEF StartCycle
<1>15. ASSUME Crash(p) PROVE proc'[q] = proc[q]
  BY <1>2, <1>15 DEF Crash
<1> QED
  BY <1>9, <1>10, <1>11, <1>12, <1>13, <1>14, <1>15 DEF ProcStep

(***************************************************************************)
(* What the three transactions of the store write.                         *)
(***************************************************************************)

\* The rows a transaction leaves alone, but for counts and snapshots.
RowKept(b) ==
  /\ intent'[b].state = intent[b].state
  /\ intent'[b].marked = intent[b].marked
  /\ intent'[b].filled = intent[b].filled

RowsKept == \A b \in Actions : RowKept(b)

\* transition writes the state of one row.
LEMMA TransitionEffect ==
  ASSUME StoreTypeOK, NEW a \in Actions, NEW t, transition(a, t)
  PROVE  /\ intent[a].state # "none"
         /\ validate_transition(intent[a].state, t)
         /\ intent'[a].state = t
         /\ intent'[a].marked = intent[a].marked
         /\ intent'[a].filled = intent[a].filled
         /\ \A b \in Actions : b # a => RowKept(b)
BY DEF transition, StoreTypeOK, IntentRows, RowKept

\* record_fill writes the state and the filled quantity of one row, or
\* nothing.
LEMMA FillEffect ==
  ASSUME StoreTypeOK, NEW a \in Actions, NEW c, NEW s, NEW src, record_fill(a, c, s, src)
  PROVE  /\ intent'[a].marked = intent[a].marked
         /\ \A b \in Actions : b # a => RowKept(b)
         /\ \/ RowKept(a) /\ UNCHANGED resv
            \/ /\ c >= intent[a].filled
               /\ validate_transition(intent[a].state, fill_target(a, c))
               /\ intent'[a].state = fill_target(a, c)
               /\ intent'[a].filled = c
<1>1. CASE UNCHANGED << intent, resv >>
  BY <1>1 DEF RowKept
<1>2. CASE ~ UNCHANGED << intent, resv >>
  <2>1. /\ c >= intent[a].filled
        /\ validate_transition(intent[a].state, fill_target(a, c))
        /\ intent' = [intent EXCEPT ![a].state = fill_target(a, c), ![a].filled = c]
    BY <1>2 DEF record_fill
  <2> QED
    BY <2>1 DEF StoreTypeOK, IntentRows, RowKept
<1> QED
  BY <1>1, <1>2

\* create_or_get_intent makes a row of a new action.
LEMMA CreationEffect ==
  ASSUME StoreTypeOK, NEW p \in Procs, NEW a \in Actions, create_intent(p, a)
  PROVE  /\ intent[a].state = "none"
         /\ intent'[a].state = "reserved"
         /\ intent'[a].marked = intent[a].marked
         /\ intent'[a].filled = intent[a].filled
         /\ \A b \in Actions : b # a => RowKept(b)
<1>1. intent' = [intent EXCEPT ![a].state = "reserved", ![a].bound = p,
                               ![a].born = Cardinality(existing_intents) + 1]
      /\ intent[a].state = "none"
  BY DEF create_intent
<1> HIDE DEF create_intent
<1> QED
  BY <1>1 DEF StoreTypeOK, IntentRows, RowKept

\* A count or a snapshot is written.
LEMMA DetailEffect ==
  ASSUME StoreTypeOK, NEW a \in Actions,
         \/ \E x : intent' = [intent EXCEPT ![a].bound = x]
         \/ \E x : intent' = [intent EXCEPT ![a].absent = x]
         \/ UNCHANGED intent
  PROVE  RowsKept
<1>1. intent \in [Actions -> IntentRows]
  BY DEF StoreTypeOK
<1>2. ASSUME NEW x, intent' = [intent EXCEPT ![a].bound = x] PROVE RowsKept
  BY <1>1, <1>2 DEF IntentRows, RowKept, RowsKept
<1>3. ASSUME NEW x, intent' = [intent EXCEPT ![a].absent = x] PROVE RowsKept
  BY <1>1, <1>3 DEF IntentRows, RowKept, RowsKept
<1>4. CASE UNCHANGED intent
  BY <1>4 DEF RowKept, RowsKept
<1> QED
  BY <1>2, <1>3, <1>4

\* The marker is written.
LEMMA MarkEffect ==
  ASSUME StoreTypeOK, NEW a \in Actions, NEW m,
         intent' = [intent EXCEPT ![a].marked = m]
  PROVE  /\ intent'[a].marked = m
         /\ intent'[a].state = intent[a].state
         /\ intent'[a].filled = intent[a].filled
         /\ \A b \in Actions : b # a => RowKept(b)
BY DEF StoreTypeOK, IntentRows, RowKept

(***************************************************************************)
(* One process: what it has in hand.                                       *)
(***************************************************************************)

\* At most one process ever runs.
OneProcess == \A p, q \in Procs : p = q

\* From the creation of the intent to the marker, and after the marker was
\* cleared again.
UnmarkedPCs == { "pending", "submitting", "starting", "verify", "reread", "mark",
                 "rejecting", "refusing" }

\* Where recovery decides from the row it read.
DecidingPCs == { "examined", "advance", "failedMove", "reconstruct" }

\* An intent that may still be submitted carries no marker.
PreUnmarked ==
  \A a \in Actions :
    intent[a].state \in PRE_SUBMISSION_STATES \cup { "none" } => ~ intent[a].marked

Unannounced ==
  \A p \in Procs : proc[p].pc \in UnmarkedPCs => ~ intent[Act(p)].marked

InHand ==
  \A p \in Procs : proc[p].pc \in Holders => intent[Act(p)].state = "submitting"

\* The row recovery decides from is the row as it is.
Fresh ==
  \A p \in Procs : proc[p].pc \in DecidingPCs =>
    /\ Row(p).state = intent[Act(p)].state
    /\ Row(p).marked = intent[Act(p)].marked

HandInv == PreUnmarked /\ Unannounced /\ InHand /\ Fresh

\* A step that leaves the process elsewhere has only the rows to keep.
LEMMA HandsFree ==
  ASSUME OneProcess, NEW p \in Procs, PreUnmarked',
         proc'[p].pc \notin UnmarkedPCs \cup Holders \cup DecidingPCs
  PROVE  HandInv'
BY DEF OneProcess, HandInv, Unannounced, InHand, Fresh

\* The marker may be left alone when no row becomes eligible.
LEMMA StillUnmarked ==
  ASSUME PreUnmarked,
         \A b \in Actions :
           \/ RowKept(b)
           \/ /\ intent'[b].marked = intent[b].marked
              /\ intent'[b].state \in PRE_SUBMISSION_STATES => ~ intent[b].marked
              /\ intent'[b].state # "none"
  PROVE  PreUnmarked'
BY DEF PreUnmarked, RowKept

\* The same for one written row.
LEMMA OneWritten ==
  ASSUME StoreTypeOK, PreUnmarked, NEW a \in Actions, NEW t, transition(a, t),
         t # "none", t \in PRE_SUBMISSION_STATES => ~ intent[a].marked
  PROVE  PreUnmarked'
BY TransitionEffect, StillUnmarked

\* The live caller.
LEMMA LiveHand ==
  ASSUME TypeOK, OneProcess, HandInv, NEW p \in Procs, LiveStep(p)
  PROVE  HandInv'
<1>1. PreUnmarked'
  BY DEF HandInv, PreUnmarked, LiveStep, AcceptApproval, BeginValidation, RefuseApproval,
         ConsumeApproval, FinalRevalidation, SettleWorkflow, CloseProposal, storeVars
<1>2. proc'[p].pc \in { "idle", "accepted", "consuming", "revalidating", "authority", "returned",
                        "closing" }
  BY LiveLocals DEF LiveStep, Onto
<1> QED
  BY <1>1, <1>2, HandsFree DEF UnmarkedPCs, Holders, DecidingPCs

\* Executor.execute announces an unmarked row, and takes the announcement
\* back only between the marker and the call.
LEMMA ExecuteHand ==
  ASSUME TypeOK, Located, OneProcess, HandInv, NEW p \in Procs, ExecuteStep(p)
  PROVE  HandInv'
<1>1. StoreTypeOK /\ PreUnmarked /\ Act(p) \in Actions
  BY ExecuteWorks DEF TypeOK, HandInv
<1>2. UNCHANGED intent => PreUnmarked'
  BY <1>1 DEF PreUnmarked
<1>3. RowsKept => PreUnmarked'
  BY <1>1, StillUnmarked DEF RowsKept
<1>4. CASE \/ LoadAuthority(p) \/ PersistValidation(p) \/ IntentRefused(p)
           \/ CloseRejectedWorkflow(p) \/ CallBroker(p) \/ BrokerAnswers(p) \/ AnswerLost(p)
           \/ LocalUpdateFails(p) \/ Acknowledge(p) \/ ExecuteRaises(p)
  <2>1. UNCHANGED intent
    BY <1>4 DEF LoadAuthority, PersistValidation, IntentRefused, CloseRejectedWorkflow, CallBroker,
        BrokerAnswers, AnswerLost, LocalUpdateFails, Acknowledge, ExecuteRaises, storeVars
  <2>2. proc'[p].pc \in { "idle", "persist", "create", "returned", "waiting", "answered",
                          "ambiguous", "failed" }
    BY <1>1, <1>4, ExecuteLocals DEF Onto
  <2> QED
    BY <1>2, <2>1, <2>2, HandsFree DEF UnmarkedPCs, Holders, DecidingPCs
<1>5. CASE BrokerMissing(p)
  <2>1. PreUnmarked'
    BY <1>1, <1>2, <1>5, OneWritten DEF BrokerMissing
  <2> QED
    BY <1>1, <1>5, <2>1, ExecuteLocals, HandsFree DEF Onto, UnmarkedPCs, Holders, DecidingPCs
<1>6. CASE \/ RejectBeforeBroker(p) \/ RejectRefused(p) \/ BookIncompleteFill(p) \/ MarkUnknown(p)
  <2>1. \E t \in { "rejected", "unknown" } : transition(Act(p), t)
    BY <1>6 DEF RejectBeforeBroker, RejectRefused, BookIncompleteFill, MarkUnknown,
        transition_from
  <2>2. PreUnmarked'
    BY <1>1, <2>1, OneWritten DEF PRE_SUBMISSION_STATES
  <2> QED
    BY <1>1, <1>6, <2>2, ExecuteLocals, HandsFree DEF Onto, UnmarkedPCs, Holders, DecidingPCs
<1>7. CASE BookResponse(p)
  <2>1. PreUnmarked'
    <3>1. CASE transition(Act(p), "submitted")
      BY <1>1, <3>1, OneWritten DEF PRE_SUBMISSION_STATES
    <3>2. ASSUME NEW c, NEW s, record_fill(Act(p), c, s, "submission") PROVE PreUnmarked'
      BY <1>1, <3>2, FillEffect, StillUnmarked DEF fill_target, PRE_SUBMISSION_STATES
    <3> QED
      BY <1>7, <3>1, <3>2 DEF BookResponse
  <2> QED
    BY <1>1, <1>7, <2>1, ExecuteLocals, HandsFree DEF Onto, UnmarkedPCs, Holders, DecidingPCs
<1>8. CASE CreateIntent(p)
  <2>1. /\ intent[Act(p)].state = "none"
        /\ intent'[Act(p)].marked = intent[Act(p)].marked
        /\ intent'[Act(p)].state = "reserved"
        /\ \A b \in Actions : b # Act(p) => RowKept(b)
    BY <1>1, <1>8, CreationEffect DEF CreateIntent
  <2>2. ~ intent'[Act(p)].marked
    BY <1>1, <2>1 DEF PreUnmarked
  <2>3. PreUnmarked'
    BY <1>1, <2>1, <2>2, StillUnmarked
  <2>4. Onto(p, {"pending"})
    BY <1>1, <1>8, ExecuteLocals
  <2> QED
    BY <2>2, <2>3, <2>4
    DEF OneProcess, HandInv, Unannounced, InHand, Fresh, Onto, Act, UnmarkedPCs, Holders,
        DecidingPCs
<1>9. CASE GetIntent(p)
  <2>1. RowsKept
    BY <1>1, <1>9, DetailEffect DEF GetIntent, get_intent_again
  <2>2. Onto(p, {"pending", "returned"})
    BY <1>1, <1>9, ExecuteLocals
  <2>3. proc'[p].pc = "pending" => ~ intent[Act(p)].marked
    <3>1. SUFFICES ASSUME proc'[p].pc = "pending" PROVE ~ intent[Act(p)].marked
      OBVIOUS
    <3>2. ~ never_submitted_again(p, row_of(Act(p))) /\ intent[Act(p)].state # "none"
      BY <1>1, <1>9, <3>1, ReturnLocals DEF GetIntent, get_intent_again, Onto, TypeOK
    <3>3. intent[Act(p)].state \in OrderStates
      BY <1>1, <3>2 DEF StoreTypeOK, IntentRows
    <3>4. intent[Act(p)].state \in PRE_SUBMISSION_STATES \/ ~ intent[Act(p)].marked
      BY <3>2, <3>3
      DEF never_submitted_again, exact_pre_broker_recovery, row_of, OrderStates,
          PRE_SUBMISSION_STATES, BROKER_RELEVANT_STATES, TERMINAL_STATES
    <3> QED
      BY <1>1, <3>4 DEF PreUnmarked
  <2> QED
    BY <1>1, <1>3, <2>1, <2>2, <2>3
    DEF OneProcess, HandInv, Unannounced, InHand, Fresh, Onto, Act, UnmarkedPCs, Holders,
        DecidingPCs, RowsKept, RowKept
<1>10. CASE MarkPending(p) \/ StartWorkflow(p) \/ ReadBack(p)
  <2>1. UNCHANGED intent /\ proc[p].pc \in UnmarkedPCs
    BY <1>10 DEF MarkPending, StartWorkflow, ReadBack, storeVars, At, UnmarkedPCs
  <2>2. Onto(p, {"submitting", "verify", "mark", "rejecting"})
    BY <1>1, <1>10, ExecuteLocals DEF Onto
  <2> QED
    BY <1>2, <2>1, <2>2
    DEF OneProcess, HandInv, Unannounced, InHand, Fresh, Onto, Act, UnmarkedPCs, Holders,
        DecidingPCs
<1>11. CASE StartSubmission(p)
  <2>1. /\ PreUnmarked'
        /\ intent'[Act(p)].marked = intent[Act(p)].marked
    <3>1. CASE UNCHANGED intent
      BY <1>2, <3>1
    <3>2. CASE transition(Act(p), "submitting")
      BY <1>1, <3>2, OneWritten, TransitionEffect DEF PRE_SUBMISSION_STATES
    <3> QED
      BY <1>11, <3>1, <3>2 DEF StartSubmission, transition_from
  <2>2. Onto(p, {"starting", "returned"}) /\ proc[p].pc = "submitting"
    BY <1>1, <1>11, ExecuteLocals DEF StartSubmission, At
  <2> QED
    BY <2>1, <2>2
    DEF OneProcess, HandInv, Unannounced, InHand, Fresh, Onto, Act, UnmarkedPCs, Holders,
        DecidingPCs
<1>12. CASE VerifySnapshot(p)
  <2>1. RowsKept
    BY <1>1, <1>12, DetailEffect DEF VerifySnapshot
  <2>2. Onto(p, {"reread", "rejecting"}) /\ proc[p].pc = "verify"
    BY <1>1, <1>12, ExecuteLocals DEF VerifySnapshot, At
  <2> QED
    BY <1>1, <1>3, <2>1, <2>2
    DEF OneProcess, HandInv, Unannounced, InHand, Fresh, Onto, Act, UnmarkedPCs, Holders,
        DecidingPCs, RowsKept, RowKept
<1>13. CASE MarkInvocation(p)
  <2>1. Onto(p, {"marked", "rejecting"}) /\ proc[p].pc = "mark"
    BY <1>1, <1>13, ExecuteLocals DEF MarkInvocation, At
  <2>2. CASE boundary_holds(Act(p)) /\ intent[Act(p)].bound = proc[p].bound
    <3>1. /\ intent'[Act(p)].state = "submitting"
          /\ \A b \in Actions : b # Act(p) => RowKept(b)
          /\ proc'[p].pc = "marked"
      BY <1>1, <1>13, <2>2, MarkEffect, GotoLocals DEF MarkInvocation, boundary_holds, TypeOK
    <3>2. PreUnmarked'
      BY <1>1, <3>1 DEF PreUnmarked, RowKept, PRE_SUBMISSION_STATES
    <3> QED
      BY <2>1, <3>1, <3>2
      DEF OneProcess, HandInv, Unannounced, InHand, Fresh, Onto, Act, UnmarkedPCs, Holders,
          DecidingPCs
  <2>3. CASE ~ (boundary_holds(Act(p)) /\ intent[Act(p)].bound = proc[p].bound)
    <3>1. UNCHANGED intent /\ proc'[p].pc = "rejecting"
      BY <1>13, <2>3, GotoLocals DEF MarkInvocation, TypeOK
    <3> QED
      BY <1>2, <2>1, <3>1
      DEF OneProcess, HandInv, Unannounced, InHand, Fresh, Onto, Act, UnmarkedPCs, Holders,
          DecidingPCs
  <2> QED
    BY <2>2, <2>3
<1>14. CASE AdapterRefuses(p)
  <2>1. UNCHANGED intent /\ proc[p].pc = "marked" /\ Onto(p, {"refused"})
    BY <1>1, <1>14, ExecuteLocals DEF AdapterRefuses, storeVars, At
  <2> QED
    BY <1>2, <2>1
    DEF OneProcess, HandInv, Unannounced, InHand, Fresh, Onto, Act, UnmarkedPCs, Holders,
        DecidingPCs
<1>15. CASE ClearMark(p)
  <2>1. /\ ~ intent'[Act(p)].marked
        /\ \A b \in Actions : b # Act(p) => RowKept(b)
    BY <1>1, <1>15, MarkEffect DEF ClearMark
  <2>2. PreUnmarked'
    BY <1>1, <2>1 DEF PreUnmarked, RowKept
  <2>3. Onto(p, {"refusing"})
    BY <1>1, <1>15, ExecuteLocals
  <2> QED
    BY <2>1, <2>2, <2>3
    DEF OneProcess, HandInv, Unannounced, InHand, Fresh, Onto, Act, UnmarkedPCs, Holders,
        DecidingPCs
<1> QED
  BY <1>4, <1>5, <1>6, <1>7, <1>8, <1>9, <1>10, <1>11, <1>12, <1>13, <1>14, <1>15
  DEF ExecuteStep

\* A pass decides nothing before the broker has been asked.
LEMMA PassHand ==
  ASSUME TypeOK, Located, OneProcess, HandInv, NEW p \in Procs, PassStep(p)
  PROVE  HandInv'
<1>1. StoreTypeOK /\ PreUnmarked
      /\ (proc[p].pc \in PassPCs \ {"pass"} => Cur(p) \in Actions)
  BY Reconciling DEF TypeOK, HandInv
<1>2. proc'[p].pc \in PassPCs \cup { "idle", "looked", "release" }
  <2>1. CASE \E a \in Actions : LookupAnswers(p, a)
    BY <2>1, PassLocals DEF PassPCs
  <2>2. CASE ~ \E a \in Actions : LookupAnswers(p, a)
    BY <2>2, PassLocals DEF PassStep, Onto, PassPCs
  <2> QED
    BY <2>1, <2>2
<1>3. PreUnmarked'
  <2>1. CASE UNCHANGED intent
    BY <1>1, <2>1 DEF PreUnmarked
  <2>2. CASE RecordAbsence(p) \/ RecordFound(p)
    <3>1. RowsKept
      BY <1>1, <2>2, DetailEffect DEF RecordAbsence, RecordFound, At, PassPCs
    <3> QED
      BY <1>1, <3>1, StillUnmarked DEF RowsKept
  <2>3. CASE ConcludeAbsence(p) \/ RequireEvidence(p) \/ ApplyStatus(p)
    <3>1. Cur(p) \in Actions
      BY <1>1, <2>3 DEF ConcludeAbsence, RequireEvidence, ApplyStatus, At, PassPCs
    <3>2. \/ UNCHANGED intent
          \/ \E t \in OrderStates \ PRE_SUBMISSION_STATES : transition(Cur(p), t)
      BY <2>3
      DEF ConcludeAbsence, RequireEvidence, ApplyStatus, absence_target, reconciled_target,
          broker_status_to_state, OrderStates, PRE_SUBMISSION_STATES
    <3> QED
      BY <1>1, <2>1, <3>1, <3>2, OneWritten DEF OrderStates
  <2>4. CASE ApplyFill(p)
    <3>1. Cur(p) \in Actions
      BY <1>1, <2>4 DEF ApplyFill, At, PassPCs
    <3>2. PICK c, s : record_fill(Cur(p), c, s, "reconciliation")
      BY <2>4 DEF ApplyFill
    <3> QED
      BY <1>1, <3>1, <3>2, FillEffect, StillUnmarked DEF fill_target, PRE_SUBMISSION_STATES
  <2> QED
    BY <2>1, <2>2, <2>3, <2>4
    DEF PassStep, EndPass, LookupFails, LookupAnswers, AbsenceRaises, ApplyFillRaises,
        ApplyStatusRaises, storeVars
<1> QED
  BY <1>2, <1>3, HandsFree DEF UnmarkedPCs, Holders, DecidingPCs, PassPCs

\* Recovery makes an intent eligible again only when the row it read, which
\* is the row as it is, carries no marker.
LEMMA RecoveryHand ==
  ASSUME TypeOK, Located, OneProcess, HandInv, NEW p \in Procs, RecoveryStep(p)
  PROVE  HandInv'
<1>1. StoreTypeOK /\ PreUnmarked /\ Act(p) \in Actions
  BY RecoveryWorks DEF TypeOK, HandInv
<1>2. UNCHANGED intent => PreUnmarked'
  BY <1>1 DEF PreUnmarked
<1>3. ASSUME NEW s, NEW t, NEW l, expected_or_abandon(p, s, t, l), t # "none",
             t \in PRE_SUBMISSION_STATES =>
               s \in PRE_SUBMISSION_STATES \/ ~ intent[Act(p)].marked
      PROVE  PreUnmarked'
  <2>1. CASE transition_from(Act(p), s, t)
    BY <1>1, <1>3, <2>1, OneWritten DEF transition_from, PreUnmarked
  <2> QED
    BY <1>2, <1>3, <2>1 DEF expected_or_abandon, Abandon
<1>4. CASE ReadIntent(p)
  <2>1. UNCHANGED intent /\ Onto(p, {"examined"}) /\ proc'[p].rows[Act(p)] = row_of(Act(p))
    BY <1>1, <1>4, RecoveryLocals DEF ReadIntent, storeVars
  <2> QED
    BY <1>2, <2>1
    DEF OneProcess, HandInv, Unannounced, InHand, Fresh, Onto, Act, Row, row_of, UnmarkedPCs,
        Holders, DecidingPCs
<1>5. CASE CallbackFailed(p)
  <2>1. UNCHANGED intent /\ Onto(p, {"failedMove"}) /\ proc'[p].rows[Act(p)] = row_of(Act(p))
    BY <1>1, <1>5, RecoveryLocals DEF CallbackFailed, storeVars
  <2> QED
    BY <1>2, <2>1
    DEF OneProcess, HandInv, Unannounced, InHand, Fresh, Onto, Act, Row, row_of, UnmarkedPCs,
        Holders, DecidingPCs
<1>6. CASE LinkExisting(p) \/ ResumeValidation(p) \/ AdvanceValidation(p)
  <2>1. /\ UNCHANGED intent /\ proc'[p].rows = proc[p].rows /\ proc[p].pc \in DecidingPCs
        /\ Onto(p, {"examined", "advance", "release"})
    BY <1>1, <1>6, RecoveryLocals
    DEF LinkExisting, ResumeValidation, unvalidated, AdvanceValidation, At, DecidingPCs, Onto
  <2> QED
    BY <1>2, <2>1
    DEF OneProcess, HandInv, Unannounced, InHand, Fresh, Onto, Act, Row, UnmarkedPCs, Holders,
        DecidingPCs
<1>7. CASE ResumeLinked(p)
  <2>1. /\ Onto(p, {"linked", "reconstruct", "release"})
        /\ proc'[p].pc = "reconstruct" => proc'[p].rows = proc[p].rows
        /\ proc[p].pc = "examined"
    BY <1>1, <1>7, RecoveryLocals DEF ResumeLinked, At
  <2>2. Row(p).marked = intent[Act(p)].marked
    BY <2>1 DEF HandInv, Fresh, DecidingPCs
  <2>3. \/ UNCHANGED intent
        \/ ~ Row(p).marked
           /\ expected_or_abandon(p, "submitting", "retryable_pre_submission", "linked")
    BY <1>7 DEF ResumeLinked
  <2>4. PreUnmarked'
    BY <1>2, <1>3, <2>2, <2>3
  <2>5. CASE proc'[p].pc = "reconstruct"
    <3>1. UNCHANGED intent
      BY <1>1, <2>1, <2>3, <2>5, MoveLocals DEF Onto, TypeOK
    <3> QED
      BY <2>1, <2>4, <2>5, <3>1
      DEF OneProcess, HandInv, Unannounced, InHand, Fresh, Onto, Act, Row, UnmarkedPCs, Holders,
          DecidingPCs
  <2>6. CASE proc'[p].pc # "reconstruct"
    BY <2>1, <2>4, <2>6, HandsFree DEF Onto, UnmarkedPCs, Holders, DecidingPCs
  <2> QED
    BY <2>5, <2>6
<1>8. CASE ProveUnsent(p)
  <2>1. Row(p).marked = intent[Act(p)].marked /\ ~ Row(p).marked
    BY <1>8 DEF ProveUnsent, proves_unsent, At, HandInv, Fresh, DecidingPCs
  <2>2. PreUnmarked'
    BY <1>2, <1>3, <1>8, <2>1 DEF ProveUnsent, storeVars
  <2> QED
    BY <1>1, <1>8, <2>2, RecoveryLocals, HandsFree DEF Onto, UnmarkedPCs, Holders, DecidingPCs
<1>9. CASE EnsureIntent(p)
  <2>1. PreUnmarked'
    <3>1. CASE create_intent(p, Act(p))
      BY <1>1, <3>1, CreationEffect DEF PreUnmarked, RowKept
    <3> QED
      BY <1>2, <1>9, <3>1 DEF EnsureIntent
  <2> QED
    BY <1>1, <1>9, <2>1, RecoveryLocals, HandsFree DEF Onto, UnmarkedPCs, Holders, DecidingPCs
<1>10. CASE ExpireSubmission(p) \/ DeferSubmission(p)
  <2>1. PreUnmarked'
    BY <1>2, <1>3, <1>10
    DEF ExpireSubmission, DeferSubmission, storeVars, PRE_SUBMISSION_STATES
  <2> QED
    BY <1>1, <1>10, <2>1, RecoveryLocals, HandsFree DEF Onto, UnmarkedPCs, Holders, DecidingPCs
<1>11. CASE RecoverReturned(p)
  <2>1. PreUnmarked'
    BY <1>1, <1>2, <1>11, OneWritten DEF RecoverReturned, PRE_SUBMISSION_STATES
  <2> QED
    BY <1>1, <1>11, <2>1, RecoveryLocals, HandsFree DEF Onto, UnmarkedPCs, Holders, DecidingPCs
<1>12. CASE ClassifyFailure(p)
  <2>1. Row(p).marked = intent[Act(p)].marked
    BY <1>12 DEF ClassifyFailure, At, HandInv, Fresh, DecidingPCs
  <2>2. \/ UNCHANGED intent
        \/ ~ Row(p).marked
           /\ transition(Act(p), "retryable_pre_submission")
    BY <1>12 DEF ClassifyFailure, Abandon, transition_from, storeVars
  <2>3. PreUnmarked'
    BY <1>1, <1>2, <2>1, <2>2, OneWritten
  <2> QED
    BY <1>1, <1>12, <2>3, RecoveryLocals, HandsFree DEF Onto, UnmarkedPCs, Holders, DecidingPCs
<1>13. CASE \/ Repend(p) \/ DeclineIntent(p) \/ EnsureIntentRaises(p) \/ MarkLinked(p)
            \/ Reconstruct(p) \/ SuppressSubmission(p) \/ CloseExpired(p)
            \/ ResumeSubmission(p) \/ RunSubmitter(p) \/ RecordOutcome(p) \/ LookupOnly(p)
            \/ LookupUnavailable(p) \/ ConcludeLookup(p) \/ Release(p)
  <2>1. UNCHANGED intent
    BY <1>13
    DEF Repend, DeclineIntent, EnsureIntentRaises, Abandon, MarkLinked, Reconstruct,
        SuppressSubmission, CloseExpired, ResumeSubmission, RunSubmitter, RecordOutcome,
        LookupOnly, LookupUnavailable, ConcludeLookup, Release, storeVars
  <2>2. proc'[p].pc \in { "idle", "claimed", "release", "submitter", "authority", "returned",
                          "outcome", "failed", "pass" }
    BY <1>1, <1>13, RecoveryLocals DEF Onto
  <2> QED
    BY <1>2, <2>1, <2>2, HandsFree DEF UnmarkedPCs, Holders, DecidingPCs
<1> QED
  BY <1>4, <1>5, <1>6, <1>7, <1>8, <1>9, <1>10, <1>11, <1>12, <1>13 DEF RecoveryStep

\* A step that writes no intent and leaves every process where it is, idle,
\* claiming or at the head of a pass.
LEMMA ElsewhereHand ==
  ASSUME OneProcess, HandInv, UNCHANGED intent,
         \/ UNCHANGED proc
         \/ \E p \in Procs : proc'[p].pc \in { "idle", "claimed", "pass" }
  PROVE  HandInv'
<1>1. PreUnmarked'
  BY DEF HandInv, PreUnmarked
<1>2. CASE UNCHANGED proc
  BY <1>1, <1>2 DEF HandInv, Unannounced, InHand, Fresh, Act, Row
<1>3. ASSUME NEW p \in Procs, proc'[p].pc \in { "idle", "claimed", "pass" } PROVE HandInv'
  BY <1>1, <1>3, HandsFree DEF UnmarkedPCs, Holders, DecidingPCs
<1> QED
  BY <1>2, <1>3

\* Initially nobody works.
LEMMA HandInit == Init => HandInv
<1> SUFFICES ASSUME Init PROVE HandInv
  OBVIOUS
<1>1. PreUnmarked
  BY DEF Init, StoreInit, PreUnmarked
<1>2. \A p \in Procs : proc[p].pc = "idle"
  BY DEF Init, ProcInit, IdleProc
<1> QED
  BY <1>1, <1>2
  DEF HandInv, Unannounced, InHand, Fresh, UnmarkedPCs, Holders, DecidingPCs

\* Every step of one process keeps what it has in hand.
LEMMA HandNext ==
  ASSUME IInv, OneProcess, HandInv, [Next]_allVars
  PROVE  HandInv'
<1>1. TypeOK /\ Located /\ ProcTypeOK
  BY DEF IInv, TypeOK
<1>2. ASSUME NEW p \in Procs, StartCycle(p) PROVE HandInv'
  BY <1>1, <1>2, PassLabels, ElsewhereHand DEF StartCycle, storeVars
<1>3. ASSUME NEW p \in Procs, NEW a \in Actions, ClaimWorkflow(p, a) PROVE HandInv'
  <2>1. proc'[p].pc = "claimed" /\ UNCHANGED intent
    BY <1>1, <1>3 DEF ClaimWorkflow, ProcTypeOK, ProcRows
  <2> QED
    BY <2>1, ElsewhereHand
<1>4. ASSUME NEW p \in Procs, ProcStep(p) PROVE HandInv'
  BY <1>1, <1>2, <1>3, <1>4, LiveHand, ExecuteHand, PassHand, RecoveryHand DEF ProcStep
<1>5. ASSUME NEW p \in Procs, Crash(p) PROVE HandInv'
  BY <1>1, <1>5, FinishLocals, ElsewhereHand DEF Crash
<1>6. ASSUME NEW a \in Actions, Environment(a) PROVE HandInv'
  BY <1>6, ElsewhereHand DEF Environment, ExpireProposal, ExpireLease, storeVars
<1>7. CASE UNCHANGED allVars
  BY <1>7, ElsewhereHand DEF allVars, vars, storeVars
<1> QED
  BY <1>4, <1>5, <1>6, <1>7 DEF Next

\* Only the executor writes the marker, and then nothing else of the row.
LEMMA MarkerMoves ==
  ASSUME IInv, [Next]_allVars
  PROVE  \/ MarkersKept
         \/ \A b \in Actions : intent'[b].state = intent[b].state
<1>1. TypeOK /\ Located /\ StoreTypeOK
  BY DEF IInv, TypeOK
<1>2. Quiet => MarkersKept
  BY DEF Quiet, StoreKept
<1>3. ASSUME NEW p \in Procs, ProcStep(p)
      PROVE  \/ MarkersKept
             \/ \A b \in Actions : intent'[b].state = intent[b].state
  <2>1. CASE MarkInvocation(p) \/ ClearMark(p)
    BY <1>1, <2>1 DEF MarkInvocation, ClearMark, StoreTypeOK, IntentRows
  <2>2. CASE CallBroker(p) \/ AdapterRefuses(p)
    BY <2>2 DEF CallBroker, AdapterRefuses, storeVars
  <2>3. CASE ExecuteStep(p)
    BY <1>1, <1>2, <2>1, <2>2, <2>3, ExecuteQuiet
  <2> QED
    BY <1>1, <1>2, <1>3, <2>3, LiveQuiet, CycleQuiet, PassQuiet, ClaimQuiet, RecoveryQuiet
    DEF ProcStep
<1>4. ASSUME NEW p \in Procs, Crash(p) PROVE MarkersKept
  BY <1>1, <1>2, <1>4, CrashQuiet DEF Crash
<1>5. ASSUME NEW a \in Actions, Environment(a) PROVE MarkersKept
  BY <1>1, <1>2, <1>5, EnvironmentQuiet
<1>6. UNCHANGED allVars => MarkersKept
  BY DEF allVars, vars, storeVars, MarkersKept
<1> QED
  BY <1>3, <1>4, <1>5, <1>6 DEF Next

\* Once its request may have been sent, an intent is never again made eligible
\* for submission, for one process: recovery puts an intent back only when the
\* row it read, which nobody else changes, carries no marker.
THEOREM OneProcessNeverReopens ==
  ASSUME OneProcess
  PROVE  Spec => NeverReopened
<1>1. Init => HandInv
  BY HandInit
<1>2. IInv /\ HandInv /\ [Next]_allVars => HandInv'
  BY HandNext
<1>3. IInv /\ HandInv /\ HandInv' /\ [Next]_allVars =>
        \A a \in Actions :
          intent[a].marked /\ intent[a].state \notin PRE_SUBMISSION_STATES
            => intent'[a].state \notin PRE_SUBMISSION_STATES
  BY MarkerMoves DEF HandInv, PreUnmarked, MarkersKept
<1> QED
  BY <1>1, <1>2, <1>3, IInvHolds, PTL DEF Spec, NeverReopened

(***************************************************************************)
(* What the broker did, what was heard of it, and what was booked.         *)
(***************************************************************************)

\* The broker's book of one order: nothing before a request, nothing filled
\* before the order works, and the last unit fills it.
BrokerBook ==
  \A a \in Actions :
    /\ order[a].sent = 0 => order[a].status = "absent"
    /\ order[a].status \in { "absent", "travelling", "rejected", "new" } => order[a].filled = 0
    /\ order[a].filled = Qty <=> order[a].status = "filled"

\* No status follows these.
ClosedStatuses == { "canceled", "rejected", "expired" }

\* An answer never says more than happened, and the end of an order is heard
\* as it is.
HeardOf(o, a) ==
  /\ o.status \in RemoteStatuses
  /\ o.filled <= order[a].filled
  /\ o.status = "filled" => o.filled = Qty
  /\ o.status \in ClosedStatuses => order[a].status = o.status /\ order[a].filled = o.filled

HearingPCs == { "answered", "found", "apply" }

\* The broker answered that it does not know the order.
AbsencePCs == { "absence", "absenceMove" }

Heard ==
  \A p \in Procs :
    /\ proc[p].pc = "answered" => HeardOf(proc[p].obs, Act(p))
    /\ proc[p].pc \in { "found", "apply" } => HeardOf(proc[p].obs, Cur(p))

BrokerInv == BrokerBook /\ Heard /\ BookedWithinBroker

\* What the broker does to an order.
OrderMoves ==
  \/ UNCHANGED order
  \/ \E a \in Actions : BrokerStep(a)
  \/ \E a \in Actions : submit_order(a)

\* A process sends; nothing else it does reaches the broker's book.
LEMMA StepOrders ==
  ASSUME TypeOK, Located, [Next]_allVars
  PROVE  OrderMoves
<1>1. CASE UNCHANGED order
  BY <1>1 DEF OrderMoves
<1>2. ASSUME NEW p \in Procs, CallBroker(p) PROVE OrderMoves
  <2>1. Act(p) \in Actions
    BY <1>2, Working DEF CallBroker, At, PassPCs
  <2> QED
    BY <1>2, <2>1 DEF CallBroker, OrderMoves
<1>3. ASSUME NEW p \in Procs, ExecuteStep(p) PROVE OrderMoves
  BY <1>1, <1>2, <1>3
  DEF ExecuteStep, LoadAuthority, BrokerMissing, PersistValidation, CreateIntent, GetIntent,
      IntentRefused, MarkPending, StartSubmission, StartWorkflow, VerifySnapshot, ReadBack,
      MarkInvocation, RejectBeforeBroker, CloseRejectedWorkflow, AdapterRefuses, BrokerAnswers,
      AnswerLost, BookResponse, BookIncompleteFill, LocalUpdateFails, MarkUnknown, Acknowledge,
      ClearMark, RejectRefused, ExecuteRaises
<1>4. ASSUME NEW p \in Procs, LiveStep(p) PROVE OrderMoves
  BY <1>1, <1>4
  DEF LiveStep, AcceptApproval, BeginValidation, RefuseApproval, ConsumeApproval,
      FinalRevalidation, SettleWorkflow, CloseProposal
<1>5. ASSUME NEW p \in Procs, PassStep(p) PROVE OrderMoves
  BY <1>1, <1>5
  DEF PassStep, EndPass, LookupFails, LookupAnswers, RecordAbsence, ConcludeAbsence,
      AbsenceRaises, RecordFound, ApplyFill, ApplyFillRaises, RequireEvidence, ApplyStatus,
      ApplyStatusRaises
<1>6. ASSUME NEW p \in Procs, RecoveryStep(p) PROVE OrderMoves
  BY <1>1, <1>6
  DEF RecoveryStep, ReadIntent, LinkExisting, ProveUnsent, expected_or_abandon, Abandon, Repend,
      ResumeValidation, AdvanceValidation, DeclineIntent, EnsureIntent, EnsureIntentRaises,
      MarkLinked, ResumeLinked, Reconstruct, SuppressSubmission, ExpireSubmission, CloseExpired,
      DeferSubmission, ResumeSubmission, RunSubmitter, RecoverReturned, CallbackFailed,
      ClassifyFailure, RecordOutcome, LookupOnly, LookupUnavailable, ConcludeLookup, Release
<1>7. ASSUME NEW p \in Procs, ProcStep(p) PROVE OrderMoves
  BY <1>1, <1>3, <1>4, <1>5, <1>6, <1>7 DEF ProcStep, StartCycle, ClaimWorkflow
<1>8. ASSUME NEW p \in Procs, Crash(p) PROVE OrderMoves
  BY <1>1, <1>8 DEF Crash
<1>9. ASSUME NEW a \in Actions, Environment(a) PROVE OrderMoves
  BY <1>1, <1>9 DEF Environment, ExpireProposal, ExpireLease, OrderMoves
<1> QED
  BY <1>1, <1>7, <1>8, <1>9 DEF Next, allVars, vars

\* One row of the broker's book after a step.
RowMoved(b) ==
  /\ order'[b].filled >= order[b].filled
  /\ order[b].status \in ClosedStatuses =>
       order'[b].status = order[b].status /\ order'[b].filled = order[b].filled
  /\ order'[b].sent = 0 => order'[b].status = "absent"
  /\ order'[b].status \in { "absent", "travelling", "rejected", "new" } => order'[b].filled = 0
  /\ order'[b].filled = Qty <=> order'[b].status = "filled"

\* The broker's book stays one: fills only add up, and an order that has
\* ended stays ended.
LEMMA BookMoves ==
  ASSUME BrokerTypeOK, BrokerBook, OrderMoves
  PROVE  \A b \in Actions : RowMoved(b)
<1>1. /\ order \in [Actions -> OrderRows]
      /\ \A b \in Actions : order[b].filled \in Nat /\ order[b].sent \in Nat
                            /\ order[b].filled <= Qty
  BY QtyAssumption DEF BrokerTypeOK, OrderRows
<1>2. \A b \in Actions : order'[b] = order[b] => RowMoved(b)
  BY <1>1 DEF BrokerBook, RowMoved
<1>3. ASSUME NEW a \in Actions, NEW s, Becomes(a, s)
      PROVE  /\ order'[a].status = s
             /\ order'[a].filled = order[a].filled
             /\ order'[a].sent = order[a].sent
             /\ \A b \in Actions : b # a => order'[b] = order[b]
  BY <1>1, <1>3 DEF Becomes, OrderRows
<1>4. ASSUME NEW a \in Actions, BrokerStep(a) PROVE \A b \in Actions : RowMoved(b)
  <2>1. CASE Arrive(a) \/ Vanish(a) \/ RequestCancel(a) \/ CloseRemainder(a)
    <3>1. PICK s : /\ Becomes(a, s)
                   /\ \/ order[a].status = "travelling" /\ s \in { "new", "rejected", "absent" }
                      \/ order[a].status \in { "new", "partially_filled" } /\ s = "pending_cancel"
                      \/ order[a].status \in OpenStatuses /\ s \in { "canceled", "expired" }
      BY <2>1 DEF Arrive, Vanish, RequestCancel, CloseRemainder
    <3>2. RowMoved(a)
      <4>1. /\ order'[a].status = s /\ order'[a].filled = order[a].filled
            /\ order'[a].sent = order[a].sent
        BY <1>3, <3>1
      <4>2. /\ order[a].sent = 0 => order[a].status = "absent"
            /\ order[a].status = "travelling" => order[a].filled = 0
            /\ order[a].filled = Qty <=> order[a].status = "filled"
        BY DEF BrokerBook
      <4> QED
        BY <1>1, <3>1, <4>1, <4>2 DEF RowMoved, OpenStatuses, ClosedStatuses
    <3> QED
      BY <1>2, <1>3, <3>1, <3>2
  <2>2. ASSUME NEW q \in 1..Qty, Execute(a, q) PROVE \A b \in Actions : RowMoved(b)
    <3> DEFINE s == IF order[a].filled + q = Qty THEN "filled"
                    ELSE IF order[a].status = "pending_cancel" THEN "pending_cancel"
                    ELSE "partially_filled"
    <3>1. /\ order'[a].status = s
          /\ order'[a].filled = order[a].filled + q
          /\ order'[a].sent = order[a].sent
          /\ \A b \in Actions : b # a => order'[b] = order[b]
      <4>1. order' = [order EXCEPT ![a].filled = order[a].filled + q, ![a].status = s]
        BY <1>1, <2>2 DEF Execute, OrderRows
      <4> HIDE DEF s
      <4> QED
        BY <1>1, <4>1 DEF OrderRows
    <3>2. order[a].status \in OpenStatuses /\ order[a].filled + q <= Qty
      BY <2>2 DEF Execute
    <3>3. RowMoved(a)
      <4>1. order[a].sent = 0 => order[a].status = "absent"
        BY DEF BrokerBook
      <4> QED
        BY <1>1, <3>1, <3>2, <4>1 DEF RowMoved, OpenStatuses, ClosedStatuses
    <3> QED
      BY <1>2, <3>1, <3>3
  <2> QED
    BY <1>4, <2>1, <2>2 DEF BrokerStep
<1>5. ASSUME NEW a \in Actions, submit_order(a) PROVE \A b \in Actions : RowMoved(b)
  <2> DEFINE s == IF order[a].status = "absent" THEN "travelling" ELSE order[a].status
  <2>1. /\ order'[a].status = s
        /\ order'[a].filled = order[a].filled
        /\ order'[a].sent = order[a].sent + 1
        /\ \A b \in Actions : b # a => order'[b] = order[b]
    <3>1. order' = [order EXCEPT ![a].sent = order[a].sent + 1, ![a].status = s]
      BY <1>1, <1>5 DEF submit_order, OrderRows
    <3> HIDE DEF s
    <3> QED
      BY <1>1, <3>1 DEF OrderRows
  <2>2. RowMoved(a)
    BY <1>1, <2>1 DEF BrokerBook, RowMoved, ClosedStatuses
  <2> QED
    BY <1>2, <2>1, <2>2
<1> QED
  BY <1>2, <1>4, <1>5 DEF OrderMoves

\* What was heard of an order stays true of it.
LEMMA StillHeard ==
  ASSUME BrokerTypeOK, BrokerTypeOK', NEW a \in Actions, RowMoved(a), NEW o \in Answers,
         HeardOf(o, a)
  PROVE  HeardOf(o, a)'
<1>1. order[a].filled \in Nat /\ order'[a].filled \in Nat /\ o.filled \in Nat
  BY QtyAssumption DEF BrokerTypeOK, OrderRows, Answers
<1> QED
  BY <1>1 DEF HeardOf, RowMoved

\* The steps that leave the process with an answer.
LEMMA WhoHears ==
  ASSUME TypeOK, Located, NEW p \in Procs, ProcStep(p) \/ Crash(p),
         proc'[p].pc \in HearingPCs \cup AbsencePCs
  PROVE  \/ BrokerAnswers(p)
         \/ \E a \in Actions : LookupAnswers(p, a)
         \/ RecordFound(p)
         \/ RecordAbsence(p)
<1>1. ProcTypeOK
  BY DEF TypeOK
<1>2. CASE LiveStep(p)
  BY <1>2, LiveLocals DEF LiveStep, Onto, HearingPCs, AbsencePCs
<1>3. CASE ExecuteStep(p)
  BY <1>3, ExecuteWorks, ExecuteLocals DEF ExecuteStep, Onto, HearingPCs, AbsencePCs
<1>4. CASE StartCycle(p)
  BY <1>1, <1>4, PassLabels DEF StartCycle, HearingPCs, AbsencePCs
<1>5. CASE PassStep(p)
  BY <1>5, PassLocals DEF PassStep, Onto, HearingPCs, AbsencePCs
<1>6. CASE \E a \in Actions : ClaimWorkflow(p, a)
  BY <1>1, <1>6 DEF ClaimWorkflow, HearingPCs, AbsencePCs, ProcTypeOK, ProcRows
<1>7. CASE RecoveryStep(p)
  BY <1>7, RecoveryWorks, RecoveryLocals DEF RecoveryStep, Onto, HearingPCs, AbsencePCs
<1>8. CASE Crash(p)
  BY <1>1, <1>8, FinishLocals DEF Crash, HearingPCs, AbsencePCs
<1> QED
  BY <1>2, <1>3, <1>4, <1>5, <1>6, <1>7, <1>8 DEF ProcStep

\* What a lookup shows is true of the order.
LEMMA ViewIsHeard ==
  ASSUME TypeOK, BrokerBook, NEW a \in Actions, remote_view(a).status # "missing"
  PROVE  HeardOf(remote_view(a), a)
<1>1. order[a] \in OrderRows /\ order[a].filled \in Nat
  BY QtyAssumption DEF TypeOK, BrokerTypeOK, OrderRows
<1>2. /\ remote_view(a).status = order[a].status
      /\ remote_view(a).filled = order[a].filled
      /\ order[a].status \in RemoteStatuses
  BY <1>1 DEF remote_view, OrderRows
<1> QED
  BY <1>1, <1>2 DEF HeardOf, BrokerBook

\* A process that has heard something was at work on that order.
LEMMA HearingWorks ==
  ASSUME TypeOK, Located, NEW p \in Procs
  PROVE  /\ proc[p].obs \in Answers
         /\ proc[p].pc = "answered" => Act(p) \in Actions
         /\ proc[p].pc \in { "found", "apply" } => Cur(p) \in Actions
BY Working, Reconciling DEF TypeOK, ProcTypeOK, ProcRows, PassPCs

\* A process that did not step hears what it heard.
LEMMA ListenerKept ==
  ASSUME TypeOK, TypeOK', Located, Heard, \A b \in Actions : RowMoved(b),
         NEW q \in Procs, proc'[q] = proc[q]
  PROVE  /\ proc'[q].pc = "answered" => HeardOf(proc[q].obs, Act(q))'
         /\ proc'[q].pc \in { "found", "apply" } => HeardOf(proc[q].obs, Cur(q))'
<1>1. \A o \in Answers, a \in Actions : HeardOf(o, a) => HeardOf(o, a)'
  BY StillHeard DEF TypeOK
<1>2. Act(q)' = Act(q) /\ Cur(q)' = Cur(q) /\ proc'[q].obs = proc[q].obs
  BY DEF Act, Cur
<1> QED
  BY <1>1, <1>2, HearingWorks DEF Heard, HeardOf

\* Only the process that steps moves.
LEMMA WhoMoves ==
  ASSUME TypeOK, [Next]_allVars, NEW q \in Procs
  PROVE  proc'[q] = proc[q] \/ ProcStep(q) \/ Crash(q)
<1>1. ASSUME NEW p \in Procs, ProcStep(p) \/ Crash(p)
      PROVE  proc'[q] = proc[q] \/ ProcStep(q) \/ Crash(q)
  BY <1>1, OthersKept
<1>2. ASSUME NEW a \in Actions, Environment(a) PROVE proc'[q] = proc[q]
  BY <1>2 DEF Environment, ExpireProposal, ExpireLease
<1> QED
  BY <1>1, <1>2 DEF Next, allVars, vars

\* Every process goes on knowing only what happened.
LEMMA HeardNext ==
  ASSUME TypeOK, TypeOK', Located, BrokerBook, Heard, [Next]_allVars,
         \A b \in Actions : RowMoved(b)
  PROVE  Heard'
<1> SUFFICES ASSUME NEW q \in Procs, proc'[q].pc \in HearingPCs
             PROVE  /\ proc'[q].pc = "answered" => HeardOf(proc[q].obs, Act(q))'
                    /\ proc'[q].pc \in { "found", "apply" } => HeardOf(proc[q].obs, Cur(q))'
  BY DEF Heard, HearingPCs
<1>1. CASE proc'[q] = proc[q]
  BY <1>1, ListenerKept
<1>2. ASSUME BrokerAnswers(q) PROVE proc'[q].pc = "answered" /\ HeardOf(proc[q].obs, Act(q))'
  <2>1. Act(q) \in Actions
    BY <1>2, Working DEF BrokerAnswers, At, PassPCs
  <2>2. remote_view(Act(q)).status # "missing" /\ UNCHANGED order
    BY <1>2 DEF BrokerAnswers, remote_view, RemoteStatuses
  <2>3. HeardOf(remote_view(Act(q)), Act(q))
    BY <2>1, <2>2, ViewIsHeard
  <2>4. /\ proc'[q].pc = "answered" /\ proc'[q].act = proc[q].act
        /\ proc'[q].obs = remote_view(Act(q))
    BY <1>2, <2>1, ExecuteLocals DEF Onto, HearingPCs
  <2> QED
    BY <2>2, <2>3, <2>4 DEF HeardOf, Act
<1>3. ASSUME NEW a \in Actions, LookupAnswers(q, a)
      PROVE  proc'[q].pc = "found" /\ HeardOf(proc[q].obs, Cur(q))'
  <2>1. /\ proc'[q].pc = "found" /\ proc'[q].cur = a /\ proc'[q].obs = remote_view(a)
        /\ remote_view(a).status # "missing"
    BY <1>3, PassLocals DEF HearingPCs
  <2>2. HeardOf(remote_view(a), a) /\ UNCHANGED order
    BY <1>3, <2>1, ViewIsHeard DEF LookupAnswers
  <2> QED
    BY <2>1, <2>2 DEF HeardOf, Cur
<1>4. ASSUME RecordFound(q) PROVE proc'[q].pc = "apply" /\ HeardOf(proc[q].obs, Cur(q))'
  <2>1. /\ proc'[q].pc = "apply" /\ proc'[q].cur = proc[q].cur /\ proc'[q].obs = proc[q].obs
        /\ proc[q].pc = "found" /\ UNCHANGED order
    BY <1>4, PassLocals DEF RecordFound, At, Onto, HearingPCs
  <2> QED
    BY <2>1 DEF Heard, HeardOf, Cur
<1>5. ~ RecordAbsence(q)
  BY PassLocals DEF Onto, HearingPCs
<1>6. CASE ProcStep(q) \/ Crash(q)
  BY <1>2, <1>3, <1>4, <1>5, <1>6, WhoHears
<1> QED
  BY <1>1, <1>6, WhoMoves

\* The rows of intents and of orders count in units.
LEMMA CountTypes ==
  ASSUME TypeOK, NEW a \in Actions
  PROVE  intent[a].filled \in Nat /\ order[a].filled \in Nat
BY QtyAssumption DEF TypeOK, StoreTypeOK, BrokerTypeOK, IntentRows, OrderRows

\* A booking step books what was heard.
LEMMA BookedNext ==
  ASSUME TypeOK, TypeOK', Located, Heard, BookedWithinBroker, [Next]_allVars,
         \A b \in Actions : RowMoved(b)
  PROVE  BookedWithinBroker'
<1> SUFFICES ASSUME NEW b \in Actions PROVE intent'[b].filled <= order'[b].filled
  BY DEF BookedWithinBroker
<1>1. /\ intent[b].filled \in Nat /\ order[b].filled \in Nat /\ order'[b].filled \in Nat
      /\ intent[b].filled <= order[b].filled
      /\ order'[b].filled >= order[b].filled
      /\ StoreTypeOK
  BY CountTypes DEF BookedWithinBroker, RowMoved, TypeOK, BrokerTypeOK, OrderRows
<1>2. CASE intent'[b].filled = intent[b].filled
  BY <1>1, <1>2
<1>3. CASE Booking
  <2>1. PICK p \in Procs, a \in Actions, src \in EvidenceSources :
          /\ \/ proc[p].pc = "answered" /\ a = Act(p)
             \/ proc[p].pc = "apply" /\ a = Cur(p)
          /\ record_fill(a, proc[p].obs.filled, proc[p].obs.status, src)
    BY <1>3 DEF Booking
  <2>2. proc[p].obs.filled <= order[a].filled /\ proc[p].obs.filled \in Nat
    BY <2>1, QtyAssumption, HearingWorks DEF Heard, HeardOf, Answers
  <2>3. intent'[b].filled = intent[b].filled \/ (b = a /\ intent'[b].filled = proc[p].obs.filled)
    BY <1>1, <2>1, FillEffect DEF RowKept
  <2> QED
    BY <1>1, <1>2, <2>2, <2>3
<1>4. BooksMove
  BY NextBooks
<1>5. CASE Transition
  BY <1>1, <1>2, <1>5, TransitionEffect DEF Transition, RowKept
<1>6. CASE Creation
  BY <1>1, <1>2, <1>6, CreationEffect DEF Creation, RowKept
<1> QED
  BY <1>2, <1>3, <1>4, <1>5, <1>6 DEF BooksMove, BooksKept

\* Initially the broker knows nothing.
LEMMA BrokerInit0 == Init => BrokerInv
<1> SUFFICES ASSUME Init PROVE BrokerInv
  OBVIOUS
<1>1. BrokerBook
  BY QtyAssumption DEF Init, BrokerInit, BrokerBook
<1>2. \A p \in Procs : proc[p].pc = "idle"
  BY DEF Init, ProcInit, IdleProc
<1>3. BookedWithinBroker
  BY DEF Init, StoreInit, BrokerInit, BookedWithinBroker
<1> QED
  BY <1>1, <1>2, <1>3 DEF BrokerInv, Heard

\* Every step keeps it.
LEMMA BrokerNext == IInv /\ BrokerInv /\ [Next]_allVars => BrokerInv'
<1> SUFFICES ASSUME IInv, BrokerInv, [Next]_allVars PROVE BrokerInv'
  OBVIOUS
<1>1. TypeOK /\ Located /\ TypeOK' /\ BrokerTypeOK
  BY NextIInv DEF IInv, TypeOK
<1>2. \A b \in Actions : RowMoved(b)
  BY <1>1, StepOrders, BookMoves DEF BrokerInv
<1>3. BrokerBook'
  BY <1>2 DEF BrokerBook, RowMoved
<1>4. Heard' /\ BookedWithinBroker'
  BY <1>1, <1>2, HeardNext, BookedNext DEF BrokerInv
<1> QED
  BY <1>3, <1>4 DEF BrokerInv

\* What the books show was executed: the count that record_fill is given was
\* read from the broker, whose count never shrinks, and nothing else raises
\* the quantity of an intent.  It holds for any number of processes.
THEOREM BooksShowNoMore == Spec => []BookedWithinBroker
<1>1. BrokerInv => BookedWithinBroker
  BY DEF BrokerInv
<1> QED
  BY <1>1, BrokerInit0, BrokerNext, IInvHolds, PTL DEF Spec

(***************************************************************************)
(* One process whose lookups do not overtake its requests: every step is a *)
(* move of the promise.                                                    *)
(***************************************************************************)

\* "Not found" is heard only of an order that is not there.
AbsentSeen ==
  \A p \in Procs : proc[p].pc \in { "absence", "absenceMove" } =>
    order[Cur(p)].status = "absent"

PromiseInv == HandInv /\ BrokerInv /\ AbsentSeen /\ LiveOrderStaysReserved

\* Nothing can execute under the order any more, and all of it is booked.
Finished(a) == ~ possibly_live(a) /\ intent[a].filled = order[a].filled

\* A transition settles an intent only then.
Settles(a, t) ==
  /\ transition(a, t)
  /\ t \in TERMINAL_STATES /\ intent[a].state \notin TERMINAL_STATES => Finished(a)
  /\ UNCHANGED order

Books(a, c) ==
  /\ \E s, src : record_fill(a, c, s, src)
  /\ c \in 0..Qty /\ c <= order[a].filled
  /\ UNCHANGED order

Creates(a) == (\E p \in Procs : create_intent(p, a)) /\ UNCHANGED order

Marks(a) ==
  /\ intent[a].state = "submitting"
  /\ intent' = [intent EXCEPT ![a].marked = TRUE]
  /\ UNCHANGED << resv, order >>

Clears(a) ==
  /\ order[a].sent = 0
  /\ intent' = [intent EXCEPT ![a].marked = FALSE]
  /\ UNCHANGED << resv, order >>

Sends(a) ==
  /\ intent[a].state = "submitting" /\ intent[a].marked /\ order[a].sent = 0
  /\ submit_order(a)
  /\ UNCHANGED << intent, resv >>

PromiseMove ==
  \/ RowsKept /\ UNCHANGED << resv, order >>
  \/ \E a \in Actions :
       \/ \E t \in OrderStates : Settles(a, t)
       \/ \E c \in 0..Qty : Books(a, c)
       \/ Creates(a)
       \/ Marks(a)
       \/ Clears(a)
       \/ Sends(a)
       \/ BrokerStep(a) /\ UNCHANGED << intent, resv >>

\* An intent without a marker has no order.
LEMMA UnmarkedIsFinished ==
  ASSUME IInv, BrokerInv, NEW a \in Actions, ~ intent[a].marked
  PROVE  Finished(a)
<1>1. order[a].status = "absent" /\ order[a].filled = 0
  BY DEF IInv, SentOnce, BrokerInv, BrokerBook
<1>2. intent[a].filled = 0
  BY <1>1, CountTypes DEF IInv, BrokerInv, BookedWithinBroker
<1> QED
  BY <1>1, <1>2 DEF Finished, possibly_live, OpenStatuses

\* Where nothing is written.
LEMMA StillPromised == UNCHANGED << intent, resv, order >> => PromiseMove
BY DEF PromiseMove, RowsKept, RowKept

\* A transition to a state that is not terminal settles nothing.
LEMMA MovesOn ==
  ASSUME NEW a \in Actions, NEW t \in OrderStates \ TERMINAL_STATES, transition(a, t),
         UNCHANGED order
  PROVE  PromiseMove
BY DEF PromiseMove, Settles

\* Executor.execute rejects an intent only while it carries no marker.
LEMMA ExecutePromise ==
  ASSUME IInv, PromiseInv, NEW p \in Procs, ExecuteStep(p)
  PROVE  PromiseMove
<1>1. TypeOK /\ Located /\ StoreTypeOK /\ HandInv /\ BrokerInv
  BY DEF IInv, TypeOK, PromiseInv
<1>2. Act(p) \in Actions
  BY <1>1, ExecuteWorks
<1>3. CASE BrokerMissing(p)
  BY <1>2, <1>3, StillPromised, MovesOn DEF BrokerMissing, OrderStates, TERMINAL_STATES
<1>4. CASE CreateIntent(p)
  BY <1>2, <1>4 DEF CreateIntent, PromiseMove, Creates
<1>5. CASE GetIntent(p) \/ VerifySnapshot(p)
  <2>1. RowsKept /\ UNCHANGED << resv, order >>
    BY <1>1, <1>2, <1>5, DetailEffect DEF GetIntent, get_intent_again, VerifySnapshot
  <2> QED
    BY <2>1 DEF PromiseMove
<1>6. CASE StartSubmission(p)
  BY <1>2, <1>6, StillPromised, MovesOn
  DEF StartSubmission, transition_from, OrderStates, TERMINAL_STATES
<1>7. CASE MarkInvocation(p)
  BY <1>2, <1>7, StillPromised DEF MarkInvocation, boundary_holds, PromiseMove, Marks
<1>8. CASE RejectBeforeBroker(p) \/ RejectRefused(p)
  <2>1. ~ intent[Act(p)].marked
    BY <1>1, <1>8
    DEF RejectBeforeBroker, RejectRefused, At, HandInv, Unannounced, UnmarkedPCs
  <2>2. Finished(Act(p))
    BY <1>1, <1>2, <2>1, UnmarkedIsFinished
  <2>3. Settles(Act(p), "rejected")
    BY <1>8, <2>2 DEF RejectBeforeBroker, RejectRefused, transition_from, Settles
  <2> QED
    BY <1>2, <2>3 DEF PromiseMove, OrderStates
<1>9. CASE CallBroker(p)
  <2>1. proc[p].pc \in Holders
    BY <1>9 DEF CallBroker, At, Holders
  <2>2. intent[Act(p)].marked /\ order[Act(p)].sent = 0 /\ intent[Act(p)].state = "submitting"
    BY <1>1, <2>1 DEF IInv, Held, HandInv, InHand, Act
  <2>3. Sends(Act(p))
    BY <1>9, <2>2 DEF CallBroker, Sends, storeVars
  <2> QED
    BY <1>2, <2>3 DEF PromiseMove
<1>10. CASE ClearMark(p)
  <2>1. order[Act(p)].sent = 0
    BY <1>10 DEF ClearMark, At, Holders, IInv, Held, Act
  <2>2. Clears(Act(p))
    BY <1>10, <2>1 DEF ClearMark, Clears
  <2> QED
    BY <1>2, <2>2 DEF PromiseMove
<1>11. CASE BookIncompleteFill(p) \/ MarkUnknown(p)
  BY <1>2, <1>11, MovesOn DEF BookIncompleteFill, MarkUnknown, OrderStates, TERMINAL_STATES
<1>12. CASE BookResponse(p)
  <2>1. CASE transition(Act(p), "submitted")
    BY <1>2, <1>12, <2>1, MovesOn DEF BookResponse, OrderStates, TERMINAL_STATES
  <2>2. CASE record_fill(Act(p), proc[p].obs.filled, proc[p].obs.status, "submission")
    <3>1. proc[p].obs.filled \in 0..Qty /\ proc[p].obs.filled <= order[Act(p)].filled
      BY <1>1, <1>12, HearingWorks DEF BookResponse, At, BrokerInv, Heard, HeardOf, Answers
    <3>2. Books(Act(p), proc[p].obs.filled)
      BY <1>12, <2>2, <3>1 DEF BookResponse, Books
    <3> QED
      BY <1>2, <3>1, <3>2 DEF PromiseMove
  <2> QED
    BY <1>12, <2>1, <2>2 DEF BookResponse
<1> QED
  BY <1>3, <1>4, <1>5, <1>6, <1>7, <1>8, <1>9, <1>10, <1>11, <1>12, StillPromised
  DEF ExecuteStep, LoadAuthority, PersistValidation, IntentRefused, MarkPending, StartWorkflow,
      ReadBack, CloseRejectedWorkflow, AdapterRefuses, BrokerAnswers, AnswerLost,
      LocalUpdateFails, Acknowledge, ExecuteRaises, storeVars

\* A pass settles an intent whose order is not there, or ended as heard.
LEMMA PassPromise ==
  ASSUME IInv, PromiseInv, NEW p \in Procs, PassStep(p)
  PROVE  PromiseMove
<1>1. TypeOK /\ Located /\ StoreTypeOK /\ BrokerInv
  BY DEF IInv, TypeOK, PromiseInv
<1>2. proc[p].pc \in PassPCs \ {"pass"} => Cur(p) \in Actions
  BY <1>1, Reconciling
<1>3. CASE RecordAbsence(p) \/ RecordFound(p)
  <2>1. RowsKept /\ UNCHANGED << resv, order >>
    BY <1>1, <1>2, <1>3, DetailEffect DEF RecordAbsence, RecordFound, At, PassPCs
  <2> QED
    BY <2>1 DEF PromiseMove
<1>4. CASE ConcludeAbsence(p)
  <2>1. Cur(p) \in Actions
    BY <1>2, <1>4 DEF ConcludeAbsence, At, PassPCs
  <2>2. order[Cur(p)].status = "absent"
    BY <1>4 DEF ConcludeAbsence, At, PromiseInv, AbsentSeen
  <2>3. intent[Cur(p)].filled = 0 /\ order[Cur(p)].filled = 0
    BY <1>1, <2>1, <2>2, CountTypes DEF BrokerInv, BrokerBook, BookedWithinBroker
  <2>4. Finished(Cur(p))
    BY <2>2, <2>3 DEF Finished, possibly_live, OpenStatuses
  <2>5. \/ UNCHANGED << intent, resv, order >>
        \/ \E t \in OrderStates : Settles(Cur(p), t)
    BY <1>4, <2>4 DEF ConcludeAbsence, absence_target, Settles, OrderStates
  <2> QED
    BY <2>1, <2>5, StillPromised DEF PromiseMove
<1>5. CASE RequireEvidence(p)
  <2>1. Cur(p) \in Actions
    BY <1>2, <1>5 DEF RequireEvidence, At, PassPCs
  <2> QED
    BY <1>5, <2>1, StillPromised, MovesOn DEF RequireEvidence, OrderStates, TERMINAL_STATES
<1>6. CASE ApplyStatus(p)
  <2>1. Cur(p) \in Actions /\ proc[p].obs.filled = 0 /\ HeardOf(proc[p].obs, Cur(p))
    BY <1>1, <1>2, <1>6 DEF ApplyStatus, At, PassPCs, BrokerInv, Heard
  <2>2. ASSUME reconciled_target(p) \in TERMINAL_STATES PROVE Finished(Cur(p))
    <3>1. proc[p].obs.status # "filled"
      BY <2>1, QtyAssumption DEF HeardOf
    <3>2. proc[p].obs.status \in ClosedStatuses
      BY <2>1, <2>2, <3>1
      DEF reconciled_target, broker_status_to_state, TERMINAL_STATES, HeardOf, RemoteStatuses,
          ClosedStatuses
    <3>3. order[Cur(p)].status \in ClosedStatuses /\ order[Cur(p)].filled = 0
      BY <2>1, <3>2 DEF HeardOf
    <3>4. intent[Cur(p)].filled = 0
      BY <1>1, <2>1, <3>3, CountTypes DEF BrokerInv, BookedWithinBroker
    <3> QED
      BY <3>3, <3>4 DEF Finished, possibly_live, OpenStatuses, ClosedStatuses
  <2>3. \/ UNCHANGED << intent, resv, order >>
        \/ Settles(Cur(p), reconciled_target(p))
    BY <1>6, <2>2 DEF ApplyStatus, Settles
  <2> QED
    BY <2>1, <2>3, StillPromised, TargetType DEF PromiseMove
<1>7. CASE ApplyFill(p)
  <2>1. /\ Cur(p) \in Actions
        /\ proc[p].obs.filled \in 0..Qty /\ proc[p].obs.filled <= order[Cur(p)].filled
    BY <1>1, <1>2, <1>7, HearingWorks
    DEF ApplyFill, At, PassPCs, BrokerInv, Heard, HeardOf, Answers
  <2>2. Books(Cur(p), proc[p].obs.filled)
    BY <1>7, <2>1 DEF ApplyFill, Books
  <2> QED
    BY <2>1, <2>2 DEF PromiseMove
<1> QED
  BY <1>3, <1>4, <1>5, <1>6, <1>7, StillPromised
  DEF PassStep, EndPass, LookupFails, LookupAnswers, AbsenceRaises, ApplyFillRaises,
      ApplyStatusRaises, storeVars

\* Recovery expires only what was never sent.
LEMMA RecoveryPromise ==
  ASSUME IInv, PromiseInv, NEW p \in Procs, RecoveryStep(p)
  PROVE  PromiseMove
<1>1. TypeOK /\ Located /\ StoreTypeOK /\ BrokerInv /\ PreUnmarked
  BY DEF IInv, TypeOK, PromiseInv, HandInv
<1>2. Act(p) \in Actions
  BY <1>1, RecoveryWorks
<1>3. ASSUME NEW s, NEW t \in OrderStates \ TERMINAL_STATES, NEW l,
             expected_or_abandon(p, s, t, l)
      PROVE  PromiseMove
  BY <1>2, <1>3, StillPromised, MovesOn DEF expected_or_abandon, Abandon, transition_from
<1>4. ASSUME intent[Act(p)].state \in PRE_SUBMISSION_STATES, transition(Act(p), "expired"),
             UNCHANGED order
      PROVE  PromiseMove
  <2>1. Finished(Act(p))
    BY <1>1, <1>2, <1>4, UnmarkedIsFinished DEF PreUnmarked
  <2> QED
    BY <1>2, <1>4, <2>1 DEF PromiseMove, Settles, OrderStates
<1>5. CASE ProveUnsent(p)
  BY <1>3, <1>5, StillPromised DEF ProveUnsent, OrderStates, TERMINAL_STATES, storeVars
<1>6. CASE EnsureIntent(p)
  BY <1>2, <1>6, StillPromised DEF EnsureIntent, PromiseMove, Creates
<1>7. CASE ResumeLinked(p)
  BY <1>3, <1>7, StillPromised DEF ResumeLinked, OrderStates, TERMINAL_STATES
<1>8. CASE ExpireSubmission(p)
  BY <1>4, <1>8, StillPromised
  DEF ExpireSubmission, expected_or_abandon, Abandon, transition_from
<1>9. CASE DeferSubmission(p)
  BY <1>3, <1>9, StillPromised DEF DeferSubmission, OrderStates, TERMINAL_STATES, storeVars
<1>10. CASE RecoverReturned(p)
  BY <1>4, <1>10, StillPromised DEF RecoverReturned
<1>11. CASE ClassifyFailure(p)
  BY <1>2, <1>11, StillPromised, MovesOn
  DEF ClassifyFailure, Abandon, transition_from, OrderStates, TERMINAL_STATES, storeVars
<1> QED
  BY <1>5, <1>6, <1>7, <1>8, <1>9, <1>10, <1>11, StillPromised
  DEF RecoveryStep, ReadIntent, LinkExisting, Repend, ResumeValidation, AdvanceValidation,
      DeclineIntent, EnsureIntentRaises, Abandon, MarkLinked, Reconstruct, SuppressSubmission,
      CloseExpired, ResumeSubmission, RunSubmitter, CallbackFailed, RecordOutcome, LookupOnly,
      LookupUnavailable, ConcludeLookup, Release, storeVars

\* Every step is a move of the promise.
LEMMA NextPromise ==
  ASSUME IInv, PromiseInv, [Next]_allVars
  PROVE  PromiseMove
<1>1. ASSUME NEW p \in Procs, LiveStep(p) PROVE PromiseMove
  BY <1>1, StillPromised
  DEF LiveStep, AcceptApproval, BeginValidation, RefuseApproval, ConsumeApproval,
      FinalRevalidation, SettleWorkflow, CloseProposal, storeVars
<1>2. ASSUME NEW p \in Procs, ProcStep(p) PROVE PromiseMove
  BY <1>1, <1>2, StillPromised, ExecutePromise, PassPromise, RecoveryPromise
  DEF ProcStep, StartCycle, ClaimWorkflow, storeVars
<1>3. ASSUME NEW p \in Procs, Crash(p) PROVE PromiseMove
  BY <1>3, StillPromised DEF Crash
<1>4. ASSUME NEW a \in Actions, Environment(a) PROVE PromiseMove
  BY <1>4, StillPromised DEF Environment, ExpireProposal, ExpireLease, PromiseMove, storeVars
<1> QED
  BY <1>2, <1>3, <1>4, StillPromised DEF Next, allVars, vars, storeVars

\* A process that was told that the order is not there is still right about
\* it: it sends nothing meanwhile, nobody else does, and no request is on its
\* way when the answer is given.
LEMMA AbsentNext ==
  ASSUME IInv, OneProcess, ~ LookupsOvertake, AbsentSeen, [Next]_allVars
  PROVE  AbsentSeen'
<1> SUFFICES ASSUME NEW q \in Procs, proc'[q].pc \in AbsencePCs
             PROVE  order'[proc'[q].cur].status = "absent"
  BY DEF AbsentSeen, AbsencePCs, Cur
<1>1. TypeOK /\ Located /\ BrokerTypeOK
  BY DEF IInv, TypeOK
<1>2. CASE ProcStep(q) \/ Crash(q)
  <2>1. CASE \E a \in Actions : LookupAnswers(q, a)
    <3>1. PICK a \in Actions : LookupAnswers(q, a)
      BY <2>1
    <3>2. proc'[q].cur = a /\ UNCHANGED order
      BY <1>1, <3>1, PassLocals DEF LookupAnswers
    <3>3. remote_view(a).status = "missing" /\ order[a].status # "travelling"
      <4>1. remote_view(a).status = "missing"
        BY <1>1, <3>1, PassLocals DEF AbsencePCs
      <4>2. order[a].status # "travelling"
        BY <3>1 DEF LookupAnswers, lookup_answers
      <4> QED
        BY <4>1, <4>2
    <3>4. order[a].status = "absent"
      BY <1>1, <3>3 DEF remote_view, BrokerTypeOK, OrderRows, RemoteStatuses
    <3> QED
      BY <3>2, <3>4
  <2>2. CASE RecordAbsence(q)
    BY <1>1, <2>2, PassLocals DEF RecordAbsence, At, Onto, AbsentSeen, AbsencePCs, Cur
  <2>3. ~ BrokerAnswers(q) /\ ~ RecordFound(q)
    <3>1. ~ RecordFound(q)
      BY <1>1, PassLocals DEF Onto, AbsencePCs
    <3>2. ~ BrokerAnswers(q)
      BY <1>1, Working, ExecuteLocals DEF BrokerAnswers, At, PassPCs, Onto, AbsencePCs
    <3> QED
      BY <3>1, <3>2
  <2> QED
    BY <1>1, <1>2, <2>1, <2>2, <2>3, WhoHears
<1>3. CASE ~ (ProcStep(q) \/ Crash(q))
  <2>1. UNCHANGED allVars \/ \E a \in Actions : Environment(a)
    BY <1>3 DEF OneProcess, Next
  <2>2. UNCHANGED proc /\ (UNCHANGED order \/ \E a \in Actions : BrokerStep(a))
    BY <2>1 DEF Environment, ExpireProposal, ExpireLease, allVars, vars
  <2>3. Cur(q) \in Actions /\ order[Cur(q)].status = "absent"
    BY <1>1, <2>2, Reconciling DEF AbsencePCs, AbsentSeen, PassPCs
  <2>4. ASSUME NEW a \in Actions, BrokerStep(a) PROVE order'[Cur(q)] = order[Cur(q)]
    <3>1. a # Cur(q)
      BY <2>3, <2>4
      DEF BrokerStep, Arrive, Vanish, Execute, RequestCancel, CloseRemainder, OpenStatuses
    <3> QED
      BY <1>1, <2>3, <2>4, <3>1
      DEF BrokerStep, Arrive, Vanish, Execute, RequestCancel, CloseRemainder, Becomes,
          BrokerTypeOK
  <2> QED
    BY <2>2, <2>3, <2>4 DEF Cur
<1> QED
  BY <1>2, <1>3

(***************************************************************************)
(* The promise, as it is read off the tables and the broker.               *)
(***************************************************************************)

\* What the promise sees of an action is left alone.
Unseen(b) ==
  /\ resv'[b].state = resv[b].state
  /\ intent'[b].marked = intent[b].marked
  /\ intent'[b].filled = intent[b].filled
  /\ order'[b].sent = order[b].sent
  /\ order'[b].filled = order[b].filled
  /\ possibly_live(b)' = possibly_live(b)

Capital == [a \in Actions |-> resv[a].state]
Announced == [a \in Actions |-> intent[a].marked]
Requests == [a \in Actions |-> order[a].sent]
Live == [a \in Actions |-> possibly_live(a)]
Executed == [a \in Actions |-> order[a].filled]
Booked == [a \in Actions |-> intent[a].filled]

\* A step that touches one action changes the six functions there.
LEMMA SeenAt ==
  ASSUME NEW a \in Actions, \A b \in Actions \ {a} : Unseen(b)
  PROVE  /\ Capital' = [Capital EXCEPT ![a] = resv'[a].state]
         /\ Announced' = [Announced EXCEPT ![a] = intent'[a].marked]
         /\ Requests' = [Requests EXCEPT ![a] = order'[a].sent]
         /\ Live' = [Live EXCEPT ![a] = possibly_live(a)']
         /\ Executed' = [Executed EXCEPT ![a] = order'[a].filled]
         /\ Booked' = [Booked EXCEPT ![a] = intent'[a].filled]
<1>1. Capital' = [Capital EXCEPT ![a] = resv'[a].state]
  BY DEF Capital, Unseen
<1>2. Announced' = [Announced EXCEPT ![a] = intent'[a].marked]
  BY DEF Announced, Unseen
<1>3. Requests' = [Requests EXCEPT ![a] = order'[a].sent]
  BY DEF Requests, Unseen
<1>4. Live' = [Live EXCEPT ![a] = possibly_live(a)']
  <2>1. \A b \in Actions \ {a} : possibly_live(b)' = possibly_live(b)
    BY DEF Unseen
  <2> QED
    BY <2>1 DEF Live, possibly_live
<1>5. Executed' = [Executed EXCEPT ![a] = order'[a].filled]
  BY DEF Executed, Unseen
<1>6. Booked' = [Booked EXCEPT ![a] = intent'[a].filled]
  BY DEF Booked, Unseen
<1> QED
  BY <1>1, <1>2, <1>3, <1>4, <1>5, <1>6

\* Where nothing is seen to change, the promise stutters.
LEMMA Stutters ==
  ASSUME \A b \in Actions : Unseen(b)
  PROVE  UNCHANGED Promise!vars
<1>1. Capital' = Capital /\ Announced' = Announced /\ Requests' = Requests
  BY DEF Unseen, Capital, Announced, Requests
<1>2. Live' = Live
  <2>1. \A b \in Actions : possibly_live(b)' = possibly_live(b)
    BY DEF Unseen
  <2> QED
    BY <2>1 DEF Live, possibly_live
<1>3. Executed' = Executed /\ Booked' = Booked
  BY DEF Unseen, Executed, Booked
<1> QED
  BY <1>1, <1>2, <1>3 DEF Promise!vars, Capital, Announced, Requests, Live, Executed, Booked

\* What the moves need to know of one action: its reservation follows its
\* intent, and what may still execute is reserved.
LEMMA PromiseFacts ==
  ASSUME IInv, BooksInv, PromiseInv, NEW a \in Actions
  PROVE  /\ resv[a].state = IF intent[a].state = "none" THEN "none"
                            ELSE IF intent[a].state \in TERMINAL_STATES THEN "released"
                            ELSE "active"
         /\ possibly_live(a) => resv[a].state = "active"
         /\ intent[a].state \in OrderStates \cup {"none"}
         /\ intent[a].filled \in Nat /\ order[a].filled \in 0..Qty
         /\ intent[a].filled <= order[a].filled
         /\ order[a].filled = Qty <=> order[a].status = "filled"
<1>1. resv[a].state = IF intent[a].state = "none" THEN "none"
                      ELSE IF intent[a].state \in TERMINAL_STATES THEN "released"
                      ELSE "active"
  <2>1. resv[a] = reservation_of(intent[a])
    BY DEF BooksInv, ReservationTracksIntent, reservation_of
  <2> QED
    BY <2>1 DEF reservation_of, Released
<1>2. possibly_live(a) => resv[a].state = "active"
  BY DEF PromiseInv, LiveOrderStaysReserved
<1>3. /\ intent[a].state \in OrderStates \cup {"none"}
      /\ intent[a].filled \in Nat /\ order[a].filled \in 0..Qty
  BY QtyAssumption
  DEF IInv, TypeOK, StoreTypeOK, BrokerTypeOK, IntentRows, OrderRows
<1>4. /\ intent[a].filled <= order[a].filled
      /\ order[a].filled = Qty <=> order[a].status = "filled"
  BY DEF PromiseInv, BrokerInv, BookedWithinBroker, BrokerBook
<1> QED
  BY <1>1, <1>2, <1>3, <1>4

\* A transition either is not seen or gives the capital back unused.
LEMMA SettlesKeeps ==
  ASSUME IInv, BooksInv, BooksInv', PromiseInv, NEW a \in Actions, NEW t \in OrderStates,
         Settles(a, t)
  PROVE  [Promise!Next]_(Promise!vars) /\ LiveOrderStaysReserved'
<1>1. StoreTypeOK /\ transition(a, t) /\ UNCHANGED order
  BY DEF IInv, TypeOK, Settles
<1>2. /\ intent'[a].state = t /\ intent[a].state # "none"
      /\ validate_transition(intent[a].state, t)
      /\ intent'[a].marked = intent[a].marked
      /\ intent'[a].filled = intent[a].filled
      /\ \A b \in Actions \ {a} : RowKept(b)
  BY <1>1, TransitionEffect
<1>3. /\ \A b \in Actions \ {a} : resv'[b] = resv[b]
      /\ resv'[a] = resv[a] \/ resv'[a] = Released
  BY <1>1 DEF transition, StoreTypeOK
<1>4. \A b \in Actions : possibly_live(b)' = possibly_live(b)
  BY <1>1 DEF possibly_live
<1>5. \A b \in Actions \ {a} : Unseen(b)
  BY <1>1, <1>2, <1>3, <1>4 DEF Unseen, RowKept
<1>6. CASE t \in TERMINAL_STATES /\ intent[a].state \notin TERMINAL_STATES
  <2>1. ~ possibly_live(a) /\ intent[a].filled = order[a].filled
    BY <1>6 DEF Settles, Finished
  <2>2. resv[a].state = "active" /\ resv'[a].state = "released"
    BY <1>1, <1>2, <1>6, PromiseFacts DEF transition, StoreTypeOK, Released
  <2>3. Promise!Release(a)
    <3>1. /\ Capital' = [Capital EXCEPT ![a] = "released"]
          /\ Announced' = [Announced EXCEPT ![a] = intent[a].marked]
          /\ Requests' = [Requests EXCEPT ![a] = order[a].sent]
          /\ Live' = [Live EXCEPT ![a] = possibly_live(a)]
          /\ Executed' = [Executed EXCEPT ![a] = order[a].filled]
          /\ Booked' = [Booked EXCEPT ![a] = intent[a].filled]
      BY <1>1, <1>2, <1>4, <1>5, <2>2, SeenAt
    <3> QED
      BY <2>1, <2>2, <3>1
      DEF Promise!Release, Capital, Announced, Requests, Live, Executed, Booked
  <2>4. LiveOrderStaysReserved'
    BY <1>3, <1>4, <2>1 DEF LiveOrderStaysReserved, PromiseInv
  <2> QED
    BY <2>3, <2>4 DEF Promise!Next
<1>7. CASE ~ (t \in TERMINAL_STATES /\ intent[a].state \notin TERMINAL_STATES)
  <2>1. resv'[a] = resv[a]
    <3>1. CASE t \notin TERMINAL_STATES
      BY <1>1, <3>1 DEF transition
    <3>2. CASE intent[a].state \in TERMINAL_STATES
      <4>1. resv[a].state = "released"
        BY <1>2, <3>2, PromiseFacts
      <4> QED
        BY <1>1, <4>1 DEF transition
    <3> QED
      BY <1>7, <3>1, <3>2
  <2>2. \A b \in Actions : Unseen(b)
    BY <1>1, <1>2, <1>4, <1>5, <2>1 DEF Unseen
  <2>3. LiveOrderStaysReserved'
    BY <1>3, <1>4, <2>1 DEF LiveOrderStaysReserved, PromiseInv
  <2> QED
    BY <2>2, <2>3, Stutters
<1> QED
  BY <1>6, <1>7

\* A booking books, or is not seen, or books again the whole of what was
\* executed and gives the capital back.
LEMMA BooksKeeps ==
  ASSUME IInv, BooksInv, BooksInv', PromiseInv, NEW a \in Actions, NEW c \in 0..Qty,
         Books(a, c)
  PROVE  [Promise!Next]_(Promise!vars) /\ LiveOrderStaysReserved'
<1>1. StoreTypeOK /\ UNCHANGED order /\ c <= order[a].filled /\ c \in Nat
  BY QtyAssumption DEF IInv, TypeOK, Books
<1>2. PICK s, src : record_fill(a, c, s, src)
  BY DEF Books
<1>3. \A b \in Actions : possibly_live(b)' = possibly_live(b)
  BY <1>1 DEF possibly_live
<1>4. CASE UNCHANGED << intent, resv >>
  <2>1. \A b \in Actions : Unseen(b)
    BY <1>1, <1>3, <1>4 DEF Unseen
  <2>2. LiveOrderStaysReserved'
    BY <1>3, <1>4 DEF LiveOrderStaysReserved, PromiseInv
  <2> QED
    BY <2>1, <2>2, Stutters
<1>5. CASE ~ UNCHANGED << intent, resv >>
  <2> DEFINE t == fill_target(a, c)
             R == t = "filled" \/ late_after_cancel(a, c)
  <2>1. /\ c >= intent[a].filled /\ intent[a].state # "none"
        /\ validate_transition(intent[a].state, t)
        /\ intent' = [intent EXCEPT ![a].state = t, ![a].filled = c]
        /\ resv' = [resv EXCEPT ![a] = IF R THEN Released
                                       ELSE [state |-> "active", units |-> Qty - c]]
    BY <1>2, <1>5 DEF record_fill
  <2>2. /\ intent'[a].filled = c /\ intent'[a].marked = intent[a].marked
        /\ \A b \in Actions \ {a} : RowKept(b) /\ resv'[b] = resv[b]
        /\ resv'[a].state = IF R THEN "released" ELSE "active"
    BY <1>1, <2>1 DEF StoreTypeOK, IntentRows, RowKept, Released
  <2>3. \A b \in Actions \ {a} : Unseen(b)
    BY <1>1, <1>3, <2>2 DEF Unseen, RowKept
  <2>4. /\ Capital' = [Capital EXCEPT ![a] = IF R THEN "released" ELSE "active"]
        /\ Announced' = [Announced EXCEPT ![a] = intent[a].marked]
        /\ Requests' = [Requests EXCEPT ![a] = order[a].sent]
        /\ Live' = [Live EXCEPT ![a] = possibly_live(a)]
        /\ Executed' = [Executed EXCEPT ![a] = order[a].filled]
        /\ Booked' = [Booked EXCEPT ![a] = c]
    <3> HIDE DEF R
    <3> QED
      BY <1>1, <1>3, <2>2, <2>3, SeenAt
  <2>5. /\ R <=> c = Qty \/ late_after_cancel(a, c)
        /\ late_after_cancel(a, c) => intent[a].state = "cancelled" /\ c > intent[a].filled
        /\ intent[a].state \in TERMINAL_STATES /\ ~ late_after_cancel(a, c) =>
             t = intent[a].state
    <3>1. intent[a].state \in TERMINAL_STATES => t = intent[a].state
      BY <2>1, PromiseFacts, TransitionTable
    <3> QED
      BY <1>1, <3>1, QtyAssumption DEF fill_target, late_after_cancel
  <2> HIDE DEF R
  <2>6. possibly_live(a) => ~ R
    BY <1>1, <2>5, PromiseFacts, QtyAssumption DEF possibly_live, OpenStatuses, TERMINAL_STATES
  <2>7. LiveOrderStaysReserved'
    BY <1>3, <2>2, <2>6 DEF LiveOrderStaysReserved, PromiseInv
  <2>8. CASE c > intent[a].filled
    <3>1. Capital' = [Capital EXCEPT ![a] = IF c = Qty THEN "released" ELSE @]
      <4>1. CASE c = Qty
        BY <2>4, <2>5, <4>1
      <4>2. CASE c # Qty
        <5>1. (IF R THEN "released" ELSE "active") = resv[a].state
          <6>1. CASE R
            BY <2>5, <4>2, <6>1, PromiseFacts DEF TERMINAL_STATES
          <6>2. CASE ~ R
            <7>1. t = "partially_filled"
              BY <2>5, <6>2 DEF R, fill_target
            <7>2. intent[a].state \notin TERMINAL_STATES
              BY <2>5, <6>2, <7>1 DEF TERMINAL_STATES
            <7> QED
              BY <2>1, <6>2, <7>2, PromiseFacts
          <6> QED
            BY <6>1, <6>2
        <5> QED
          BY <2>4, <4>2, <5>1 DEF Capital
      <4> QED
        BY <4>1, <4>2
    <3>2. c \in (Booked[a] + 1)..Executed[a]
      BY <1>1, <2>8, PromiseFacts DEF Booked, Executed
    <3>3. Promise!Book(a)
      BY <2>4, <3>1, <3>2
      DEF Promise!Book, Capital, Announced, Requests, Live, Executed, Booked
    <3> QED
      BY <2>7, <3>3 DEF Promise!Next
  <2>9. CASE c = intent[a].filled /\ resv[a].state = "active" /\ R
    <3>1. c = Qty /\ order[a].filled = Qty /\ ~ possibly_live(a)
      BY <1>1, <2>5, <2>6, <2>9, PromiseFacts, QtyAssumption
    <3>2. Promise!Release(a)
      BY <2>4, <2>9, <3>1
      DEF Promise!Release, Capital, Announced, Requests, Live, Executed, Booked
    <3> QED
      BY <2>7, <3>2 DEF Promise!Next
  <2>10. CASE c = intent[a].filled /\ ~ (resv[a].state = "active" /\ R)
    <3>1. resv'[a].state = resv[a].state
      <4>1. CASE resv[a].state = "active"
        BY <2>2, <2>10, <4>1
      <4>2. CASE resv[a].state # "active"
        <5>1. intent[a].state \in TERMINAL_STATES /\ resv[a].state = "released"
          BY <2>1, <4>2, PromiseFacts
        <5>2. t \in TERMINAL_STATES /\ ~ late_after_cancel(a, c)
          BY <2>5, <2>10, <5>1, PromiseFacts
        <5>3. R
          BY <5>2 DEF R, fill_target, TERMINAL_STATES
        <5> QED
          BY <2>2, <5>1, <5>3
      <4> QED
        BY <4>1, <4>2
    <3>2. \A b \in Actions : Unseen(b)
      BY <1>1, <1>3, <2>2, <2>3, <2>10, <3>1 DEF Unseen
    <3> QED
      BY <2>7, <3>2, Stutters
  <2> QED
    BY <1>1, <2>1, <2>8, <2>9, <2>10, PromiseFacts
<1> QED
  BY <1>4, <1>5

\* Where an action is touched that the promise sees in one place only, the
\* others are left alone: creation reserves, the marker announces or
\* withdraws, and the call sends.
LEMMA ExecutorKeeps ==
  ASSUME IInv, BooksInv, BooksInv', PromiseInv, NEW a \in Actions,
         Creates(a) \/ Marks(a) \/ Clears(a) \/ Sends(a)
  PROVE  [Promise!Next]_(Promise!vars) /\ LiveOrderStaysReserved'
<1>1. StoreTypeOK /\ BrokerTypeOK
  BY DEF IInv, TypeOK
<1>2. CASE Creates(a)
  <2>1. PICK p \in Procs : create_intent(p, a)
    BY <1>2 DEF Creates
  <2>2. /\ UNCHANGED order
        /\ intent[a].state = "none"
        /\ intent'[a].marked = intent[a].marked
        /\ intent'[a].filled = intent[a].filled
        /\ \A b \in Actions \ {a} : RowKept(b)
    BY <1>1, <1>2, <2>1, CreationEffect DEF Creates
  <2>3. resv'[a].state = "active" /\ \A b \in Actions \ {a} : resv'[b] = resv[b]
    BY <1>1, <2>1 DEF create_intent, StoreTypeOK
  <2>4. \A b \in Actions : possibly_live(b)' = possibly_live(b)
    BY <2>2 DEF possibly_live
  <2>5. \A b \in Actions \ {a} : Unseen(b)
    BY <2>2, <2>3, <2>4 DEF Unseen, RowKept
  <2>6. /\ Capital' = [Capital EXCEPT ![a] = "active"]
        /\ Announced' = [Announced EXCEPT ![a] = intent[a].marked]
        /\ Requests' = [Requests EXCEPT ![a] = order[a].sent]
        /\ Live' = [Live EXCEPT ![a] = possibly_live(a)]
        /\ Executed' = [Executed EXCEPT ![a] = order[a].filled]
        /\ Booked' = [Booked EXCEPT ![a] = intent[a].filled]
    BY <2>2, <2>3, <2>4, <2>5, SeenAt
  <2>7. Promise!Reserve(a)
    BY <2>2, <2>6, PromiseFacts
    DEF Promise!Reserve, Capital, Announced, Requests, Live, Executed, Booked
  <2>8. LiveOrderStaysReserved'
    BY <2>3, <2>4 DEF LiveOrderStaysReserved, PromiseInv
  <2> QED
    BY <2>7, <2>8 DEF Promise!Next
<1>3. CASE Marks(a) \/ Clears(a)
  <2>1. PICK m \in BOOLEAN : /\ intent' = [intent EXCEPT ![a].marked = m]
                             /\ m => intent[a].state = "submitting"
                             /\ ~ m => order[a].sent = 0
    BY <1>3 DEF Marks, Clears
  <2>2. UNCHANGED << resv, order >>
    BY <1>3 DEF Marks, Clears
  <2>3. /\ intent'[a].marked = m
        /\ intent'[a].filled = intent[a].filled
        /\ \A b \in Actions \ {a} : RowKept(b)
    BY <1>1, <2>1, MarkEffect
  <2>4. \A b \in Actions : possibly_live(b)' = possibly_live(b)
    BY <2>2 DEF possibly_live
  <2>5. \A b \in Actions \ {a} : Unseen(b)
    BY <2>2, <2>3, <2>4 DEF Unseen, RowKept
  <2>6. /\ Capital' = [Capital EXCEPT ![a] = resv[a].state]
        /\ Announced' = [Announced EXCEPT ![a] = m]
        /\ Requests' = [Requests EXCEPT ![a] = order[a].sent]
        /\ Live' = [Live EXCEPT ![a] = possibly_live(a)]
        /\ Executed' = [Executed EXCEPT ![a] = order[a].filled]
        /\ Booked' = [Booked EXCEPT ![a] = intent[a].filled]
    BY <2>2, <2>3, <2>4, <2>5, SeenAt
  <2>7. LiveOrderStaysReserved'
    BY <2>2, <2>4 DEF LiveOrderStaysReserved, PromiseInv
  <2>8. CASE m = TRUE
    <3>1. resv[a].state = "active"
      BY <2>1, <2>8, PromiseFacts DEF TERMINAL_STATES
    <3>2. Promise!Announce(a)
      BY <2>6, <2>8, <3>1
      DEF Promise!Announce, Capital, Announced, Requests, Live, Executed, Booked
    <3> QED
      BY <2>7, <3>2 DEF Promise!Next
  <2>9. CASE m = FALSE
    <3>1. Promise!Withdraw(a)
      BY <2>1, <2>6, <2>9
      DEF Promise!Withdraw, Capital, Announced, Requests, Live, Executed, Booked
    <3> QED
      BY <2>7, <3>1 DEF Promise!Next
  <2> QED
    BY <2>8, <2>9
<1>4. CASE Sends(a)
  <2>1. /\ order[a].sent = 0 /\ intent[a].marked /\ UNCHANGED << intent, resv >>
        /\ resv[a].state = "active"
    BY <1>4, PromiseFacts DEF Sends, TERMINAL_STATES
  <2>2. order[a].status = "absent"
    BY <2>1 DEF PromiseInv, BrokerInv, BrokerBook
  <2>3. /\ order'[a].status = "travelling" /\ order'[a].sent = 1
        /\ order'[a].filled = order[a].filled
        /\ \A b \in Actions \ {a} : order'[b] = order[b]
    BY <1>1, <1>4, <2>1, <2>2 DEF Sends, submit_order, BrokerTypeOK, OrderRows
  <2>4. /\ possibly_live(a)' = TRUE
        /\ \A b \in Actions \ {a} : possibly_live(b)' = possibly_live(b)
    BY <2>3 DEF possibly_live
  <2>5. \A b \in Actions \ {a} : Unseen(b)
    BY <2>1, <2>3, <2>4 DEF Unseen
  <2>6. /\ Capital' = [Capital EXCEPT ![a] = resv[a].state]
        /\ Announced' = [Announced EXCEPT ![a] = intent[a].marked]
        /\ Requests' = [Requests EXCEPT ![a] = 1]
        /\ Live' = [Live EXCEPT ![a] = TRUE]
        /\ Executed' = [Executed EXCEPT ![a] = order[a].filled]
        /\ Booked' = [Booked EXCEPT ![a] = intent[a].filled]
    BY <2>1, <2>3, <2>4, <2>5, SeenAt
  <2>7. Promise!Send(a)
    BY <2>1, <2>6 DEF Promise!Send, Capital, Announced, Requests, Live, Executed, Booked
  <2>8. LiveOrderStaysReserved'
    BY <2>1, <2>4 DEF LiveOrderStaysReserved, PromiseInv
  <2> QED
    BY <2>7, <2>8 DEF Promise!Next
<1> QED
  BY <1>2, <1>3, <1>4

\* The broker executes, or ends an order, or does what the promise does not
\* see; it makes nothing live that was not.
LEMMA BrokerKeeps ==
  ASSUME IInv, BooksInv, PromiseInv, NEW a \in Actions, BrokerStep(a),
         UNCHANGED << intent, resv >>
  PROVE  [Promise!Next]_(Promise!vars) /\ LiveOrderStaysReserved'
<1>1. order \in [Actions -> OrderRows] /\ order[a].filled \in Nat /\ order[a].filled \in 0..Qty
  BY PromiseFacts, QtyAssumption DEF IInv, TypeOK, BrokerTypeOK, OrderRows
<1>2. /\ \A b \in Actions \ {a} : order'[b] = order[b]
      /\ order'[a].sent = order[a].sent
      /\ order[a].status \in OpenStatuses \cup { "travelling" }
  <2>1. ASSUME NEW s, Becomes(a, s)
        PROVE  (\A b \in Actions \ {a} : order'[b] = order[b]) /\ order'[a].sent = order[a].sent
    BY <1>1, <2>1 DEF Becomes, OrderRows
  <2>2. ASSUME NEW q \in 1..Qty, Execute(a, q)
        PROVE  (\A b \in Actions \ {a} : order'[b] = order[b]) /\ order'[a].sent = order[a].sent
    BY <1>1, <2>2 DEF Execute, OrderRows
  <2>3. order[a].status \in OpenStatuses \cup { "travelling" }
    BY DEF BrokerStep, Arrive, Vanish, Execute, RequestCancel, CloseRemainder, OpenStatuses
  <2> QED
    BY <2>1, <2>2, <2>3 DEF BrokerStep, Arrive, Vanish, RequestCancel, CloseRemainder
<1>3. possibly_live(a) = TRUE /\ \A b \in Actions \ {a} : possibly_live(b)' = possibly_live(b)
  BY <1>2 DEF possibly_live
<1>4. \A b \in Actions \ {a} : Unseen(b)
  BY <1>2, <1>3 DEF Unseen
<1>5. resv[a].state = "active"
  BY <1>3, PromiseFacts
<1>6. LiveOrderStaysReserved'
  BY <1>3, <1>5 DEF LiveOrderStaysReserved, PromiseInv
<1>7. /\ Capital' = Capital /\ Announced' = Announced
      /\ Requests' = Requests /\ Booked' = Booked
      /\ Live' = [Live EXCEPT ![a] = possibly_live(a)']
      /\ Executed' = [Executed EXCEPT ![a] = order'[a].filled]
  <2>1. Capital' = Capital /\ Announced' = Announced /\ Booked' = Booked
    BY DEF Capital, Announced, Booked
  <2>2. Requests' = Requests
    BY <1>2 DEF Requests
  <2>3. /\ Live' = [Live EXCEPT ![a] = possibly_live(a)']
        /\ Executed' = [Executed EXCEPT ![a] = order'[a].filled]
    BY <1>2, <1>4, SeenAt
  <2> QED
    BY <2>1, <2>2, <2>3
<1>8. ASSUME NEW q \in 1..Qty, Execute(a, q) PROVE [Promise!Next]_(Promise!vars)
  <2> DEFINE n == order[a].filled + q
  <2>1. /\ n \in (Executed[a] + 1)..Qty /\ n \in Nat
        /\ order'[a].filled = n
        /\ order'[a].status \in OpenStatuses \cup { "filled" }
        /\ order'[a].status = "filled" <=> n = Qty
    <3> DEFINE s == IF n = Qty THEN "filled"
                    ELSE IF order[a].status = "pending_cancel" THEN "pending_cancel"
                    ELSE "partially_filled"
    <3>1. /\ n \in (Executed[a] + 1)..Qty /\ n \in Nat
          /\ s \in OpenStatuses \cup { "filled" }
          /\ s = "filled" <=> n = Qty
      BY <1>1, <1>8, QtyAssumption DEF Execute, Executed, OpenStatuses
    <3>2. order' = [order EXCEPT ![a].filled = n, ![a].status = s]
      BY <1>1, <1>8 DEF Execute, OrderRows
    <3> HIDE DEF n, s
    <3> QED
      BY <1>1, <3>1, <3>2 DEF OrderRows
  <2> HIDE DEF n
  <2>2. possibly_live(a)' <=> n < Qty
    BY <2>1, QtyAssumption DEF possibly_live, OpenStatuses, Executed
  <2>3. Live' = [Live EXCEPT ![a] = n < Qty]
    <3>1. possibly_live(a)' = (n < Qty)
      BY <2>2 DEF possibly_live
    <3> QED
      BY <1>7, <3>1
  <2>4. Promise!ExecuteSome(a)
    <3>1. Live[a] /\ Capital[a] = "active"
      BY <1>3, <1>5 DEF Live, Capital
    <3> QED
      BY <1>7, <2>1, <2>3, <3>1
      DEF Promise!ExecuteSome, Capital, Announced, Requests, Live, Executed, Booked
  <2> QED
    BY <2>4 DEF Promise!Next
<1>9. ASSUME NEW s, Becomes(a, s) PROVE [Promise!Next]_(Promise!vars)
  <2>1. order'[a].filled = order[a].filled
    BY <1>1, <1>9 DEF Becomes, OrderRows
  <2>2. CASE possibly_live(a)' = TRUE
    <3>1. \A b \in Actions : Unseen(b)
      BY <1>2, <1>3, <1>4, <2>1, <2>2 DEF Unseen
    <3> QED
      BY <3>1, Stutters
  <2>3. CASE possibly_live(a)' = FALSE
    <3>1. Executed' = Executed /\ Live' = [Live EXCEPT ![a] = FALSE]
      BY <1>7, <2>1, <2>3 DEF Executed
    <3>2. Promise!EndOrder(a)
      BY <1>7, <3>1
      DEF Promise!EndOrder, Capital, Announced, Requests, Live, Executed, Booked
    <3> QED
      BY <3>2 DEF Promise!Next
  <2>4. possibly_live(a)' \in BOOLEAN
    BY DEF possibly_live
  <2> QED
    BY <2>2, <2>3, <2>4
<1> QED
  BY <1>6, <1>8, <1>9 DEF BrokerStep, Arrive, Vanish, RequestCancel, CloseRemainder

\* What one process whose lookups do not overtake keeps.
OwnInv == PromiseInv /\ BooksInv

\* Every step of such a process is a step of the promise or is not seen.
LEMMA PromiseNext ==
  ASSUME OneProcess, ~ LookupsOvertake, IInv, OwnInv, [Next]_allVars
  PROVE  OwnInv' /\ [Promise!Next]_(Promise!vars)
<1>1. BooksInv /\ BooksInv' /\ PromiseInv
  BY BooksNext DEF OwnInv
<1>2. HandInv' /\ BrokerInv' /\ AbsentSeen'
  BY <1>1, HandNext, BrokerNext, AbsentNext DEF PromiseInv
<1>3. PromiseMove
  BY <1>1, NextPromise
<1>4. CASE RowsKept /\ UNCHANGED << resv, order >>
  <2>1. \A b \in Actions : possibly_live(b)' = possibly_live(b)
    BY <1>4 DEF possibly_live
  <2>2. \A b \in Actions : Unseen(b)
    BY <1>4, <2>1 DEF Unseen, RowsKept, RowKept
  <2>3. LiveOrderStaysReserved'
    BY <1>1, <1>4, <2>1 DEF LiveOrderStaysReserved, PromiseInv
  <2> QED
    BY <1>1, <1>2, <2>2, <2>3, Stutters DEF OwnInv, PromiseInv
<1>5. CASE ~ (RowsKept /\ UNCHANGED << resv, order >>)
  <2>1. PICK a \in Actions :
          \/ \E t \in OrderStates : Settles(a, t)
          \/ \E c \in 0..Qty : Books(a, c)
          \/ Creates(a) \/ Marks(a) \/ Clears(a) \/ Sends(a)
          \/ BrokerStep(a) /\ UNCHANGED << intent, resv >>
    BY <1>3, <1>5 DEF PromiseMove
  <2>2. [Promise!Next]_(Promise!vars) /\ LiveOrderStaysReserved'
    BY <1>1, <2>1, SettlesKeeps, BooksKeeps, ExecutorKeeps, BrokerKeeps
  <2> QED
    BY <1>1, <1>2, <2>2 DEF OwnInv, PromiseInv
<1> QED
  BY <1>4, <1>5

\* At first nothing is reserved, announced, sent, executed or booked.
LEMMA PromiseInit == Init => OwnInv /\ Promise!Init
<1> SUFFICES ASSUME Init PROVE OwnInv /\ Promise!Init
  OBVIOUS
<1>1. /\ intent = [a \in Actions |-> [state |-> "none", marked |-> FALSE, filled |-> 0,
                                      absent |-> 0, bound |-> NoProc, born |-> 0]]
      /\ resv = [a \in Actions |-> [state |-> "none", units |-> 0]]
      /\ order = [a \in Actions |-> [status |-> "absent", filled |-> 0, sent |-> 0]]
  BY DEF Init, StoreInit, BrokerInit
<1>2. \A a \in Actions : possibly_live(a) = FALSE
  BY <1>1 DEF possibly_live, OpenStatuses
<1>3. AbsentSeen
  BY DEF Init, ProcInit, IdleProc, AbsentSeen
<1>4. OwnInv
  BY <1>2, <1>3, BooksInit, HandInit, BrokerInit0
  DEF OwnInv, PromiseInv, LiveOrderStaysReserved
<1>5. Capital = [a \in Actions |-> "none"]
  BY <1>1 DEF Capital
<1>6. Announced = [a \in Actions |-> FALSE]
  BY <1>1 DEF Announced
<1>7. Requests = [a \in Actions |-> 0]
  BY <1>1 DEF Requests
<1>8. Live = [a \in Actions |-> FALSE]
  BY <1>2 DEF Live
<1>9. Executed = [a \in Actions |-> 0]
  BY <1>1 DEF Executed
<1>10. Booked = [a \in Actions |-> 0]
  BY <1>1 DEF Booked
<1>11. Promise!Init
  BY <1>5, <1>6, <1>7, <1>8, <1>9, <1>10
  DEF Promise!Init, Capital, Announced, Requests, Live, Executed, Booked
<1> QED
  BY <1>4, <1>11

\* One process, whose lookups do not overtake its requests, implements the
\* promise of OrderPromise, crashes and lost answers included: what leaves
\* Executor.execute is reserved and announced, and leaves once; the books
\* follow what was executed; capital comes back when all of it is booked and
\* nothing can execute any more.
THEOREM OneProcessKeepsPromise ==
  ASSUME OneProcess, ~ LookupsOvertake
  PROVE  Spec => KeepsPromise
<1>1. Init => OwnInv /\ Promise!Init
  BY PromiseInit
<1>2. IInv /\ OwnInv /\ [Next]_allVars => OwnInv' /\ [Promise!Next]_(Promise!vars)
  BY PromiseNext
<1> QED
  BY <1>1, <1>2, IInvHolds, PTL DEF Spec, KeepsPromise, Promise!Spec

\* Whatever may still execute at the broker is still reserved, for one such
\* process: neither the reconciler nor recovery gives capital back before
\* the order has ended and its fills are booked.
THEOREM LiveOrderKeepsCapital ==
  ASSUME OneProcess, ~ LookupsOvertake
  PROVE  Spec => []LiveOrderStaysReserved
<1>1. Init => OwnInv
  BY PromiseInit
<1>2. IInv /\ OwnInv /\ [Next]_allVars => OwnInv'
  BY PromiseNext
<1>3. OwnInv => LiveOrderStaysReserved
  BY DEF OwnInv, PromiseInv
<1> QED
  BY <1>1, <1>2, <1>3, IInvHolds, PTL DEF Spec

(***************************************************************************)
(* One process: the workflow of an approval against its intent.            *)
(***************************************************************************)

\* A workflow that has not reached the intent has none, and one that was
\* closed has none that is open.
Fits(s, i) ==
  /\ s \in before_intent \cup {"none"} => i = "none"
  /\ s \in { "blocked", "terminal" } => i \in TERMINAL_STATES \cup {"none"}

WorkflowFits == \A a \in Actions : Fits(wf[a].state, intent[a].state)

\* Where a resumed submission has not yet left the states it started from.
ResumingPCs == { "submitter", "authority", "persist", "create", "pending", "submitting" }

\* What the process knows where it closes a workflow, and on the way there.
Concluding ==
  \A p \in Procs :
    LET w == wf[Act(p)].state
        i == intent[Act(p)].state
        resumed == proc[p].kind = "recover"
    IN /\ At(p, "accepted") => w = "target_resolved"
       /\ At(p, "consuming") => w = "validating"
       /\ proc[p].pc \in { "accepted", "consuming", "revalidating" } => ~ resumed
       /\ proc[p].pc \in { "rejectWorkflow", "expire" } => i \in TERMINAL_STATES
       /\ At(p, "outcome") /\ proc[p].res = "blocked" => i \in TERMINAL_STATES
       /\ At(p, "acknowledge") => proc[p].res \in { "submitted", "unknown" }
       /\ resumed /\ proc[p].pc \in ResumingPCs => i \in PRE_SUBMISSION_STATES
       /\ resumed /\ At(p, "returned") /\ proc[p].res = "blocked" =>
            i \in PRE_SUBMISSION_STATES \cup TERMINAL_STATES

CloseInv == WorkflowFits /\ Concluding

\* The labels Concluding says nothing of.
PlainPCs ==
  PCs \ ({ "accepted", "consuming", "revalidating", "rejectWorkflow", "expire", "outcome",
           "acknowledge", "returned" } \cup ResumingPCs)

\* A step that leaves the process at one of them has nothing to keep.
LEMMA NothingConcluded ==
  ASSUME OneProcess, NEW p \in Procs, proc'[p].pc \in PlainPCs
  PROVE  Concluding'
BY DEF OneProcess, Concluding, PlainPCs, ResumingPCs, At

\* wf_transition writes the state of one workflow.
LEMMA WorkflowEffect ==
  ASSUME StoreTypeOK, NEW a \in Actions, NEW t, wf_transition(a, t)
  PROVE  /\ wf[a].state \in WorkflowStates
         /\ workflow_may_move(wf[a].state, t)
         /\ wf'[a].state = t
         /\ \A b \in Actions : b # a => wf'[b].state = wf[b].state
BY DEF StoreTypeOK, WorkflowRows, wf_transition

\* Nothing moves back before the intent.
LEMMA EarlyMoves ==
  ASSUME NEW s \in WorkflowStates, NEW t \in before_intent, workflow_may_move(s, t)
  PROVE  s \in before_intent
BY DEF workflow_may_move, ALLOWED_WORKFLOW_TRANSITIONS, TERMINAL_WORKFLOW_STATES, before_intent,
       WorkflowStates

\* No workflow is moved back to having none.
LEMMA NoMoveToNone ==
  ASSUME NEW s \in WorkflowStates
  PROVE  ~ workflow_may_move(s, "none")
BY DEF workflow_may_move, ALLOWED_WORKFLOW_TRANSITIONS, TERMINAL_WORKFLOW_STATES, WorkflowStates

\* The state of every workflow is left alone; claims may change hands.
WorkflowsKept == \A b \in Actions : wf'[b].state = wf[b].state

\* Claims.
LEMMA ClaimsEffect ==
  ASSUME StoreTypeOK, NEW p \in Procs, NEW a \in Actions,
         leak_claim(p) \/ release_claim(p, a) \/ claim(p, a) \/ UNCHANGED wf \/ ExpireLease(a)
  PROVE  WorkflowsKept
<1>1. wf \in [Actions -> WorkflowRows]
  BY DEF StoreTypeOK
<1>2. CASE leak_claim(p)
  BY <1>1, <1>2 DEF WorkflowsKept, leak_claim, WorkflowRows
<1>3. ASSUME NEW x, NEW y, wf' = [wf EXCEPT ![a].owner = x, ![a].lapsed = y]
      PROVE  WorkflowsKept
  BY <1>1, <1>3 DEF WorkflowsKept, WorkflowRows
<1>4. ASSUME NEW y, wf' = [wf EXCEPT ![a].lapsed = y] PROVE WorkflowsKept
  BY <1>1, <1>4 DEF WorkflowsKept, WorkflowRows
<1>5. UNCHANGED wf => WorkflowsKept
  BY DEF WorkflowsKept
<1> QED
  BY <1>2, <1>3, <1>4, <1>5 DEF release_claim, claim, ExpireLease

\* One workflow is moved to a state that fits its intent.
WorkflowMoves ==
  /\ \E a \in Actions :
       /\ Fits(wf'[a].state, intent[a].state)
       /\ \A b \in Actions : b # a => wf'[b].state = wf[b].state
  /\ UNCHANGED intent

WorkflowMove == WorkflowsKept \/ WorkflowMoves \/ Creation

\* A move to a state after the intent, before the end.
LEMMA MovesBetween ==
  ASSUME StoreTypeOK, NEW a \in Actions, NEW t, wf_transition(a, t), UNCHANGED intent,
         t \notin before_intent \cup { "none", "blocked", "terminal" }
  PROVE  WorkflowMove
BY WorkflowEffect DEF WorkflowMove, WorkflowMoves, Fits

\* A move before the intent.
LEMMA MovesBefore ==
  ASSUME StoreTypeOK, WorkflowFits, NEW a \in Actions, NEW t \in before_intent,
         wf_transition(a, t), UNCHANGED intent
  PROVE  WorkflowMove
<1>1. wf[a].state \in before_intent
  BY WorkflowEffect, EarlyMoves
<1>2. intent[a].state = "none"
  BY <1>1 DEF WorkflowFits, Fits
<1> QED
  BY <1>2, WorkflowEffect DEF WorkflowMove, WorkflowMoves, Fits

\* A move that closes.
LEMMA MovesLast ==
  ASSUME StoreTypeOK, NEW a \in Actions, NEW t \in { "blocked", "terminal" },
         wf_transition(a, t), UNCHANGED intent,
         intent[a].state \in TERMINAL_STATES \cup {"none"}
  PROVE  WorkflowMove
<1>1. t \notin before_intent \cup {"none"}
  BY DEF before_intent
<1> QED
  BY <1>1, WorkflowEffect DEF WorkflowMove, WorkflowMoves, Fits

\* Whatever moves a workflow or an intent keeps them together: an intent is
\* made with its link, and one that is settled stays settled.
LEMMA FitsNext ==
  ASSUME StoreTypeOK, WorkflowFits, BooksMove, WorkflowMove
  PROVE  WorkflowFits'
<1>1. ASSUME NEW a \in Actions, NEW t, intent[a].state # "none",
             validate_transition(intent[a].state, t), intent'[a].state = t,
             \A b \in Actions : b # a => RowKept(b), WorkflowsKept
      PROVE  WorkflowFits'
  <2>1. /\ intent[a].state \in OrderStates \cup {"none"}
        /\ intent[a].state \in TERMINAL_STATES => t = intent[a].state
    BY <1>1, TransitionTable DEF StoreTypeOK, IntentRows
  <2> QED
    BY <1>1, <2>1 DEF WorkflowFits, Fits, WorkflowsKept, RowKept
<1>2. CASE Creation
  <2>1. PICK p \in Procs, a \in Actions : create_intent(p, a)
    BY <1>2 DEF Creation
  <2>2. wf'[a].state = "intent_created" /\ \A b \in Actions : b # a => wf'[b] = wf[b]
    BY <2>1 DEF create_intent, StoreTypeOK, WorkflowRows
  <2>3. \A b \in Actions : b # a => RowKept(b)
    BY <2>1, CreationEffect
  <2> QED
    BY <2>2, <2>3 DEF WorkflowFits, Fits, RowKept, before_intent
<1>3. CASE WorkflowMoves
  BY <1>3 DEF WorkflowMoves, WorkflowFits
<1>4. CASE WorkflowsKept /\ BooksKept
  BY <1>4 DEF WorkflowFits, WorkflowsKept, BooksKept
<1>5. CASE WorkflowsKept /\ Transition
  BY <1>1, <1>5, TransitionEffect DEF Transition
<1>6. CASE WorkflowsKept /\ Booking
  <2>1. PICK a \in Actions : \E c, s, src : record_fill(a, c, s, src)
    BY <1>6 DEF Booking
  <2>2. intent[a].state # "none"
    BY <2>1 DEF record_fill
  <2>3. \A b \in Actions : b # a => RowKept(b)
    BY <2>1, FillEffect
  <2>4. CASE RowKept(a)
    BY <1>6, <2>3, <2>4 DEF WorkflowFits, WorkflowsKept, RowKept
  <2>5. CASE ~ RowKept(a)
    BY <1>1, <1>6, <2>1, <2>2, <2>3, <2>5, FillEffect
  <2> QED
    BY <2>4, <2>5
<1> QED
  BY <1>2, <1>3, <1>4, <1>5, <1>6 DEF BooksMove, WorkflowMove

\* The live caller closes a workflow only before its intent is made.
LEMMA LiveWorkflow ==
  ASSUME TypeOK, Located, CloseInv, NEW p \in Procs, LiveStep(p)
  PROVE  WorkflowMove
<1>1. StoreTypeOK /\ WorkflowFits
  BY DEF TypeOK, CloseInv
<1>2. UNCHANGED wf => WorkflowMove
  BY DEF WorkflowMove, WorkflowsKept
<1>3. proc[p].pc \in LivePCs \cup { "returned" } => Act(p) \in Actions
  BY Working DEF LivePCs, PassPCs
<1>4. ASSUME NEW a \in Actions, AcceptApproval(p, a) PROVE WorkflowMove
  <2>1. /\ wf'[a].state = "target_resolved"
        /\ \A b \in Actions : b # a => wf'[b].state = wf[b].state
        /\ UNCHANGED intent /\ wf[a].state \in { "none", "target_resolved" }
    BY <1>1, <1>4 DEF AcceptApproval, StoreTypeOK, WorkflowRows
  <2>2. intent[a].state = "none"
    BY <1>1, <2>1 DEF WorkflowFits, Fits, before_intent
  <2> QED
    BY <2>1, <2>2 DEF WorkflowMove, WorkflowMoves, Fits
<1>5. CASE BeginValidation(p)
  <2>1. Act(p) \in Actions /\ UNCHANGED intent
    BY <1>3, <1>5 DEF BeginValidation, At, LivePCs
  <2> QED
    BY <1>1, <1>2, <1>5, <2>1, MovesBefore DEF BeginValidation, before_intent
<1>6. CASE RefuseApproval(p)
  <2>1. Act(p) \in Actions /\ UNCHANGED intent
    BY <1>3, <1>6 DEF RefuseApproval, At, LivePCs
  <2>2. wf[Act(p)].state \in { "target_resolved", "validating" }
    BY <1>6 DEF RefuseApproval, CloseInv, Concluding
  <2>3. intent[Act(p)].state = "none"
    BY <1>1, <2>1, <2>2 DEF WorkflowFits, Fits, before_intent
  <2> QED
    BY <1>1, <1>2, <1>6, <2>1, <2>3, MovesLast DEF RefuseApproval
<1>7. CASE SettleWorkflow(p)
  <2>1. Act(p) \in Actions /\ UNCHANGED intent
    BY <1>3, <1>7 DEF SettleWorkflow, At
  <2> DEFINE s == wf[Act(p)].state
  <2>2. PICK t \in settled_workflow(s, proc[p].res) : wf' = [wf EXCEPT ![Act(p)].state = t]
    BY <1>7 DEF SettleWorkflow
  <2>3. /\ wf'[Act(p)].state = t
        /\ \A b \in Actions : b # Act(p) => wf'[b].state = wf[b].state
    BY <1>1, <2>1, <2>2 DEF StoreTypeOK, WorkflowRows
  <2>4. \/ t = s
        \/ t \in { "submitted", "unknown" }
        \/ t = "blocked" /\ s \in { "validating", "approved_pending_intent" }
    BY <2>2 DEF settled_workflow
  <2>5. Fits(t, intent[Act(p)].state)
    BY <1>1, <2>1, <2>4 DEF WorkflowFits, Fits, before_intent
  <2> QED
    BY <2>1, <2>3, <2>5 DEF WorkflowMove, WorkflowMoves
<1> QED
  BY <1>2, <1>4, <1>5, <1>6, <1>7
  DEF LiveStep, ConsumeApproval, FinalRevalidation, CloseProposal, storeVars

\* Executor.execute closes a workflow only after it has rejected the intent.
LEMMA ExecuteWorkflow ==
  ASSUME TypeOK, Located, CloseInv, NEW p \in Procs, ExecuteStep(p)
  PROVE  WorkflowMove
<1>1. StoreTypeOK /\ WorkflowFits /\ Act(p) \in Actions
  BY ExecuteWorks DEF TypeOK, CloseInv
<1>2. UNCHANGED wf => WorkflowMove
  BY DEF WorkflowMove, WorkflowsKept
<1>3. CASE CreateIntent(p)
  BY <1>1, <1>3 DEF CreateIntent, WorkflowMove, Creation
<1>4. CASE GetIntent(p)
  BY <1>2, <1>4 DEF GetIntent, get_intent_again
<1>5. CASE PersistValidation(p)
  BY <1>1, <1>2, <1>5, MovesBefore DEF PersistValidation, before_intent
<1>6. CASE MarkPending(p) \/ StartWorkflow(p)
  BY <1>1, <1>2, <1>6, MovesBetween DEF MarkPending, StartWorkflow, before_intent
<1>7. CASE CloseRejectedWorkflow(p)
  <2>1. intent[Act(p)].state \in TERMINAL_STATES
    BY <1>7 DEF CloseRejectedWorkflow, At, CloseInv, Concluding
  <2> QED
    BY <1>1, <1>2, <1>7, <2>1, MovesLast DEF CloseRejectedWorkflow
<1>8. CASE Acknowledge(p)
  <2>1. proc[p].res \in { "submitted", "unknown" }
    BY <1>8 DEF Acknowledge, At, CloseInv, Concluding
  <2> QED
    BY <1>1, <1>2, <1>8, <2>1, MovesBetween DEF Acknowledge, before_intent
<1> QED
  BY <1>2, <1>3, <1>4, <1>5, <1>6, <1>7, <1>8
  DEF ExecuteStep, LoadAuthority, BrokerMissing, IntentRefused, StartSubmission, VerifySnapshot,
      ReadBack, MarkInvocation, RejectBeforeBroker, CallBroker, AdapterRefuses, BrokerAnswers,
      AnswerLost, BookResponse, BookIncompleteFill, LocalUpdateFails, MarkUnknown, ClearMark,
      RejectRefused, ExecuteRaises, storeVars

\* Recovery closes a workflow whose intent was never made, has been settled,
\* or was settled by recovery itself.
LEMMA RecoveryWorkflow ==
  ASSUME TypeOK, Located, HandInv, CloseInv, NEW p \in Procs, RecoveryStep(p)
  PROVE  WorkflowMove
<1>1. StoreTypeOK /\ WorkflowFits /\ Act(p) \in Actions
  BY RecoveryWorks DEF TypeOK, CloseInv
<1>2. UNCHANGED wf => WorkflowMove
  BY DEF WorkflowMove, WorkflowsKept
<1>3. Finish(p) /\ leak_claim(p) => WorkflowMove
  BY <1>1, ClaimsEffect DEF WorkflowMove
<1>4. ASSUME NEW t, NEW l, owned_move(p, t, l), UNCHANGED intent,
             t \notin before_intent \cup { "none", "blocked", "terminal" }
      PROVE  WorkflowMove
  BY <1>1, <1>2, <1>4, MovesBetween DEF owned_move, owned_transition
<1>5. ASSUME NEW l, owned_move(p, "terminal", l), UNCHANGED intent,
             intent[Act(p)].state \in TERMINAL_STATES \cup {"none"}
      PROVE  WorkflowMove
  BY <1>1, <1>2, <1>5, MovesLast DEF owned_move, owned_transition
<1>6. ASSUME NEW s, NEW t, NEW l, expected_or_abandon(p, s, t, l) PROVE WorkflowMove
  BY <1>2, <1>3, <1>6 DEF expected_or_abandon, Abandon
<1>7. proc[p].pc \in { "examined", "reconstruct" } => Row(p).state = intent[Act(p)].state
  BY DEF HandInv, Fresh, DecidingPCs
<1>8. CASE LinkExisting(p) \/ Repend(p)
  BY <1>1, <1>2, <1>8, MovesBetween DEF LinkExisting, Repend, owned_transition, before_intent
<1>9. CASE AdvanceValidation(p)
  <2>1. next_validation_state(Seen(p)) \in before_intent
    BY DEF next_validation_state, before_intent
  <2> QED
    BY <1>1, <1>2, <1>9, <2>1, MovesBefore DEF AdvanceValidation, owned_transition
<1>10. CASE ResumeValidation(p) \/ DeclineIntent(p)
  <2>1. intent[Act(p)].state = "none" /\ UNCHANGED intent
    BY <1>7, <1>10 DEF ResumeValidation, unvalidated, DeclineIntent, pending_intent, At
  <2>2. \/ UNCHANGED wf
        \/ owned_move(p, "terminal", "release")
        \/ owned_move(p, "manual_review", "release")
    BY <1>10 DEF ResumeValidation, DeclineIntent
  <2> QED
    BY <1>2, <1>4, <1>5, <2>1, <2>2 DEF before_intent
<1>11. CASE EnsureIntent(p)
  BY <1>1, <1>2, <1>11 DEF EnsureIntent, WorkflowMove, Creation
<1>12. CASE \/ MarkLinked(p) \/ SuppressSubmission(p) \/ ResumeSubmission(p)
            \/ LookupUnavailable(p)
  BY <1>2, <1>4, <1>12
  DEF MarkLinked, SuppressSubmission, ResumeSubmission, LookupUnavailable, conclude, before_intent
<1>13. CASE ResumeLinked(p)
  BY <1>4, <1>6, <1>13 DEF ResumeLinked, before_intent
<1>14. CASE Reconstruct(p)
  <2>1. Row(p).state = intent[Act(p)].state /\ UNCHANGED intent
    BY <1>7, <1>14 DEF Reconstruct, At
  <2> QED
    BY <1>4, <1>5, <1>14, <2>1 DEF Reconstruct, before_intent
<1>15. CASE CloseExpired(p)
  BY <1>5, <1>15 DEF CloseExpired, At, CloseInv, Concluding
<1>16. CASE RecordOutcome(p)
  <2>1. proc[p].res \in Results /\ UNCHANGED intent
    BY <1>16 DEF RecordOutcome, TypeOK, ProcTypeOK, ProcRows
  <2>2. proc[p].res = "blocked" => intent[Act(p)].state \in TERMINAL_STATES
    BY <1>16 DEF RecordOutcome, At, CloseInv, Concluding
  <2>3. CASE proc[p].res = "none"
    <3>1. ~ wf_transition(Act(p), "none")
      BY <1>1, WorkflowEffect, NoMoveToNone
    <3>2. outcome_state(proc[p].res) = "none"
      BY <2>3 DEF outcome_state
    <3> QED
      BY <1>2, <1>16, <3>1, <3>2 DEF RecordOutcome, owned_move, owned_transition
  <2> QED
    BY <1>4, <1>5, <1>16, <2>1, <2>2, <2>3
    DEF RecordOutcome, outcome_state, Results, before_intent
<1>17. CASE ConcludeLookup(p)
  BY <1>2, <1>4, <1>5, <1>17 DEF ConcludeLookup, conclude, lookup_outcome, before_intent
<1>18. CASE Release(p)
  BY <1>1, <1>18, ClaimsEffect DEF Release, WorkflowMove
<1>19. CASE \/ ProveUnsent(p) \/ ExpireSubmission(p) \/ DeferSubmission(p)
            \/ EnsureIntentRaises(p) \/ ClassifyFailure(p)
  BY <1>2, <1>3, <1>6, <1>19
  DEF ProveUnsent, ExpireSubmission, DeferSubmission, EnsureIntentRaises, ClassifyFailure,
      Abandon, storeVars
<1> QED
  BY <1>2, <1>8, <1>9, <1>10, <1>11, <1>12, <1>13, <1>14, <1>15, <1>16, <1>17, <1>18, <1>19
  DEF RecoveryStep, ReadIntent, RunSubmitter, RecoverReturned, CallbackFailed, LookupOnly,
      storeVars

\* Every step moves workflows as their intents allow.
LEMMA NextWorkflow ==
  ASSUME IInv, HandInv, CloseInv, [Next]_allVars
  PROVE  WorkflowMove
<1>1. TypeOK /\ Located /\ StoreTypeOK
  BY DEF IInv, TypeOK
<1>2. UNCHANGED wf => WorkflowMove
  BY DEF WorkflowMove, WorkflowsKept
<1>3. ASSUME NEW p \in Procs, leak_claim(p) PROVE WorkflowMove
  BY <1>1, <1>3, ActionsAssumption
  DEF leak_claim, WorkflowMove, WorkflowsKept, StoreTypeOK, WorkflowRows
<1>4. ASSUME NEW p \in Procs, PassStep(p) PROVE WorkflowMove
  BY <1>2, <1>3, <1>4
  DEF PassStep, EndPass, LookupFails, LookupAnswers, RecordAbsence, ConcludeAbsence,
      AbsenceRaises, RecordFound, ApplyFill, ApplyFillRaises, RequireEvidence, ApplyStatus,
      ApplyStatusRaises, pass_raises, storeVars
<1>5. ASSUME NEW p \in Procs, NEW a \in Actions, ClaimWorkflow(p, a) PROVE WorkflowMove
  BY <1>1, <1>5, ClaimsEffect DEF ClaimWorkflow, WorkflowMove
<1>6. ASSUME NEW p \in Procs, ProcStep(p) PROVE WorkflowMove
  BY <1>1, <1>2, <1>4, <1>5, <1>6, LiveWorkflow, ExecuteWorkflow, RecoveryWorkflow
  DEF ProcStep, StartCycle, storeVars
<1>7. ASSUME NEW p \in Procs, Crash(p) PROVE WorkflowMove
  BY <1>3, <1>7 DEF Crash
<1>8. ASSUME NEW a \in Actions, Environment(a) PROVE WorkflowMove
  <2>1. CASE ExpireLease(a)
    BY <1>1, <2>1 DEF ExpireLease, WorkflowMove, WorkflowsKept, StoreTypeOK, WorkflowRows
  <2> QED
    BY <1>2, <1>8, <2>1 DEF Environment, ExpireProposal, storeVars
<1> QED
  BY <1>2, <1>6, <1>7, <1>8 DEF Next, allVars, vars, storeVars

\* Everything else a process does on the way.
LEMMA ExecuteConcludes ==
  ASSUME TypeOK, Located, OneProcess, CloseInv, NEW p \in Procs, ExecuteStep(p)
  PROVE  Concluding'
<1>1. Act(p) \in Actions /\ StoreTypeOK
  BY ExecuteWorks DEF TypeOK
<1>2. ASSUME Onto(p, ResumingPCs \cup { "returned" }), proc[p].pc \in ResumingPCs,
             proc[p].kind = "recover" /\ proc'[p].pc # "idle" =>
               intent'[Act(p)].state = intent[Act(p)].state
      PROVE  Concluding'
  BY <1>2 DEF OneProcess, CloseInv, Concluding, Onto, Act, At, ResumingPCs
<1>3. CASE \/ LoadAuthority(p) \/ PersistValidation(p) \/ IntentRefused(p) \/ MarkPending(p)
  <2>1. Onto(p, ResumingPCs \cup { "returned" })
    BY <1>1, <1>3, ExecuteLocals DEF Onto, ResumingPCs
  <2>2. UNCHANGED intent /\ proc[p].pc \in ResumingPCs
    BY <1>3
    DEF LoadAuthority, PersistValidation, IntentRefused, MarkPending, storeVars, At, ResumingPCs
  <2> QED
    BY <1>2, <2>1, <2>2
<1>4. CASE BrokerMissing(p)
  <2>1. Onto(p, { "returned" }) /\ proc[p].kind = "live"
    BY <1>1, <1>4, ExecuteLocals DEF BrokerMissing
  <2> QED
    BY <2>1 DEF OneProcess, Concluding, Onto, At, ResumingPCs
<1>5. CASE CreateIntent(p)
  <2>1. Onto(p, { "pending" }) /\ intent'[Act(p)].state = "reserved"
    BY <1>1, <1>5, ExecuteLocals, CreationEffect DEF CreateIntent
  <2> QED
    BY <2>1 DEF OneProcess, Concluding, Onto, Act, At, ResumingPCs, PRE_SUBMISSION_STATES
<1>6. CASE GetIntent(p)
  <2>1. RowsKept
    BY <1>1, <1>6, DetailEffect DEF GetIntent, get_intent_again
  <2>2. Onto(p, ResumingPCs \cup { "returned" }) /\ proc[p].pc \in ResumingPCs
    BY <1>1, <1>6, ExecuteLocals DEF Onto, ResumingPCs, GetIntent, At
  <2> QED
    BY <1>1, <1>2, <2>1, <2>2 DEF RowsKept, RowKept
<1>7. CASE StartSubmission(p)
  <2>1. Onto(p, {"starting", "returned"}) /\ proc[p].pc \in ResumingPCs
    BY <1>1, <1>7, ExecuteLocals DEF StartSubmission, At, ResumingPCs
  <2>2. CASE proc'[p].pc = "returned"
    <3>1. UNCHANGED intent
      BY <1>7, <2>2, GotoLocals DEF StartSubmission, TypeOK
    <3> QED
      BY <1>2, <2>1, <2>2, <3>1 DEF Onto
  <2>3. CASE proc'[p].pc # "returned"
    BY <2>1, <2>3, NothingConcluded DEF Onto, PlainPCs, PCs, ResumingPCs, ExecutorPCs
  <2> QED
    BY <2>2, <2>3
<1>8. CASE RejectBeforeBroker(p) \/ RejectRefused(p)
  <2>1. Onto(p, { "rejectWorkflow" }) /\ transition(Act(p), "rejected")
    BY <1>1, <1>8, ExecuteLocals DEF RejectBeforeBroker, RejectRefused, transition_from
  <2>2. intent'[Act(p)].state \in TERMINAL_STATES
    BY <1>1, <2>1, TransitionEffect DEF TERMINAL_STATES
  <2> QED
    BY <2>1, <2>2 DEF OneProcess, Concluding, Onto, Act, At, ResumingPCs
<1>9. CASE CloseRejectedWorkflow(p)
  <2>1. /\ Onto(p, { "returned" }) /\ UNCHANGED intent
        /\ intent[Act(p)].state \in TERMINAL_STATES
    BY <1>1, <1>9, ExecuteLocals DEF CloseRejectedWorkflow, At, CloseInv, Concluding
  <2> QED
    BY <2>1 DEF OneProcess, Concluding, Onto, Act, At, ResumingPCs
<1>10. CASE BookResponse(p) \/ BookIncompleteFill(p) \/ MarkUnknown(p)
  <2>1. Onto(p, { "acknowledge" }) /\ proc'[p].res \in { "submitted", "unknown" }
    BY <1>1, <1>10, ExecuteLocals
  <2> QED
    BY <2>1 DEF OneProcess, Concluding, Onto, At, ResumingPCs
<1>11. CASE Acknowledge(p)
  <2>1. Onto(p, { "returned" }) /\ proc'[p].res \in { "submitted", "unknown" }
    BY <1>1, <1>11, ExecuteLocals DEF Acknowledge, At, CloseInv, Concluding
  <2> QED
    BY <2>1 DEF OneProcess, Concluding, Onto, At, ResumingPCs
<1>12. CASE \/ StartWorkflow(p) \/ VerifySnapshot(p) \/ ReadBack(p) \/ MarkInvocation(p)
            \/ CallBroker(p) \/ AdapterRefuses(p) \/ BrokerAnswers(p) \/ AnswerLost(p)
            \/ LocalUpdateFails(p) \/ ClearMark(p) \/ ExecuteRaises(p)
  <2>1. Onto(p, { "verify", "reread", "rejecting", "mark", "marked", "waiting", "refused",
                  "answered", "ambiguous", "refusing", "failed" })
    BY <1>1, <1>12, ExecuteLocals DEF Onto
  <2> QED
    BY <2>1, NothingConcluded
    DEF Onto, PlainPCs, PCs, ResumingPCs, ExecutorPCs, RecoveryPCs
<1> QED
  BY <1>3, <1>4, <1>5, <1>6, <1>7, <1>8, <1>9, <1>10, <1>11, <1>12 DEF ExecuteStep

\* The live caller accepts what it has itself brought to the state it needs.
LEMMA LiveConcludes ==
  ASSUME TypeOK, Located, OneProcess, CloseInv, NEW p \in Procs, LiveStep(p)
  PROVE  Concluding'
<1>1. StoreTypeOK /\ ProcTypeOK
  BY DEF TypeOK
<1>2. ASSUME NEW a \in Actions, AcceptApproval(p, a) PROVE Concluding'
  <2>1. proc'[p].pc = "accepted" /\ proc'[p].act = a /\ proc'[p].kind = "live"
    BY <1>1, <1>2 DEF AcceptApproval, ProcTypeOK, ProcRows
  <2>2. wf'[a].state = "target_resolved"
    BY <1>1, <1>2 DEF AcceptApproval, StoreTypeOK, WorkflowRows
  <2> QED
    BY <2>1, <2>2 DEF OneProcess, Concluding, Act, At, ResumingPCs
<1>3. CASE BeginValidation(p)
  <2>1. Onto(p, { "consuming" }) /\ proc[p].kind # "recover" /\ Act(p) \in Actions
    BY <1>3, LiveLocals, Working DEF BeginValidation, At, CloseInv, Concluding, PassPCs
  <2>2. proc'[p].pc = "consuming" => wf'[Act(p)].state = "validating"
    BY <1>1, <1>3, <2>1, WorkflowEffect, FinishLocals DEF BeginValidation
  <2> QED
    BY <2>1, <2>2 DEF OneProcess, Concluding, Onto, Act, At, ResumingPCs
<1>4. CASE ConsumeApproval(p) \/ FinalRevalidation(p)
  <2>1. Onto(p, { "revalidating", "authority", "returned" }) /\ proc[p].kind # "recover"
    BY <1>4, LiveLocals
    DEF ConsumeApproval, FinalRevalidation, At, Onto, CloseInv, Concluding
  <2> QED
    BY <2>1 DEF OneProcess, Concluding, Onto, At, ResumingPCs
<1>5. CASE RefuseApproval(p) \/ SettleWorkflow(p) \/ CloseProposal(p)
  <2>1. proc'[p].pc \in { "idle", "closing" }
    BY <1>5, LiveLocals DEF Onto
  <2> QED
    BY <2>1, NothingConcluded DEF PlainPCs, PCs, LivePCs, ResumingPCs
<1> QED
  BY <1>2, <1>3, <1>4, <1>5 DEF LiveStep

\* Recovery submits from a row that was read before submission, and expires
\* it before it calls it blocked.
LEMMA RecoveryConcludes ==
  ASSUME TypeOK, Located, OneProcess, HandInv, CloseInv, NEW p \in Procs, RecoveryStep(p)
  PROVE  Concluding'
<1>1. StoreTypeOK /\ ProcTypeOK /\ Act(p) \in Actions
  BY RecoveryWorks DEF TypeOK
<1>2. CASE ExpireSubmission(p)
  <2>1. Onto(p, { "expire" })
    BY <1>1, <1>2, RecoveryLocals
  <2>2. proc'[p].pc = "expire" => intent'[Act(p)].state = "expired"
    BY <1>1, <1>2, FinishLocals, TransitionEffect
    DEF ExpireSubmission, expected_or_abandon, Abandon, transition_from
  <2> QED
    BY <2>1, <2>2 DEF OneProcess, Concluding, Onto, Act, At, ResumingPCs, TERMINAL_STATES
<1>3. CASE ResumeSubmission(p)
  <2>1. Onto(p, { "submitter", "release" }) /\ UNCHANGED intent
    BY <1>1, <1>3, RecoveryLocals DEF ResumeSubmission
  <2>2. intent[Act(p)].state \in PRE_SUBMISSION_STATES
    BY <1>3 DEF ResumeSubmission, pending_submission, At, HandInv, Fresh, DecidingPCs
  <2> QED
    BY <2>1, <2>2 DEF OneProcess, Concluding, Onto, Act, At, ResumingPCs
<1>4. CASE RunSubmitter(p)
  <2>1. /\ Onto(p, { "authority", "returned", "outcome", "failed" }) /\ UNCHANGED intent
        /\ proc'[p].pc = "outcome" => proc'[p].res = "retry"
    BY <1>1, <1>4, RecoveryLocals DEF RunSubmitter, storeVars
  <2>2. proc[p].kind = "recover" => intent[Act(p)].state \in PRE_SUBMISSION_STATES
    BY <1>4 DEF RunSubmitter, At, CloseInv, Concluding, ResumingPCs
  <2> QED
    BY <2>1, <2>2 DEF OneProcess, Concluding, Onto, Act, At, ResumingPCs
<1>5. CASE RecoverReturned(p)
  <2>1. /\ Onto(p, { "outcome", "failed" }) /\ proc'[p].res = proc[p].res
        /\ proc[p].kind = "recover" /\ proc[p].pc = "returned"
    BY <1>1, <1>5, RecoveryLocals DEF RecoverReturned, At
  <2>2. proc'[p].pc = "outcome" /\ proc[p].res = "blocked" =>
          intent'[Act(p)].state \in TERMINAL_STATES
    <3>1. SUFFICES ASSUME proc'[p].pc = "outcome", proc[p].res = "blocked"
                   PROVE  intent'[Act(p)].state \in TERMINAL_STATES
      OBVIOUS
    <3>2. IF intent[Act(p)].state \in PRE_SUBMISSION_STATES
            THEN transition(Act(p), "expired") ELSE UNCHANGED << intent, resv >>
      BY <1>1, <1>5, <3>1, GotoLocals DEF RecoverReturned
    <3>3. intent[Act(p)].state \in PRE_SUBMISSION_STATES \cup TERMINAL_STATES
      BY <2>1, <3>1 DEF At, CloseInv, Concluding
    <3> QED
      BY <1>1, <3>2, <3>3, TransitionEffect DEF TERMINAL_STATES
  <2> QED
    BY <2>1, <2>2 DEF OneProcess, Concluding, Onto, Act, At, ResumingPCs
<1>6. CASE ClassifyFailure(p)
  <2>1. /\ Onto(p, { "outcome" })
        /\ proc'[p].pc = "outcome" => proc'[p].res \in { "unknown", "retry" }
    BY <1>1, <1>6, RecoveryLocals
  <2> QED
    BY <2>1 DEF OneProcess, Concluding, Onto, At, ResumingPCs
<1>7. CASE \/ ReadIntent(p) \/ LinkExisting(p) \/ ProveUnsent(p) \/ Repend(p)
           \/ ResumeValidation(p) \/ AdvanceValidation(p) \/ DeclineIntent(p) \/ EnsureIntent(p)
           \/ EnsureIntentRaises(p) \/ MarkLinked(p) \/ ResumeLinked(p) \/ Reconstruct(p)
           \/ SuppressSubmission(p) \/ CloseExpired(p) \/ DeferSubmission(p)
           \/ CallbackFailed(p) \/ RecordOutcome(p) \/ LookupOnly(p) \/ LookupUnavailable(p)
           \/ ConcludeLookup(p) \/ Release(p)
  <2>1. proc'[p].pc \in { "idle", "examined", "release", "repend", "claimed", "advance", "linked",
                          "reconstruct", "failedMove", "pass" }
    BY <1>1, <1>7, RecoveryLocals DEF Onto
  <2> QED
    BY <2>1, NothingConcluded DEF PlainPCs, PCs, ResumingPCs, RecoveryPCs, PassPCs
<1> QED
  BY <1>2, <1>3, <1>4, <1>5, <1>6, <1>7 DEF RecoveryStep

\* A step that leaves the process alone moves no workflow and no intent.
LEMMA EnvironmentConcludes ==
  ASSUME Concluding, UNCHANGED << intent, proc >>,
         \A p \in Procs : At(p, "accepted") \/ At(p, "consuming") =>
           wf'[Act(p)].state = wf[Act(p)].state
  PROVE  Concluding'
BY DEF Concluding, Act, At

\* Every step keeps what closes.
LEMMA CloseNext ==
  ASSUME IInv, OneProcess, HandInv, CloseInv, [Next]_allVars
  PROVE  CloseInv'
<1>1. TypeOK /\ Located /\ StoreTypeOK /\ ProcTypeOK
  BY DEF IInv, TypeOK
<1>2. WorkflowFits'
  BY <1>1, NextBooks, NextWorkflow, FitsNext DEF CloseInv
<1>3. ASSUME NEW p \in Procs, PassStep(p) PROVE Concluding'
  <2>1. proc'[p].pc \in PassPCs \cup { "idle", "looked", "release" }
    <3>1. CASE \E a \in Actions : LookupAnswers(p, a)
      BY <1>1, <3>1, PassLocals DEF PassPCs
    <3>2. CASE ~ \E a \in Actions : LookupAnswers(p, a)
      BY <1>1, <1>3, <3>2, PassLocals DEF PassStep, Onto, PassPCs
    <3> QED
      BY <3>1, <3>2
  <2> QED
    BY <2>1, NothingConcluded DEF PlainPCs, PCs, PassPCs, ResumingPCs, RecoveryPCs
<1>4. ASSUME NEW p \in Procs, StartCycle(p) PROVE Concluding'
  BY <1>1, <1>4, PassLabels, NothingConcluded
  DEF StartCycle, PlainPCs, PCs, PassPCs, ResumingPCs
<1>5. ASSUME NEW p \in Procs, NEW a \in Actions, ClaimWorkflow(p, a) PROVE Concluding'
  <2>1. proc'[p].pc = "claimed"
    BY <1>1, <1>5 DEF ClaimWorkflow, ProcTypeOK, ProcRows
  <2> QED
    BY <2>1, NothingConcluded DEF PlainPCs, PCs, RecoveryPCs, ResumingPCs
<1>6. ASSUME NEW p \in Procs, ProcStep(p) PROVE Concluding'
  BY <1>1, <1>3, <1>4, <1>5, <1>6, LiveConcludes, ExecuteConcludes, RecoveryConcludes
  DEF ProcStep, CloseInv
<1>7. ASSUME NEW p \in Procs, Crash(p) PROVE Concluding'
  <2>1. proc'[p].pc = "idle"
    BY <1>1, <1>7, FinishLocals DEF Crash
  <2> QED
    BY <2>1, NothingConcluded DEF PlainPCs, PCs, ResumingPCs
<1>8. \A p \in Procs : At(p, "accepted") \/ At(p, "consuming") => Act(p) \in Actions
  BY <1>1, Working DEF At, PassPCs
<1>9. ASSUME NEW a \in Actions, Environment(a) PROVE Concluding'
  <2>1. UNCHANGED << intent, proc >>
    BY <1>9 DEF Environment, ExpireProposal, ExpireLease, storeVars
  <2>2. CASE UNCHANGED wf
    BY <1>8, <2>1, <2>2, EnvironmentConcludes DEF CloseInv
  <2>3. CASE ExpireLease(a)
    <3>1. WorkflowsKept
      BY <1>1, <2>3 DEF ExpireLease, WorkflowsKept, StoreTypeOK, WorkflowRows
    <3> QED
      BY <1>8, <2>1, <3>1, EnvironmentConcludes DEF CloseInv, WorkflowsKept
  <2> QED
    BY <1>9, <2>2, <2>3 DEF Environment, ExpireProposal, storeVars
<1>10. UNCHANGED allVars => Concluding'
  BY EnvironmentConcludes DEF CloseInv, allVars, vars, storeVars
<1>11. Concluding'
  BY <1>6, <1>7, <1>9, <1>10 DEF Next
<1> QED
  BY <1>2, <1>11 DEF CloseInv

\* Nothing has been closed at the start.
LEMMA CloseInit == Init => CloseInv
<1> SUFFICES ASSUME Init PROVE CloseInv
  OBVIOUS
<1>1. WorkflowFits
  BY DEF Init, StoreInit, WorkflowFits, Fits, before_intent
<1>2. Concluding
  BY DEF Init, ProcInit, IdleProc, Concluding, At, ResumingPCs
<1> QED
  BY <1>1, <1>2 DEF CloseInv

\* A workflow is closed only when its intent is settled or was never made,
\* for one process: the live caller closes before the intent is made, execute
\* after it has rejected it, and recovery after it has read a settled row or
\* has expired it itself.
THEOREM OneProcessClosesSettled ==
  ASSUME OneProcess
  PROVE  Spec => []ClosedWorkflowHasNoOpenIntent
<1>1. Init => HandInv /\ CloseInv
  BY HandInit, CloseInit
<1>2. IInv /\ HandInv /\ CloseInv /\ [Next]_allVars => HandInv' /\ CloseInv'
  BY HandNext, CloseNext
<1>3. CloseInv => ClosedWorkflowHasNoOpenIntent
  BY DEF CloseInv, WorkflowFits, Fits, ClosedWorkflowHasNoOpenIntent
<1> QED
  BY <1>1, <1>2, <1>3, IInvHolds, PTL DEF Spec

=============================================================================
