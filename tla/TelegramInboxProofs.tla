------------------------ MODULE TelegramInboxProofs ------------------------
(***************************************************************************)
(* Theorems about TelegramInbox, for any number of updates, proposals and  *)
(* batches and any number of polls that end in an exception: the cursor    *)
(* never passes an update that was not handled to its end, an update       *)
(* counts as handled only when its approval is represented, an answer acts *)
(* on the proposal its workflow was opened for, and what was consumed      *)
(* stays consumed.                                                         *)
(*                                                                         *)
(* The inductive invariant rests on two habits of the poll: it fetches     *)
(* everything past the cursor, so what it holds has no gap, and it works   *)
(* on an update whose inbox row it has written.  A workflow that was       *)
(* resolved and not validated belongs to the answer in hand or to an       *)
(* answer that has become too old to act.                                  *)
(***************************************************************************)
EXTENDS TelegramInbox, SetTheorems

\* Telegram numbers what the operator sends.
SentInOrder ==
  \A u \in Updates : sent[u] # "none" => \A v \in Updates : v <= u => sent[v] # "none"

StaleIsSent == \A u \in stale : sent[u] # "none"

\* The places between two updates, and the end of a poll.
Ending == { "notify", "complete", "confirm" }
Answering == { "resolved", "acked", "execute" }

\* A poll holds everything past the cursor, up to some update.
FetchedWhole ==
  /\ pc = "idle" => fetched = {}
  /\ pc \in { "complete", "confirm" } => fetched # {}
  /\ todo \subseteq fetched
  /\ \A u \in fetched :
       /\ sent[u] # "none"
       /\ \A v \in Updates : confirmed < v /\ v <= u => v \in fetched

\* The inbox has a row of what the poll has come to, and the update in hand is
\* not processed yet.
InboxFollows ==
  /\ \A u \in fetched \ todo : inbox[u] # "none"
  /\ cur # 0 => cur \in fetched /\ inbox[cur] = "received"
  /\ pc \in Ending \cup { "idle" } => cur = 0 /\ todo = {}
  /\ pc \in Answering => cur # 0

\* A resolved workflow is in hand, or its answer too old to take it up again.
ResolvedInHand ==
  \A u \in Updates : wf[u].state = "target_resolved" =>
    u \in stale \/ (pc = "resolved" /\ cur = u)

\* The proposal in hand is the one of the workflow.
RowsResolved ==
  (pc = "resolved" /\ wf[cur].state = "target_resolved") \/ pc = "acked" =>
    rows = { wf[cur].p }

IInv ==
  /\ TypeOK /\ SentInOrder /\ StaleIsSent /\ FetchedWhole /\ InboxFollows
  /\ ResolvedInHand /\ RowsResolved /\ CursorHidesNothing /\ ProcessedIsRepresented

(***************************************************************************)
(* How a poll goes on.                                                     *)
(***************************************************************************)

\* A step of the poll between the reading of an update and the next: it works
\* on the workflow of the update in hand only, and goes on or ends the poll.
Moves ==
  \/ pc' = "idle" /\ cur' = 0 /\ todo' = {} /\ fetched' = {}
  \/ /\ pc' \notin Ending \cup { "idle" }
     /\ cur' \in { 0, cur } /\ UNCHANGED << todo, fetched >>
     /\ pc' \in Answering => cur' = cur /\ cur # 0

\* A step that ends, resolves or raises an update without touching the workflows of
\* other updates keeps the invariant.
LEMMA PollMoves ==
  ASSUME IInv, TypeOK', UNCHANGED << sent, stale, confirmed, inbox >>, Moves,
         \A u \in Updates : u # cur \/ cur = 0 => wf'[u] = wf[u],
         \A u \in Updates : wf'[u].state = "target_resolved" =>
           u \in stale \/ (pc' = "resolved" /\ cur' = u),
         RowsResolved'
  PROVE  IInv'
<1>1. SentInOrder' /\ StaleIsSent' /\ CursorHidesNothing'
  BY DEF IInv, SentInOrder, StaleIsSent, CursorHidesNothing
<1>2. FetchedWhole'
  BY DEF IInv, FetchedWhole, Moves, Ending
<1>3. InboxFollows'
  BY DEF IInv, InboxFollows, Moves, Ending, Answering
<1>4. ResolvedInHand'
  BY DEF ResolvedInHand
<1>5. ProcessedIsRepresented'
  <2>1. SUFFICES ASSUME NEW u \in Updates, inbox[u] = "processed" PROVE wf'[u].state \notin Waiting
    BY DEF ProcessedIsRepresented
  <2>2. u # cur \/ cur = 0
    BY <2>1 DEF IInv, InboxFollows
  <2>3. QED
    BY <2>1, <2>2 DEF IInv, ProcessedIsRepresented
<1>6. QED
  BY <1>1, <1>2, <1>3, <1>4, <1>5 DEF IInv

\* Nothing but what is in hand of the poll changes.
LEMMA QuietMoves ==
  ASSUME IInv, TypeOK', UNCHANGED << sent, stale, confirmed, inbox, wf >>, Moves,
         pc \notin { "resolved" }, pc' \notin { "resolved", "acked" }
  PROVE  IInv'
<1>1. \A u \in Updates : wf'[u].state = "target_resolved" => u \in stale
  BY DEF IInv, ResolvedInHand
<1>2. RowsResolved'
  BY DEF RowsResolved
<1>3. QED
  BY <1>1, <1>2, PollMoves

\* The ways to go on.
LEMMA Going ==
  /\ Continue => Moves /\ pc' = "next" /\ rows' = {} /\ UNCHANGED aborts
  /\ Refuse => Moves /\ pc' = "idle" /\ rows' = {} /\ UNCHANGED aborts
  /\ Raise => Moves /\ pc' = "idle" /\ rows' = {} /\ aborts < MaxAborts /\ aborts' = aborts + 1
BY DEF Continue, Refuse, Raise, Moves, Ending, Answering

\* However an update is left, handled, refused or raised, the poll stays typed.
LEMMA RaiseTyped ==
  ASSUME TypeOK, Continue \/ Refuse \/ Raise
  PROVE  /\ pc' \in { "next", "idle" } /\ cur' = 0 /\ todo' \subseteq Updates /\ rows' = {}
         /\ fetched' \subseteq Updates /\ aborts' \in 0..MaxAborts
BY MaxAbortsAssumption DEF TypeOK, Continue, Refuse, Raise

(***************************************************************************)
(* Commands without a workflow.                                            *)
(***************************************************************************)

\* The control of the poll has its type when it goes on in one of these ways.
ControlTyped ==
  /\ pc' \in { "idle", "next", "resolved", "acked", "execute", "candidate",
               "batch_execute", "notify", "complete", "confirm" }
  /\ cur' \in Updates \cup {0} /\ todo' \subseteq Updates
  /\ rows' \subseteq Proposals /\ fetched' \subseteq Updates
  /\ aborts' \in 0..MaxAborts

\* The same as a fact about the variables of control.
LEMMA GoingTyped ==
  ASSUME TypeOK, Continue \/ Refuse \/ Raise
  PROVE  ControlTyped
BY RaiseTyped DEF ControlTyped

\* A control command, or what is only answered.
LEMMA SleepCommandKeeps == IInv /\ SleepCommand => IInv'
<1> SUFFICES ASSUME IInv, SleepCommand PROVE IInv'
  OBVIOUS
<1>1. /\ TypeOK /\ pc = "next" /\ (Continue \/ Raise)
      /\ UNCHANGED << outside, confirmed, inbox, prop, noticed, cand, wf >>
      /\ sleeping' \in BOOLEAN
  BY DEF IInv, SleepCommand, SendThenContinue, Handling, At, TypeOK
<1>2. TypeOK'
  BY <1>1, GoingTyped DEF TypeOK, ControlTyped, outside
<1>3. QED
  BY <1>1, <1>2, Going, QuietMoves DEF outside

\* An update that needs an answer and nothing else.
LEMMA AnswerOnlyKeeps == IInv /\ AnswerOnly => IInv'
<1> SUFFICES ASSUME IInv, AnswerOnly PROVE IInv'
  OBVIOUS
<1>1. /\ TypeOK /\ pc = "next" /\ (Continue \/ Raise)
      /\ UNCHANGED << outside, confirmed, durable >>
  BY DEF IInv, AnswerOnly, SendThenContinue, Handling, At
<1>2. TypeOK'
  BY <1>1, GoingTyped DEF TypeOK, ControlTyped, outside, durable
<1>3. QED
  BY <1>1, <1>2, Going, QuietMoves DEF outside, durable

\* YES ALL and NO ALL.
LEMMA BatchCommandKeeps == IInv /\ BatchCommand => IInv'
<1> SUFFICES ASSUME IInv, BatchCommand PROVE IInv'
  OBVIOUS
<1>1. /\ TypeOK /\ pc = "next"
      /\ \/ pc' = "candidate" /\ rows' = ActiveRows /\ UNCHANGED << cur, todo, fetched, aborts >>
         \/ Raise
      /\ UNCHANGED << outside, confirmed, durable >>
  BY DEF IInv, BatchCommand, Handling, At
<1>2. ControlTyped
  BY <1>1, GoingTyped DEF TypeOK, ControlTyped, ActiveRows, Pending
<1>3. TypeOK'
  BY <1>1, <1>2 DEF TypeOK, ControlTyped, outside, durable
<1>4. Moves /\ pc' \in { "candidate", "idle" }
  BY <1>1, Going DEF Moves, Ending, Answering
<1>5. QED
  BY <1>1, <1>3, <1>4, QuietMoves DEF outside, durable

\* A candidate of the batch is rejected.
LEMMA RejectCandidateKeeps == IInv /\ RejectCandidate => IInv'
<1> SUFFICES ASSUME IInv, RejectCandidate PROVE IInv'
  OBVIOUS
<1>1. TypeOK /\ pc = "candidate"
      /\ UNCHANGED << pc, cur, todo, fetched, aborts, outside, confirmed, inbox, noticed, wf,
                      sleeping >>
  BY DEF IInv, RejectCandidate, At
<1>2. PICK p \in rows : /\ prop' = [prop EXCEPT ![p] = rejected_status(p)]
                        /\ cand' = [cand EXCEPT ![p] = "rejected"]
                        /\ rows' = rows \ {p}
  BY DEF RejectCandidate
<1>3. p \in Proposals /\ rejected_status(p) \in PropStates
  BY <1>1 DEF TypeOK, rejected_status, PropStates
<1>4. TypeOK'
  BY <1>1, <1>2, <1>3 DEF TypeOK, PropStates, outside
<1>5. QED
  BY <1>1, <1>4, QuietMoves DEF outside, Moves, Ending, Answering

\* A candidate of the batch is approved.
LEMMA ApproveCandidateKeeps == IInv /\ ApproveCandidate => IInv'
<1> SUFFICES ASSUME IInv, ApproveCandidate PROVE IInv'
  OBVIOUS
<1>1. TypeOK /\ pc = "candidate" /\ UNCHANGED << outside, confirmed, inbox, noticed, wf, sleeping >>
  BY DEF IInv, ApproveCandidate, At
<1>2. PICK p \in rows :
       \/ /\ prop' = [prop EXCEPT ![p] = "approved"]
          /\ pc' = "batch_execute" /\ rows' = rows
          /\ UNCHANGED << cur, todo, fetched, aborts, cand >>
       \/ /\ rows' = rows \ {p}
          /\ cand' = IF prop[p] = "pending" /\ sleeping THEN cand
                     ELSE [cand EXCEPT ![p] = "concluded"]
          /\ UNCHANGED << pc, cur, todo, fetched, aborts, prop >>
       \/ Raise /\ UNCHANGED << cand, prop >>
  BY DEF ApproveCandidate
<1>3. ControlTyped /\ prop' \in [Proposals -> PropStates] /\ cand' \in [Proposals -> PropStates]
  BY <1>1, <1>2, GoingTyped DEF TypeOK, ControlTyped, PropStates
<1>4. TypeOK'
  BY <1>1, <1>3 DEF TypeOK, ControlTyped, outside
<1>5. Moves /\ pc' \in { "batch_execute", "candidate", "idle" }
  BY <1>1, <1>2, Going DEF Moves, Ending, Answering
<1>6. QED
  BY <1>1, <1>4, <1>5, QuietMoves DEF outside

\* The approved candidate is executed.
LEMMA ExecuteCandidateKeeps == IInv /\ ExecuteCandidate => IInv'
<1> SUFFICES ASSUME IInv, ExecuteCandidate PROVE IInv'
  OBVIOUS
<1>1. TypeOK /\ pc = "batch_execute"
      /\ UNCHANGED << outside, confirmed, inbox, noticed, wf, sleeping >>
  BY DEF IInv, ExecuteCandidate, At
<1>2. PICK p \in rows :
       \/ /\ prop' = [prop EXCEPT ![p] = "concluded"]
          /\ \/ /\ cand' = [cand EXCEPT ![p] = "concluded"]
                /\ pc' = "candidate" /\ rows' = rows \ {p}
                /\ UNCHANGED << cur, todo, fetched, aborts >>
             \/ Raise /\ UNCHANGED cand
       \/ Raise /\ UNCHANGED << prop, cand >>
  BY DEF ExecuteCandidate
<1>3. ControlTyped /\ prop' \in [Proposals -> PropStates] /\ cand' \in [Proposals -> PropStates]
  BY <1>1, <1>2, GoingTyped DEF TypeOK, ControlTyped, PropStates
<1>4. TypeOK'
  BY <1>1, <1>3 DEF TypeOK, ControlTyped, outside
<1>5. Moves /\ pc' \in { "candidate", "idle" }
  BY <1>1, <1>2, Going DEF Moves, Ending, Answering
<1>6. QED
  BY <1>1, <1>4, <1>5, QuietMoves DEF outside

\* The batch has been answered.
LEMMA EndBatchKeeps == IInv /\ EndBatch => IInv'
<1> SUFFICES ASSUME IInv, EndBatch PROVE IInv'
  OBVIOUS
<1>1. TypeOK /\ pc = "candidate" /\ Continue /\ UNCHANGED << outside, confirmed, durable >>
  BY DEF IInv, EndBatch, At
<1>2. TypeOK'
  BY <1>1, GoingTyped DEF TypeOK, ControlTyped, outside, durable
<1>3. QED
  BY <1>1, <1>2, Going, QuietMoves DEF outside, durable

(***************************************************************************)
(* A plain YES or NO.                                                      *)
(***************************************************************************)

\* A workflow has its type in every state.
LEMMA WorkflowTyped ==
  ASSUME TypeOK, NEW u, NEW st \in WfStates
  PROVE  [wf EXCEPT ![u].state = st] \in [Updates -> [p : Proposals \cup {NoProposal}, state : WfStates]]
BY DEF TypeOK

\* The workflow of the answer, new or given back.
LEMMA AcceptApprovalKeeps == IInv /\ AcceptApproval => IInv'
<1> SUFFICES ASSUME IInv, AcceptApproval PROVE IInv'
  OBVIOUS
<1>1. /\ TypeOK /\ pc = "next" /\ cur # 0 /\ cur \in Updates /\ cur \notin stale
      /\ UNCHANGED << outside, confirmed, inbox, prop, noticed, cand, sleeping >>
  BY DEF IInv, AcceptApproval, Handling, At, TypeOK, without_effect
<1>2. PICK p \in Pending :
        \/ SendThenContinue /\ UNCHANGED wf
        \/ /\ wf' = [wf EXCEPT ![cur] = accepted_workflow(cur, p)]
           /\ pc' = "resolved" /\ rows' = {p}
           /\ UNCHANGED << cur, todo, fetched, aborts >>
  BY DEF AcceptApproval
<1>3. CASE SendThenContinue /\ UNCHANGED wf
  <2>1. TypeOK'
    BY <1>1, <1>3, GoingTyped DEF TypeOK, ControlTyped, outside, SendThenContinue
  <2>2. QED
    BY <1>1, <1>3, <2>1, Going, QuietMoves DEF outside, SendThenContinue
<1>4. CASE /\ wf' = [wf EXCEPT ![cur] = accepted_workflow(cur, p)]
           /\ pc' = "resolved" /\ rows' = {p}
           /\ UNCHANGED << cur, todo, fetched, aborts >>
  <2>1. p \in Proposals /\ accepted_workflow(cur, p) \in [p : Proposals \cup {NoProposal}, state : WfStates]
    BY <1>1 DEF TypeOK, accepted_workflow, Pending, WfStates
  <2>2. wf'[cur] = accepted_workflow(cur, p) /\ \A u \in Updates : u # cur => wf'[u] = wf[u]
    BY <1>1, <1>4 DEF TypeOK
  <2>3. TypeOK'
    BY <1>1, <1>4, <2>1 DEF TypeOK, outside
  <2>4. wf[cur].state # "target_resolved"
    BY <1>1 DEF IInv, ResolvedInHand
  <2>5. RowsResolved'
    BY <1>4, <2>2, <2>4 DEF RowsResolved, accepted_workflow
  <2>6. Moves
    BY <1>1, <1>4 DEF Moves, Ending, Answering
  <2>7. \A u \in Updates : wf'[u].state = "target_resolved" => u \in stale \/ (pc' = "resolved" /\ cur' = u)
    BY <1>1, <1>4, <2>2 DEF IInv, ResolvedInHand
  <2>8. QED
    BY <1>1, <2>2, <2>3, <2>5, <2>6, <2>7, PollMoves DEF outside
<1>5. QED
  BY <1>2, <1>3, <1>4

\* Steps that work on the workflow in hand and leave none resolved.
LEMMA WorkMoves ==
  ASSUME IInv, TypeOK', UNCHANGED << sent, stale, confirmed, inbox >>, Moves,
         cur \in Updates, pc = "resolved" \/ wf[cur].state # "target_resolved" \/ wf' = wf,
         \A u \in Updates : u # cur => wf'[u] = wf[u],
         pc = "resolved" => wf'[cur].state # "target_resolved",
         pc # "resolved" /\ wf'[cur].state = "target_resolved" => wf[cur].state = "target_resolved",
         pc' # "resolved",
         pc' = "acked" => rows' = { wf'[cur'].p }
  PROVE  IInv'
<1>1. cur # 0
  BY MaxUpdateAssumption DEF Updates
<1>2. \A u \in Updates : wf'[u].state = "target_resolved" => u \in stale \/ (pc' = "resolved" /\ cur' = u)
  BY DEF IInv, ResolvedInHand
<1>3. RowsResolved'
  BY DEF RowsResolved
<1>4. QED
  BY <1>1, <1>2, <1>3, PollMoves

\* A proposal is rejected by its answer.
LEMMA RejectProposalKeeps == IInv /\ RejectProposal => IInv'
<1> SUFFICES ASSUME IInv, RejectProposal PROVE IInv'
  OBVIOUS
<1>1. /\ TypeOK /\ pc = "resolved" /\ cur \in Updates
      /\ UNCHANGED << outside, confirmed, inbox, noticed, cand, sleeping >>
  BY DEF IInv, RejectProposal, At, TypeOK, InboxFollows, Answering
<1>2. CASE wf[cur].state \in Waiting \cup { "blocked" }
  <2>1. /\ wf' = [wf EXCEPT ![cur].state = "blocked"] /\ (Continue \/ Raise)
        /\ \E p \in rows : prop' = [prop EXCEPT ![p] = rejected_status(p)]
    BY <1>2 DEF RejectProposal, SendThenContinue
  <2>2. wf'[cur].state = "blocked" /\ \A u \in Updates : u # cur => wf'[u] = wf[u]
    BY <1>1, <2>1 DEF TypeOK
  <2>3. prop' \in [Proposals -> PropStates]
    BY <1>1, <2>1 DEF TypeOK, rejected_status, PropStates
  <2>4. TypeOK'
    BY <1>1, <2>1, <2>3, GoingTyped, WorkflowTyped DEF TypeOK, ControlTyped, outside, WfStates
  <2>5. QED
    BY <1>1, <2>1, <2>2, <2>4, Going, WorkMoves DEF outside
<1>3. CASE wf[cur].state \notin Waiting \cup { "blocked" }
  <2>1. Refuse /\ UNCHANGED << wf, prop >>
    BY <1>3 DEF RejectProposal
  <2>2. TypeOK'
    BY <1>1, <2>1, GoingTyped DEF TypeOK, ControlTyped, outside
  <2>3. QED
    BY <1>1, <1>3, <2>1, <2>2, Going, WorkMoves DEF outside, Waiting
<1>4. QED
  BY <1>2, <1>3

\* YES: a resolved workflow is validated, and its proposal is still in hand.
LEMMA ValidateApprovalKeeps == IInv /\ ValidateApproval => IInv'
<1> SUFFICES ASSUME IInv, ValidateApproval PROVE IInv'
  OBVIOUS
<1>1. /\ TypeOK /\ pc = "resolved" /\ cur \in Updates
      /\ UNCHANGED << outside, confirmed, inbox, prop, noticed, cand, sleeping >>
  BY DEF IInv, ValidateApproval, At, TypeOK, InboxFollows, Answering
<1>2. CASE ~ validates(wf[cur])
  <2>1. Refuse /\ UNCHANGED wf /\ wf[cur].state # "target_resolved"
    BY <1>2 DEF ValidateApproval, validates
  <2>2. TypeOK'
    BY <1>1, <2>1, GoingTyped DEF TypeOK, ControlTyped, outside
  <2>3. QED
    BY <1>1, <2>1, <2>2, Going, WorkMoves DEF outside
<1>3. CASE validates(wf[cur])
  <2>1. rows = { wf[cur].p }
    BY <1>1, <1>3 DEF IInv, RowsResolved, validates
  <2>2. PICK st \in { "blocked", "validating" } :
          /\ wf' = [wf EXCEPT ![cur].state = st]
          /\ Continue \/ Raise \/ Goto("acked")
    BY <1>3 DEF ValidateApproval, SendThenGoto
  <2>3. /\ wf'[cur].state = st /\ wf'[cur].p = wf[cur].p
        /\ \A u \in Updates : u # cur => wf'[u] = wf[u]
    BY <1>1, <2>2 DEF TypeOK
  <2>4. ControlTyped /\ Moves /\ pc' \in { "next", "idle", "acked" }
        /\ (pc' = "acked" => cur' = cur /\ rows' = rows)
    <3>1. CASE Continue \/ Raise
      BY <1>1, <3>1, Going, GoingTyped
    <3>2. CASE Goto("acked")
      BY <1>1, <3>2, MaxUpdateAssumption DEF Goto, TypeOK, ControlTyped, Moves, Ending, Answering, Updates
    <3>3. QED
      BY <2>2, <3>1, <3>2
  <2>5. TypeOK'
    BY <1>1, <2>2, <2>4, WorkflowTyped DEF TypeOK, ControlTyped, outside, WfStates
  <2>6. QED
    BY <1>1, <2>1, <2>3, <2>4, <2>5, WorkMoves DEF outside
<1>4. QED
  BY <1>2, <1>3

\* The consumption, or the end of the workflow.
LEMMA ConsumeApprovalKeeps == IInv /\ ConsumeApproval => IInv'
<1> SUFFICES ASSUME IInv, ConsumeApproval PROVE IInv'
  OBVIOUS
<1>1. /\ TypeOK /\ pc = "acked" /\ cur \in Updates /\ cur # 0
      /\ UNCHANGED << outside, confirmed, inbox, noticed, cand, sleeping >>
  BY DEF IInv, ConsumeApproval, At, TypeOK, InboxFollows, Answering
<1>2. CASE /\ \E p \in rows : prop' = [prop EXCEPT ![p] = "approved"]
           /\ Goto("execute") /\ UNCHANGED wf
  <2>1. TypeOK'
    BY <1>1, <1>2 DEF TypeOK, Goto, outside, PropStates
  <2>2. Moves
    BY <1>1, <1>2 DEF Goto, Moves, Ending, Answering
  <2>3. QED
    BY <1>1, <1>2, <2>1, <2>2, QuietMoves DEF outside, Goto
<1>3. CASE /\ wf' = [wf EXCEPT ![cur].state = IF @ \in Waiting THEN "blocked" ELSE @]
           /\ SendThenContinue /\ UNCHANGED prop
  <2> DEFINE st == IF wf[cur].state \in Waiting THEN "blocked" ELSE wf[cur].state
  <2>1. wf' = [wf EXCEPT ![cur].state = st]
    BY <1>3
  <2>2. st \in WfStates /\ st # "target_resolved"
    BY <1>1 DEF TypeOK, WfStates, Waiting
  <2> HIDE DEF st
  <2>3. wf'[cur].state = st /\ \A u \in Updates : u # cur => wf'[u] = wf[u]
    BY <1>1, <2>1 DEF TypeOK
  <2>4. Continue \/ Raise
    BY <1>3 DEF SendThenContinue
  <2>5. TypeOK'
    BY <1>1, <1>3, <2>1, <2>2, <2>4, GoingTyped, WorkflowTyped DEF TypeOK, ControlTyped, outside
  <2>6. \A u \in Updates : wf'[u].state = "target_resolved" => u \in stale
    BY <1>1, <2>2, <2>3 DEF IInv, ResolvedInHand
  <2>7. RowsResolved' /\ Moves
    BY <2>4, Going DEF RowsResolved
  <2>8. QED
    BY <1>1, <2>3, <2>5, <2>6, <2>7, PollMoves DEF outside
<1>4. QED
  BY <1>2, <1>3 DEF ConsumeApproval

\* The executor's answer, or an exception on the way to it.
LEMMA ExecuteApprovalKeeps == IInv /\ ExecuteApproval => IInv'
<1> SUFFICES ASSUME IInv, ExecuteApproval PROVE IInv'
  OBVIOUS
<1>1. /\ TypeOK /\ pc = "execute" /\ cur \in Updates /\ cur # 0
      /\ UNCHANGED << outside, confirmed, inbox, noticed, cand, sleeping >>
  BY DEF IInv, ExecuteApproval, At, TypeOK, InboxFollows, Answering
<1>2. /\ Continue \/ Raise
      /\ wf' = wf \/ wf' = [wf EXCEPT ![cur].state = "represented"]
      /\ prop' = prop \/ \E p \in rows : prop' = [prop EXCEPT ![p] = "concluded"]
  BY DEF ExecuteApproval, SendThenContinue
<1>3. /\ prop' \in [Proposals -> PropStates]
      /\ wf' \in [Updates -> [p : Proposals \cup {NoProposal}, state : WfStates]]
  <2>1. prop' \in [Proposals -> PropStates]
    BY <1>1, <1>2 DEF TypeOK, PropStates
  <2>2. [wf EXCEPT ![cur].state = "represented"] \in
          [Updates -> [p : Proposals \cup {NoProposal}, state : WfStates]]
    BY <1>1, WorkflowTyped DEF WfStates
  <2>3. QED
    BY <1>1, <1>2, <2>1, <2>2 DEF TypeOK
<1>4. TypeOK'
  BY <1>1, <1>2, <1>3, GoingTyped DEF TypeOK, ControlTyped, outside
<1>5. /\ \A u \in Updates : u # cur => wf'[u] = wf[u]
      /\ wf'[cur] = wf[cur] \/ wf'[cur].state = "represented"
  BY <1>1, <1>2 DEF TypeOK
<1>6. \A u \in Updates : wf'[u].state = "target_resolved" => u \in stale
  BY <1>1, <1>5 DEF IInv, ResolvedInHand
<1>7. RowsResolved' /\ Moves
  BY <1>2, Going DEF RowsResolved
<1>8. QED
  BY <1>1, <1>4, <1>5, <1>6, <1>7, PollMoves DEF outside

(***************************************************************************)
(* The frame of a poll.                                                    *)
(***************************************************************************)

\* The first of a poll's updates.
LEMMA FirstUpdate ==
  ASSUME NEW S \in SUBSET Updates, S # {}
  PROVE  Min(S) \in S /\ Min(S) # 0
<1>1. S \in SUBSET (0..MaxUpdate) /\ MaxUpdate \in Nat /\ 0 \notin S
  BY MaxUpdateAssumption DEF Updates
<1>2. QED
  BY <1>1, MinLeast

\* An update of the poll gets its row, or is passed over.
LEMMA IngestKeeps == IInv /\ Ingest => IInv'
<1> SUFFICES ASSUME IInv, Ingest PROVE IInv'
  OBVIOUS
<1> DEFINE u == Min(todo)
<1>1. /\ TypeOK /\ pc = "next" /\ cur = 0 /\ todo # {} /\ todo' = todo \ { u }
      /\ UNCHANGED << pc, rows, fetched, aborts, sent, stale, confirmed, prop, noticed, cand, wf,
                      sleeping >>
      /\ IF inbox[u] = "processed" THEN UNCHANGED << inbox, cur >>
         ELSE inbox' = [inbox EXCEPT ![u] = "received"] /\ cur' = u
  BY DEF IInv, Ingest, At
<1>2. u \in todo /\ u # 0 /\ u \in Updates
  BY <1>1, FirstUpdate DEF TypeOK
<1> HIDE DEF u
<1>3. /\ \A v \in Updates : v # u => inbox'[v] = inbox[v]
      /\ inbox'[u] \in { "received", "processed" }
      /\ inbox[u] = "processed" => inbox' = inbox
  BY <1>1, <1>2 DEF TypeOK
<1>4. TypeOK'
  BY <1>1, <1>2 DEF TypeOK
<1>5. FetchedWhole'
  BY <1>1 DEF IInv, FetchedWhole
<1>6. InboxFollows'
  <2>1. u \in fetched /\ fetched \subseteq Updates
    BY <1>1, <1>2 DEF IInv, FetchedWhole, TypeOK
  <2>2. \A v \in fetched' \ todo' : inbox'[v] # "none"
    BY <1>1, <1>3, <2>1 DEF IInv, InboxFollows
  <2>3. cur' # 0 => cur' \in fetched' /\ inbox'[cur'] = "received"
    BY <1>1, <1>2, <2>1 DEF TypeOK
  <2>4. QED
    BY <1>1, <2>2, <2>3 DEF InboxFollows, Ending, Answering
<1>7. CursorHidesNothing' /\ ProcessedIsRepresented'
  <2>1. \A v \in Updates : inbox'[v] = "processed" => inbox[v] = "processed"
    BY <1>1, <1>2 DEF TypeOK
  <2>2. \A v \in Updates : inbox[v] = "processed" => inbox'[v] = "processed"
    BY <1>3
  <2>3. \A v \in 1..confirmed : v \in Updates
    BY <1>1, MaxUpdateAssumption DEF TypeOK, Updates
  <2>4. QED
    BY <1>1, <2>1, <2>2, <2>3 DEF IInv, CursorHidesNothing, ProcessedIsRepresented
<1>8. SentInOrder' /\ StaleIsSent' /\ ResolvedInHand' /\ RowsResolved'
  BY <1>1 DEF IInv, SentInOrder, StaleIsSent, ResolvedInHand, RowsResolved
<1>9. QED
  BY <1>4, <1>5, <1>6, <1>7, <1>8 DEF IInv

\* The poll goes from one part of its end to the next.
LEMMA EndMoves ==
  ASSUME IInv, TypeOK', UNCHANGED << sent, stale, confirmed, inbox, wf, cur, todo, fetched >>,
         pc # "resolved", cur = 0, todo = {},
         pc' \in { "notify", "idle", "complete" },
         pc' = "idle" => fetched = {}, pc' = "complete" => fetched # {}
  PROVE  IInv'
<1>1. SentInOrder' /\ StaleIsSent' /\ CursorHidesNothing' /\ ProcessedIsRepresented'
  BY DEF IInv, SentInOrder, StaleIsSent, CursorHidesNothing, ProcessedIsRepresented
<1>2. FetchedWhole'
  BY DEF IInv, FetchedWhole
<1>3. InboxFollows'
  BY DEF IInv, InboxFollows, Ending, Answering
<1>4. ResolvedInHand' /\ RowsResolved'
  BY DEF IInv, ResolvedInHand, RowsResolved
<1>5. QED
  BY <1>1, <1>2, <1>3, <1>4 DEF IInv

\* The poll has come to the end of what it fetched.
LEMMA AllHandledKeeps == IInv /\ AllHandled => IInv'
<1> SUFFICES ASSUME IInv, AllHandled PROVE IInv'
  OBVIOUS
<1>1. /\ TypeOK /\ pc = "next" /\ cur = 0 /\ todo = {} /\ Goto("notify")
      /\ UNCHANGED << outside, confirmed, durable >>
  BY DEF IInv, AllHandled, At
<1>2. TypeOK'
  BY <1>1 DEF TypeOK, Goto, outside, durable
<1>3. QED
  BY <1>1, <1>2, EndMoves DEF Goto, outside, durable

\* Expiries are announced.
LEMMA NotifyExpiredKeeps == IInv /\ NotifyExpired => IInv'
<1> SUFFICES ASSUME IInv, NotifyExpired PROVE IInv'
  OBVIOUS
<1>1. /\ TypeOK /\ pc = "notify" /\ cur = 0 /\ todo = {}
      /\ UNCHANGED << outside, confirmed, inbox, prop, cand, wf, sleeping >>
  BY DEF IInv, NotifyExpired, At, InboxFollows, Ending
<1>2. CASE Raise /\ UNCHANGED noticed
  <2>1. TypeOK'
    BY <1>1, <1>2, GoingTyped DEF TypeOK, ControlTyped, outside
  <2>2. QED
    BY <1>1, <1>2, <2>1, Going, QuietMoves DEF outside
<1>3. CASE ~ (Raise /\ UNCHANGED noticed)
  <2>1. /\ UNCHANGED << cur, todo, rows, fetched, aborts >>
        /\ pc' \in { "notify", "idle", "complete" }
        /\ (pc' = "idle" => fetched = {}) /\ (pc' = "complete" => fetched # {})
        /\ noticed' \subseteq Proposals
    BY <1>1, <1>3 DEF NotifyExpired, Goto, TypeOK, unnoticed
  <2>2. TypeOK'
    BY <1>1, <2>1 DEF TypeOK, outside
  <2>3. QED
    BY <1>1, <2>1, <2>2, EndMoves DEF outside
<1>4. QED
  BY <1>2, <1>3

\* What the poll handled to its end is processed.
LEMMA CompleteUpdatesKeeps == IInv /\ CompleteUpdates => IInv'
<1> SUFFICES ASSUME IInv, CompleteUpdates PROVE IInv'
  OBVIOUS
<1>1. /\ TypeOK /\ pc = "complete" /\ cur = 0 /\ todo = {} /\ fetched # {}
      /\ pc' = "confirm" /\ UNCHANGED << cur, todo, rows, fetched, aborts >>
      /\ UNCHANGED << outside, confirmed, prop, noticed, cand, wf, sleeping >>
  BY DEF IInv, CompleteUpdates, At, InboxFollows, Ending, FetchedWhole, Goto
<1>2. \A u \in Updates :
        inbox'[u] = IF u \in fetched /\ may_complete(u) THEN "processed" ELSE inbox[u]
  BY DEF CompleteUpdates
<1>3. TypeOK'
  <2>1. inbox' \in [Updates -> { "none", "received", "processed" }]
    BY <1>1 DEF CompleteUpdates, TypeOK
  <2>2. QED
    BY <1>1, <2>1 DEF TypeOK, outside
<1>4. FetchedWhole'
  BY <1>1 DEF IInv, FetchedWhole, outside
<1>5. InboxFollows'
  <2>1. fetched \subseteq Updates
    BY <1>1 DEF TypeOK
  <2>2. \A u \in fetched' \ todo' : inbox'[u] # "none"
    BY <1>1, <1>2, <2>1 DEF IInv, InboxFollows
  <2>3. QED
    BY <1>1, <2>2 DEF InboxFollows, Ending, Answering
<1>6. CursorHidesNothing'
  <2>1. \A v \in 1..confirmed : v \in Updates
    BY <1>1, MaxUpdateAssumption DEF TypeOK, Updates
  <2>2. QED
    BY <1>1, <1>2, <2>1 DEF IInv, CursorHidesNothing
<1>7. ProcessedIsRepresented'
  BY <1>1, <1>2 DEF IInv, ProcessedIsRepresented, may_complete
<1>8. SentInOrder' /\ StaleIsSent' /\ ResolvedInHand' /\ RowsResolved'
  BY <1>1 DEF IInv, SentInOrder, StaleIsSent, ResolvedInHand, RowsResolved, outside
<1>9. QED
  BY <1>3, <1>4, <1>5, <1>6, <1>7, <1>8 DEF IInv

\* The cursor stays behind the last of the poll and before the first update
\* that is not processed.
LEMMA CursorBounds ==
  ASSUME TypeOK, fetched # {}
  PROVE  /\ cursor_id \in 0..MaxUpdate
         /\ \E last \in fetched : cursor_id <= last
         /\ \A u \in Updates : inbox[u] = "received" => cursor_id < u
<1> DEFINE waiting == { v \in Updates : inbox[v] = "received" }
           before == { u - 1 : u \in waiting }
           S == { Max(fetched) } \cup before
<1>1. MaxUpdate \in Nat /\ fetched \in SUBSET (0..MaxUpdate) /\ fetched \subseteq Updates
  BY MaxUpdateAssumption DEF TypeOK, Updates
<1>2. Max(fetched) \in fetched
  BY <1>1, MaxGreatest
<1>3. before \subseteq 0..MaxUpdate /\ \A u \in waiting : u - 1 \in before
  <2>1. \A u \in Updates : u - 1 \in 0..MaxUpdate
    BY MaxUpdateAssumption DEF Updates
  <2>2. QED
    BY <2>1
<1>4. \A u \in waiting : u \in Int
  BY MaxUpdateAssumption DEF Updates
<1> HIDE DEF before
<1>5. S \in SUBSET (0..MaxUpdate) /\ S # {} /\ Max(fetched) \in S /\ before \subseteq S
  BY <1>1, <1>2, <1>3
<1>6. cursor_id = Min(S)
  BY DEF cursor_id, before
<1> HIDE DEF S
<1>7. Min(S) \in S /\ \A k \in S : Min(S) <= k
  BY <1>1, <1>5, MinLeast
<1>8. cursor_id \in 0..MaxUpdate /\ cursor_id <= Max(fetched)
  BY <1>5, <1>6, <1>7
<1>9. \A u \in waiting : cursor_id < u
  <2>1. SUFFICES ASSUME NEW u \in waiting PROVE cursor_id < u
    OBVIOUS
  <2>2. cursor_id <= u - 1 /\ u \in Int
    BY <1>3, <1>4, <1>5, <1>6, <1>7
  <2>3. QED
    BY <1>8, <2>2
<1>10. QED
  BY <1>2, <1>8, <1>9

\* The cursor moves past what was handled.
LEMMA ConfirmUpdatesKeeps == IInv /\ ConfirmUpdates => IInv'
<1> SUFFICES ASSUME IInv, ConfirmUpdates PROVE IInv'
  OBVIOUS
<1>1. /\ TypeOK /\ pc = "confirm" /\ cur = 0 /\ todo = {} /\ fetched # {}
      /\ UNCHANGED << outside, durable >>
  BY DEF IInv, ConfirmUpdates, At, InboxFollows, Ending, FetchedWhole
<1>2. CASE Raise /\ UNCHANGED confirmed
  <2>1. TypeOK'
    BY <1>1, <1>2, GoingTyped DEF TypeOK, ControlTyped, outside, durable
  <2>2. QED
    BY <1>1, <1>2, <2>1, Going, QuietMoves DEF outside, durable
<1>3. CASE /\ confirmed' = Max({ confirmed, cursor_id })
           /\ pc' = "idle" /\ fetched' = {} /\ UNCHANGED << cur, todo, rows, aborts >>
  <2> DEFINE c == cursor_id
  <2>1. /\ c \in 0..MaxUpdate /\ \E last \in fetched : c <= last
        /\ \A u \in Updates : inbox[u] = "received" => c < u
    BY <1>1, CursorBounds
  <2> HIDE DEF c
  <2>2. confirmed' \in { confirmed, c }
    <3> DEFINE S == { confirmed, c }
    <3>1. S \in SUBSET (0..MaxUpdate) /\ S # {} /\ MaxUpdate \in Nat
      BY <1>1, <2>1, MaxUpdateAssumption DEF TypeOK
    <3>2. confirmed' = Max(S)
      BY <1>3 DEF c
    <3> HIDE DEF S
    <3>3. confirmed' \in S
      BY <3>1, <3>2, MaxGreatest
    <3>4. QED
      BY <3>3 DEF S
  <2>3. TypeOK'
    BY <1>1, <1>3, <2>1, <2>2 DEF TypeOK, outside, durable
  <2>4. CursorHidesNothing'
    <3>1. SUFFICES ASSUME NEW u \in 1..confirmed' PROVE inbox[u] = "processed"
      BY <1>1 DEF CursorHidesNothing, durable
    <3>2. CASE u <= confirmed
      BY <1>1, <3>2 DEF IInv, CursorHidesNothing, TypeOK
    <3>3. CASE ~ (u <= confirmed)
      <4>1. u <= c /\ confirmed' = c
        <5>1. confirmed' \in Int /\ confirmed \in Int /\ c \in Int
          BY <1>1, <2>1, <2>2 DEF TypeOK
        <5>2. confirmed' = confirmed => u <= confirmed
          BY <3>1, <5>1
        <5>3. confirmed' = c
          BY <2>2, <3>3, <5>2
        <5>4. u <= confirmed'
          BY <3>1, <5>1
        <5>5. QED
          BY <5>3, <5>4
      <4>2. u \in Updates
        <5>1. confirmed' \in 0..MaxUpdate /\ MaxUpdate \in Nat
          BY <2>3, MaxUpdateAssumption DEF TypeOK
        <5>2. QED
          BY <3>1, <5>1 DEF Updates
      <4>3. PICK last \in fetched : c <= last
        BY <2>1
      <4>4. confirmed \in Int /\ u \in Int /\ last \in Int
        BY <1>1, <3>1, <4>3, MaxUpdateAssumption DEF TypeOK, Updates
      <4>5. confirmed < u /\ u <= last
        BY <2>1, <3>3, <4>1, <4>3, <4>4
      <4>6. u \in fetched
        BY <4>2, <4>3, <4>5 DEF IInv, FetchedWhole
      <4>7. inbox[u] # "none"
        BY <1>1, <4>6 DEF IInv, InboxFollows
      <4>8. inbox[u] # "received"
        BY <2>1, <4>1, <4>2, <4>4
      <4>9. QED
        BY <1>1, <4>2, <4>7, <4>8 DEF TypeOK
    <3>4. QED
      BY <3>2, <3>3
  <2>5. FetchedWhole' /\ InboxFollows'
    BY <1>1, <1>3 DEF FetchedWhole, InboxFollows, Ending, Answering
  <2>6. SentInOrder' /\ StaleIsSent' /\ ProcessedIsRepresented' /\ ResolvedInHand' /\ RowsResolved'
    BY <1>1, <1>3 DEF IInv, SentInOrder, StaleIsSent, ProcessedIsRepresented, ResolvedInHand,
       RowsResolved, outside, durable
  <2>7. QED
    BY <2>3, <2>4, <2>5, <2>6 DEF IInv
<1>4. QED
  BY <1>2, <1>3 DEF ConfirmUpdates

\* A poll begins with everything past the cursor.
LEMMA StartPollKeeps ==
  ASSUME IInv, NEW claimed \in SUBSET recoverable, StartPoll(claimed)
  PROVE  IInv'
<1> DEFINE U == { u \in Updates : sent[u] # "none" /\ u > confirmed }
<1>1. /\ TypeOK /\ pc = "idle" /\ cur = 0
      /\ fetched' = U /\ todo' = U /\ pc' = IF U = {} THEN "notify" ELSE "next"
      /\ UNCHANGED << cur, rows, aborts, outside, confirmed, inbox, prop, noticed, sleeping >>
  BY DEF IInv, StartPoll, At, InboxFollows
<1>2. \A u \in Updates : wf'[u] = wf[u] \/ wf'[u].state = "represented"
  BY <1>1 DEF StartPoll, TypeOK
<1>3. TypeOK'
  <2>1. wf' \in [Updates -> [p : Proposals \cup {NoProposal}, state : WfStates]]
    <3>1. \A u \in Updates : [wf[u] EXCEPT !.state = "represented"]
                               \in [p : Proposals \cup {NoProposal}, state : WfStates]
      BY <1>1 DEF TypeOK, WfStates
    <3>2. QED
      BY <1>1, <3>1 DEF StartPoll, TypeOK
  <2>2. cand' \in [Proposals -> PropStates]
    BY <1>1 DEF StartPoll, TypeOK, PropStates
  <2>3. U \subseteq Updates
    OBVIOUS
  <2> HIDE DEF U
  <2>4. QED
    BY <1>1, <2>1, <2>2, <2>3 DEF TypeOK, outside
<1>4. \A u \in U : /\ u \in Updates /\ sent[u] # "none"
                   /\ \A v \in Updates : confirmed < v /\ v <= u => v \in U
  <2>1. SUFFICES ASSUME NEW u \in U, NEW v \in Updates, confirmed < v, v <= u PROVE v \in U
    OBVIOUS
  <2>2. sent[v] # "none"
    BY <2>1 DEF IInv, SentInOrder
  <2>3. v \in Int /\ confirmed \in Int
    BY <1>1, MaxUpdateAssumption DEF TypeOK, Updates
  <2>4. QED
    BY <2>1, <2>2, <2>3
<1> HIDE DEF U
<1>5. FetchedWhole' /\ InboxFollows'
  BY <1>1, <1>4 DEF FetchedWhole, InboxFollows, Ending, Answering, outside
<1>6. SentInOrder' /\ StaleIsSent' /\ CursorHidesNothing'
  BY <1>1 DEF IInv, SentInOrder, StaleIsSent, CursorHidesNothing, outside
<1>7. ProcessedIsRepresented' /\ ResolvedInHand' /\ RowsResolved'
  BY <1>1, <1>2 DEF IInv, ProcessedIsRepresented, ResolvedInHand, RowsResolved, Waiting, outside
<1>8. QED
  BY <1>3, <1>5, <1>6, <1>7 DEF IInv

(***************************************************************************)
(* Around the listener.                                                    *)
(***************************************************************************)

\* The operator, the clock and the scanner only add messages and make them
\* older.
LEMMA AroundMoves ==
  ASSUME IInv, TypeOK', UNCHANGED around, SentInOrder', StaleIsSent', stale \subseteq stale',
         \A u \in Updates : sent[u] # "none" => sent'[u] # "none"
  PROVE  IInv'
<1>1. UNCHANGED << confirmed, inbox, wf, pc, cur, todo, rows, fetched >> /\ fetched \subseteq Updates
  BY DEF around, listener, IInv, TypeOK
<1>2. FetchedWhole' /\ InboxFollows'
  BY <1>1 DEF IInv, FetchedWhole, InboxFollows
<1>3. ResolvedInHand' /\ RowsResolved' /\ CursorHidesNothing' /\ ProcessedIsRepresented'
  BY <1>1 DEF IInv, ResolvedInHand, RowsResolved, CursorHidesNothing, ProcessedIsRepresented
<1>4. QED
  BY <1>2, <1>3 DEF IInv

\* The operator sends a message.
LEMMA SendKeeps ==
  ASSUME IInv, NEW u \in Updates, NEW c \in Commands, Send(u, c)
  PROVE  IInv'
<1>1. /\ TypeOK /\ sent[u] = "none" /\ \A v \in 1..(u - 1) : sent[v] # "none"
      /\ sent' = [sent EXCEPT ![u] = c] /\ UNCHANGED << around, stale, prop, cand >>
      /\ c # "none"
  BY CommandsAssumption DEF IInv, Send
<1>2. sent'[u] # "none" /\ \A v \in Updates : v # u => sent'[v] = sent[v]
  BY <1>1 DEF TypeOK
<1>3. TypeOK'
  BY <1>1 DEF TypeOK, around, listener
<1>4. \A v \in Updates : v <= u => sent'[v] # "none"
  <2>1. \A v \in Updates : v <= u => v = u \/ v \in 1..(u - 1)
    BY MaxUpdateAssumption DEF Updates
  <2>2. QED
    BY <1>1, <1>2, <2>1
<1>5. SentInOrder' /\ StaleIsSent'
  BY <1>1, <1>2, <1>4 DEF IInv, SentInOrder, StaleIsSent, TypeOK
<1>6. QED
  BY <1>1, <1>2, <1>3, <1>5, AroundMoves

\* A message grows old.
LEMMA AgeKeeps ==
  ASSUME IInv, NEW u \in Updates, Age(u)
  PROVE  IInv'
<1>1. /\ TypeOK /\ sent[u] # "none" /\ stale' = stale \cup 1..u
      /\ UNCHANGED << around, sent, prop, cand >>
  BY DEF IInv, Age
<1>2. \A v \in 1..u : v \in Updates /\ v <= u
  BY MaxUpdateAssumption DEF Updates
<1>3. TypeOK'
  BY <1>1, <1>2 DEF TypeOK, around, listener
<1>4. SentInOrder' /\ StaleIsSent'
  BY <1>1, <1>2 DEF IInv, SentInOrder, StaleIsSent
<1>5. QED
  BY <1>1, <1>3, <1>4, AroundMoves

\* What the scanner does to proposals.
LEMMA ScannerKeeps ==
  ASSUME IInv, UNCHANGED << around, outside >>,
         prop' \in [Proposals -> PropStates], cand' \in [Proposals -> PropStates]
  PROVE  IInv'
<1>1. TypeOK'
  BY DEF IInv, TypeOK, around, listener, outside
<1>2. SentInOrder' /\ StaleIsSent'
  BY DEF IInv, SentInOrder, StaleIsSent, outside
<1>3. QED
  BY <1>1, <1>2, AroundMoves DEF outside

\* A proposal is offered.
LEMMA OfferKeeps ==
  ASSUME IInv, NEW P \in Offers, Offer(P)
  PROVE  IInv'
<1>1. prop \in [Proposals -> PropStates] /\ cand \in [Proposals -> PropStates]
  BY DEF IInv, TypeOK
<1>2. QED
  BY <1>1, ScannerKeeps DEF Offer, PropStates

\* A proposal ends beside the poll: it expires, or the scanner consumes it.
LEMMA ConcludeKeeps ==
  ASSUME IInv, NEW p \in Proposals, Expire(p) \/ ScannerConsumes(p)
  PROVE  IInv'
<1>1. prop \in [Proposals -> PropStates] /\ cand \in [Proposals -> PropStates]
  BY DEF IInv, TypeOK
<1>2. QED
  BY <1>1, ScannerKeeps DEF Expire, ScannerConsumes, PropStates

\* A restart makes every answer too old that was sent before.
LEMMA RestartKeeps == IInv /\ Restart => IInv'
<1> SUFFICES ASSUME IInv, Restart PROVE IInv'
  OBVIOUS
<1>1. /\ TypeOK /\ Raise /\ stale' = { u \in Updates : sent[u] # "none" }
      /\ UNCHANGED << sent, confirmed, durable >>
  BY DEF IInv, Restart
<1>2. pc' = "idle" /\ cur' = 0 /\ todo' = {} /\ rows' = {} /\ fetched' = {}
  BY <1>1 DEF Raise
<1>3. TypeOK'
  BY <1>1, GoingTyped DEF TypeOK, ControlTyped, durable
<1>4. FetchedWhole' /\ InboxFollows'
  BY <1>2 DEF FetchedWhole, InboxFollows, Answering
<1>5. ResolvedInHand'
  <2>1. SUFFICES ASSUME NEW u \in Updates, wf[u].state = "target_resolved" PROVE sent[u] # "none"
    BY <1>1 DEF ResolvedInHand, durable
  <2>2. CASE u \in stale
    BY <2>2 DEF IInv, StaleIsSent
  <2>3. CASE pc = "resolved" /\ cur = u
    <3>1. u # 0
      BY MaxUpdateAssumption DEF Updates
    <3>2. QED
      BY <2>3, <3>1 DEF IInv, InboxFollows, FetchedWhole
  <2>4. QED
    BY <2>1, <2>2, <2>3 DEF IInv, ResolvedInHand
<1>6. SentInOrder' /\ StaleIsSent' /\ RowsResolved' /\ CursorHidesNothing' /\ ProcessedIsRepresented'
  BY <1>1, <1>2 DEF IInv, SentInOrder, StaleIsSent, RowsResolved, CursorHidesNothing,
     ProcessedIsRepresented, durable
<1>7. QED
  BY <1>3, <1>4, <1>5, <1>6 DEF IInv

(***************************************************************************)
(* The invariant.                                                          *)
(***************************************************************************)

\* Nothing is sent and nothing is offered.
LEMMA InitIInv == Init => IInv
<1> SUFFICES ASSUME Init PROVE IInv
  OBVIOUS
<1>1. TypeOK
  <2>1. 0 \in 0..MaxUpdate /\ 0 \in 0..MaxAborts
    BY MaxUpdateAssumption, MaxAbortsAssumption
  <2>2. /\ sent \in [Updates -> Commands \cup {"none"}]
        /\ inbox \in [Updates -> { "none", "received", "processed" }]
        /\ wf \in [Updates -> [p : Proposals \cup {NoProposal}, state : WfStates]]
    BY DEF Init, WfStates
  <2>3. prop \in [Proposals -> PropStates] /\ cand \in [Proposals -> PropStates]
    BY DEF Init, PropStates
  <2>4. QED
    BY <2>1, <2>2, <2>3 DEF Init, TypeOK
<1>2. SentInOrder /\ StaleIsSent /\ FetchedWhole /\ InboxFollows
  BY DEF Init, SentInOrder, StaleIsSent, FetchedWhole, InboxFollows, Answering
<1>3. ResolvedInHand /\ RowsResolved /\ CursorHidesNothing /\ ProcessedIsRepresented
  BY DEF Init, ResolvedInHand, RowsResolved, CursorHidesNothing, ProcessedIsRepresented, Waiting
<1>4. QED
  BY <1>1, <1>2, <1>3 DEF IInv

\* Every step keeps the invariant.
LEMMA NextIInv == IInv /\ [Next]_vars => IInv'
<1> SUFFICES ASSUME IInv, [Next]_vars PROVE IInv'
  OBVIOUS
<1>1. CASE Poll
  BY <1>1, IngestKeeps, SleepCommandKeeps, AnswerOnlyKeeps, AcceptApprovalKeeps,
     RejectProposalKeeps, ValidateApprovalKeeps, ConsumeApprovalKeeps, ExecuteApprovalKeeps,
     BatchCommandKeeps, RejectCandidateKeeps, ApproveCandidateKeeps, ExecuteCandidateKeeps,
     EndBatchKeeps, AllHandledKeeps, NotifyExpiredKeeps, CompleteUpdatesKeeps,
     ConfirmUpdatesKeeps DEF Poll
<1>2. CASE \E U \in SUBSET recoverable : StartPoll(U)
  BY <1>2, StartPollKeeps
<1>3. CASE \E u \in Updates : (\E c \in Commands : Send(u, c)) \/ Age(u)
  BY <1>3, SendKeeps, AgeKeeps
<1>4. CASE \/ \E P \in Offers : Offer(P)
           \/ \E p \in Proposals : Expire(p) \/ ScannerConsumes(p)
  BY <1>4, OfferKeeps, ConcludeKeeps
<1>5. CASE Restart
  BY <1>5, RestartKeeps
<1>6. CASE UNCHANGED vars
  BY <1>6 DEF vars, listener, IInv, TypeOK, SentInOrder, StaleIsSent, FetchedWhole, InboxFollows,
     ResolvedInHand, RowsResolved, CursorHidesNothing, ProcessedIsRepresented
<1>7. QED
  BY <1>1, <1>2, <1>3, <1>4, <1>5, <1>6 DEF Next

\* The invariant holds in every behaviour.
LEMMA IInvHolds == Spec => []IInv
<1>1. QED
  BY InitIInv, NextIInv, PTL DEF Spec

(***************************************************************************)
(* Theorems.                                                               *)
(***************************************************************************)

\* The durable tables and the locals of the poll keep their types.
THEOREM InboxIsTyped == Spec => []TypeOK
<1>1. IInv => TypeOK
  BY DEF IInv
<1>2. QED
  BY <1>1, IInvHolds, PTL

\* The cursor never passes an update whose row still waits.
THEOREM NothingIsSkipped == Spec => []CursorHidesNothing
<1>1. IInv => CursorHidesNothing
  BY DEF IInv
<1>2. QED
  BY <1>1, IInvHolds, PTL

\* A processed update has no approval that still waits.
THEOREM HandledIsRepresented == Spec => []ProcessedIsRepresented
<1>1. IInv => ProcessedIsRepresented
  BY DEF IInv
<1>2. QED
  BY <1>1, IInvHolds, PTL

\* An answer consumes the proposal its workflow was opened for.
THEOREM AnswerMeansItsProposal == Spec => AnswerActsOnItsWorkflow
<1>1. IInv /\ [Next]_vars => [At("acked") /\ pc' = "execute" => rows = { wf[cur].p }]_vars
  BY DEF IInv, RowsResolved, At
<1>2. QED
  BY <1>1, IInvHolds, PTL DEF Spec, AnswerActsOnItsWorkflow

\* What was consumed stays consumed: no NO, no expiry, no offer and no
\* redelivered answer turns back a proposal an order may exist for.
THEOREM ConsumptionLasts == Spec => ConsumedStays
<1> DEFINE Consumed == { "approved", "concluded" }
<1>1. ASSUME TypeOK, Next, NEW p \in Proposals, prop[p] \in Consumed
      PROVE  prop'[p] \in Consumed
  <2>1. prop \in [Proposals -> PropStates]
    BY <1>1 DEF TypeOK
  <2>2. prop' = prop => prop'[p] \in Consumed
    BY <1>1
  <2>3. ASSUME NEW q, NEW st, prop' = [prop EXCEPT ![q] = st], q = p => st \in Consumed
        PROVE  prop'[p] \in Consumed
    BY <1>1, <2>1, <2>3
  <2>4. rejected_status(p) \in Consumed
    BY <1>1 DEF rejected_status
  <2>5. CASE \E U \in SUBSET recoverable : StartPoll(U)
    BY <2>2, <2>5 DEF StartPoll
  <2>6. CASE Poll
    <3>1. CASE Ingest \/ SleepCommand \/ AnswerOnly \/ AcceptApproval \/ ValidateApproval
               \/ BatchCommand \/ EndBatch \/ AllHandled \/ NotifyExpired \/ CompleteUpdates
               \/ ConfirmUpdates
      BY <2>2, <3>1 DEF Ingest, SleepCommand, AnswerOnly, AcceptApproval, ValidateApproval,
         BatchCommand, EndBatch, AllHandled, NotifyExpired, CompleteUpdates, ConfirmUpdates, durable
    <3>2. CASE RejectProposal \/ RejectCandidate
      <4>1. prop' = prop \/ \E q : prop' = [prop EXCEPT ![q] = rejected_status(q)]
        BY <3>2 DEF RejectProposal, RejectCandidate
      <4>2. QED
        BY <2>2, <2>3, <2>4, <4>1
    <3>3. CASE ConsumeApproval \/ ExecuteApproval \/ ApproveCandidate \/ ExecuteCandidate
      <4>1. prop' = prop \/ \E q, st : st \in Consumed /\ prop' = [prop EXCEPT ![q] = st]
        BY <3>3 DEF ConsumeApproval, ExecuteApproval, ApproveCandidate, ExecuteCandidate
      <4>2. QED
        BY <2>2, <2>3, <4>1
    <3>4. QED
      BY <2>6, <3>1, <3>2, <3>3 DEF Poll
  <2>7. CASE \E u \in Updates : (\E c \in Commands : Send(u, c)) \/ Age(u)
    BY <2>2, <2>7 DEF Send, Age
  <2>8. CASE \E P \in Offers : Offer(P)
    BY <1>1, <2>8 DEF Offer
  <2>9. CASE \E q \in Proposals : Expire(q) \/ ScannerConsumes(q)
    <3>1. PICK q \in Proposals :
            prop[q] = "pending" /\ \E st : prop' = [prop EXCEPT ![q] = st]
      BY <2>9 DEF Expire, ScannerConsumes
    <3>2. q # p
      BY <1>1, <3>1
    <3>3. QED
      BY <2>3, <3>1, <3>2
  <2>10. CASE Restart
    BY <2>2, <2>10 DEF Restart, durable
  <2>11. QED
    BY <1>1, <2>5, <2>6, <2>7, <2>8, <2>9, <2>10 DEF Next
<1>2. TypeOK /\ [Next]_vars =>
        [\A p \in Proposals :
           prop[p] \in { "approved", "concluded" } => prop'[p] \in { "approved", "concluded" }]_vars
  BY <1>1
<1>3. QED
  BY <1>2, InboxIsTyped, PTL DEF Spec, ConsumedStays
=============================================================================
