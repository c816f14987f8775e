--------------------------- MODULE TelegramInbox ---------------------------
(***************************************************************************)
(* The listener's poll (TradingService.process_telegram, app/service.py):  *)
(* Telegram hands out every unconfirmed update again and again; each one   *)
(* is written to the durable inbox, handled, and confirmed when the whole  *)
(* poll has come to its end.  A message that cannot be sent, a conflict or *)
(* a broker error ends the poll (run_listener of app/main.py logs it and   *)
(* polls again), so what was handled before it is delivered again.         *)
(* Proposals are single or candidates of a ranked batch; the scanner       *)
(* offers them, lets them expire and may consume them itself.              *)
(***************************************************************************)
EXTENDS Naturals, FiniteSets, FiniteSetsExt

CONSTANTS
  MaxUpdate,      \* bounds what the operator sends: updates are 1..MaxUpdate
  Proposals,
  Batches,
  NoBatch,
  BatchOf,        \* the ranked batch of a proposal, or NoBatch
  NoProposal,
  Commands,       \* what the operator may send
  MaxAborts       \* bounds polls that end in an exception, and restarts

ASSUME MaxUpdateAssumption == MaxUpdate \in Nat \ {0}
ASSUME BatchAssumption ==
  NoBatch \notin Batches /\ BatchOf \in [Proposals -> Batches \cup {NoBatch}]
ASSUME NoProposalAssumption == NoProposal \notin Proposals
ASSUME CommandsAssumption ==
  Commands \subseteq { "yes", "no", "yes_all", "no_all", "sleep", "awake",
                       "pause", "resume", "other" }
ASSUME MaxAbortsAssumption == MaxAborts \in Nat

VARIABLES
  sent,         \* the command of each update, "none" before it is sent
  confirmed,    \* the offset Telegram was last given
  inbox,        \* telegram_updates.processing_state
  stale,        \* updates older than 120 s, or than this listener
  prop,         \* trade_proposals.status
  noticed,      \* trade_proposals.expiry_notified
  cand,         \* proposal_batch_candidates.candidate_status
  wf,           \* the workflow an update opened: its proposal and state
  sleeping,     \* control_state sleep_mode_active
  pc, cur, todo,    \* the next statement, the update, what is left of the poll
  rows,         \* candidates left of a YES ALL or NO ALL
  fetched,      \* the updates of this poll
  aborts

listener == << pc, cur, todo, rows, fetched >>
vars == << sent, confirmed, inbox, stale, prop, noticed, cand, wf, sleeping,
           listener, aborts >>

Updates == 1..MaxUpdate

\* concluded: submitted, blocked or unknown.
PropStates == { "none", "pending", "approved", "concluded", "rejected",
                "expired" }

\* represented: an intent exists, or the workflow is closed.
WfStates == { "none", "target_resolved", "validating", "represented",
              "blocked" }

Waiting == { "target_resolved", "validating" }

TypeOK ==
  /\ sent \in [Updates -> Commands \cup {"none"}]
  /\ confirmed \in 0..MaxUpdate
  /\ inbox \in [Updates -> { "none", "received", "processed" }]
  /\ stale \subseteq Updates
  /\ prop \in [Proposals -> PropStates]
  /\ noticed \subseteq Proposals
  /\ cand \in [Proposals -> PropStates]
  /\ wf \in [Updates -> [p : Proposals \cup {NoProposal}, state : WfStates]]
  /\ sleeping \in BOOLEAN
  /\ pc \in { "idle", "next", "resolved", "acked", "execute", "candidate",
              "batch_execute", "notify", "complete", "confirm" }
  /\ cur \in Updates \cup {0} /\ todo \subseteq Updates
  /\ rows \subseteq Proposals /\ fetched \subseteq Updates
  /\ aborts \in 0..MaxAborts

Init ==
  /\ sent = [u \in Updates |-> "none"]
  /\ confirmed = 0
  /\ inbox = [u \in Updates |-> "none"]
  /\ stale = {}
  /\ prop = [p \in Proposals |-> "none"]
  /\ noticed = {}
  /\ cand = [p \in Proposals |-> "none"]
  /\ wf = [u \in Updates |-> [p |-> NoProposal, state |-> "none"]]
  /\ sleeping = FALSE
  /\ pc = "idle" /\ cur = 0 /\ todo = {} /\ rows = {} /\ fetched = {}
  /\ aborts = 0

Pending == { p \in Proposals : prop[p] = "pending" }

\* _fetch_batch_candidates, active and pending
ActiveRows == { p \in Pending : BatchOf[p] # NoBatch /\ cand[p] = "pending" }

ActiveBatches == { BatchOf[p] : p \in ActiveRows }

(***************************************************************************)
(* How a poll goes on, and how it ends.                                    *)
(***************************************************************************)
durable == << inbox, prop, noticed, cand, wf, sleeping >>
outside == << sent, stale >>

At(l) == pc = l

\* continue: the next update of the poll.
Continue ==
  /\ pc' = "next" /\ cur' = 0 /\ rows' = {}
  /\ UNCHANGED << todo, fetched, aborts >>

Goto(l) ==
  /\ pc' = l
  /\ UNCHANGED << cur, todo, rows, fetched, aborts >>

\* An exception that process_telegram does not catch.
Refuse ==
  /\ pc' = "idle" /\ cur' = 0 /\ todo' = {} /\ rows' = {} /\ fetched' = {}
  /\ UNCHANGED aborts

\* The same, from Telegram, the broker or the end of the process.
Raise ==
  /\ aborts < MaxAborts
  /\ aborts' = aborts + 1
  /\ pc' = "idle" /\ cur' = 0 /\ todo' = {} /\ rows' = {} /\ fetched' = {}

\* send_message: raises when Telegram cannot be reached.
SendThenContinue == Continue \/ Raise
SendThenGoto(l) == Goto(l) \/ Raise

(***************************************************************************)
(* The start of a poll.                                                    *)
(***************************************************************************)

\* Mutant: recovery forgets what was being validated.
recoverable_unvalidated == { u \in Updates : wf[u].state = "target_resolved" }

\* What recover may hand to an operator: a manual approval before its intent.
recoverable == { u \in Updates : wf[u].state \in Waiting }

\* recover, as far as it can claim the workflows; a candidate expires with its
\* proposal; get_updates.
StartPoll(claimed) ==
  /\ At("idle")
  /\ wf' = [u \in Updates |->
              IF u \in claimed THEN [wf[u] EXCEPT !.state = "represented"]
              ELSE wf[u]]
  /\ cand' = [p \in Proposals |->
                IF cand[p] = "pending" /\ prop[p] = "expired" THEN "expired"
                ELSE cand[p]]
  /\ LET U == { u \in Updates : sent[u] # "none" /\ u > confirmed }
     IN fetched' = U /\ todo' = U /\ pc' = IF U = {} THEN "notify" ELSE "next"
  /\ UNCHANGED << cur, rows, aborts, outside, confirmed, inbox, prop, noticed,
                  sleeping >>

\* The next update in Telegram's order, into the durable inbox.
Ingest ==
  /\ At("next") /\ cur = 0 /\ todo # {}
  /\ LET u == Min(todo)
     IN /\ todo' = todo \ {u}
        /\ IF inbox[u] = "processed"
             THEN UNCHANGED << inbox, cur >>
             ELSE inbox' = [inbox EXCEPT ![u] = "received"] /\ cur' = u
  /\ UNCHANGED << pc, rows, fetched, aborts, sent, stale, confirmed, prop,
                  noticed, cand, wf, sleeping >>

Handling(cs) == At("next") /\ cur # 0 /\ sent[cur] \in cs

(***************************************************************************)
(* Control commands.                                                       *)
(***************************************************************************)

\* One older than a day is only answered.
SleepCommand ==
  /\ Handling({ "sleep", "awake" })
  /\ \/ sleeping' = (sent[cur] = "sleep")
     \/ cur \in stale /\ UNCHANGED sleeping
  /\ SendThenContinue
  /\ UNCHANGED << outside, confirmed, inbox, prop, noticed, cand, wf >>

\* Reports, /pause and /resume (the kill switch is one of the reasons for which
\* the executor may conclude without an order; they have no limit of age),
\* unauthorized senders, old approvals, and what names no proposal.
without_effect ==
  \/ sent[cur] \in { "pause", "resume", "other" }
  \/ cur \in stale
  \/ sent[cur] \in { "yes", "no" }
       /\ (ActiveRows # {} \/ Cardinality(Pending) # 1)
  \/ sent[cur] \in { "yes_all", "no_all" } /\ Cardinality(ActiveBatches) # 1

AnswerOnly ==
  /\ Handling(Commands \ { "sleep", "awake" })
  /\ without_effect
  /\ SendThenContinue
  /\ UNCHANGED << outside, confirmed, durable >>

(***************************************************************************)
(* A plain YES or NO: the one pending proposal.                            *)
(***************************************************************************)

\* accept_approval: a workflow of the same update is given back as it is.
accepted_workflow(u, p) ==
  IF wf[u].state # "none" THEN wf[u]
  ELSE [p |-> p, state |-> "target_resolved"]

\* rows: the proposal the text was parsed to mean.
AcceptApproval ==
  /\ Handling({ "yes", "no" })
  /\ ~ without_effect
  /\ \E p \in Pending :
       IF wf[cur].state = "none"
            /\ \E u \in Updates : wf[u].p = p /\ wf[u].state \in Waiting
         THEN SendThenContinue /\ UNCHANGED wf
         ELSE /\ wf' = [wf EXCEPT ![cur] = accepted_workflow(cur, p)]
              /\ pc' = "resolved" /\ rows' = {p}
              /\ UNCHANGED << cur, todo, fetched, aborts >>
  /\ UNCHANGED << outside, confirmed, inbox, prop, noticed, cand, sleeping >>

\* Mutant: the status of the proposal is not asked again.
rejected_status_unguarded(p) == "rejected"

\* UPDATE trade_proposals SET status='rejected' WHERE id=? AND status='pending'
rejected_status(p) == IF prop[p] = "pending" THEN "rejected" ELSE prop[p]

\* NO: blocked from target_resolved, and from blocked itself.
RejectProposal ==
  /\ At("resolved") /\ sent[cur] = "no"
  /\ IF wf[cur].state \in Waiting \cup { "blocked" }
       THEN /\ wf' = [wf EXCEPT ![cur].state = "blocked"]
            /\ \E p \in rows :
                 /\ prop' = [prop EXCEPT ![p] = rejected_status(p)]
            /\ SendThenContinue
       ELSE Refuse /\ UNCHANGED << wf, prop >>
  /\ UNCHANGED << outside, confirmed, inbox, noticed, cand, sleeping >>

\* Mutant: a workflow that was blocked is taken up again.
validates_blocked(w) == w.state \in { "target_resolved", "blocked" }

validates(w) == w.state = "target_resolved"

\* YES: the workflow must be where accept_approval leaves a new one; sleep
\* mode answers before it blocks.
ValidateApproval ==
  /\ At("resolved") /\ sent[cur] = "yes"
  /\ IF ~ validates(wf[cur])
       THEN Refuse /\ UNCHANGED wf
       ELSE \/ /\ sleeping /\ Continue
               /\ wf' = [wf EXCEPT ![cur].state = "blocked"]
            \/ /\ sleeping /\ Raise
               /\ wf' = [wf EXCEPT ![cur].state = "validating"]
            \/ /\ wf' = [wf EXCEPT ![cur].state = "validating"]
               /\ SendThenGoto("acked")
  /\ UNCHANGED << outside, confirmed, inbox, prop, noticed, cand, sleeping >>

\* consume_approval, or the freshness of the code in front of it.
ConsumeApproval ==
  /\ At("acked")
  /\ \E p \in rows :
       \/ /\ prop[p] = "pending"
          /\ prop' = [prop EXCEPT ![p] = "approved"]
          /\ Goto("execute")
          /\ UNCHANGED wf
       \/ /\ wf' = [wf EXCEPT ![cur].state =
                      IF @ \in Waiting THEN "blocked" ELSE @]
          /\ SendThenContinue
          /\ UNCHANGED << prop >>
  /\ UNCHANGED << outside, confirmed, inbox, noticed, cand, sleeping >>

\* The final check and the executor, then the proposal and the answer; an
\* exception in between leaves the proposal approved.
ExecuteApproval ==
  /\ At("execute")
  /\ \E p \in rows :
       \/ /\ prop' = [prop EXCEPT ![p] = "concluded"]
          /\ wf' = [wf EXCEPT ![cur].state = "represented"]
          /\ SendThenContinue
       \/ /\ Raise
          /\ wf' \in { wf, [wf EXCEPT ![cur].state = "represented"] }
          /\ UNCHANGED prop
  /\ UNCHANGED << outside, confirmed, inbox, noticed, cand, sleeping >>

(***************************************************************************)
(* YES ALL and NO ALL: the candidates of the one active batch.             *)
(***************************************************************************)

BatchCommand ==
  /\ Handling({ "yes_all", "no_all" })
  /\ ~ without_effect
  /\ \/ /\ pc' = "candidate" /\ rows' = ActiveRows
        /\ UNCHANGED << cur, todo, fetched, aborts >>
     \/ Raise
  /\ UNCHANGED << outside, confirmed, durable >>

RejectCandidate ==
  /\ At("candidate") /\ rows # {} /\ sent[cur] = "no_all"
  /\ \E p \in rows :
       /\ prop' = [prop EXCEPT ![p] = rejected_status(p)]
       /\ cand' = [cand EXCEPT ![p] = "rejected"]
       /\ rows' = rows \ {p}
  /\ UNCHANGED << pc, cur, todo, fetched, aborts, outside, confirmed, inbox,
                  noticed, wf, sleeping >>

\* _approve_batch_candidate up to the consumption; its workflow carries no
\* update.  Handled meanwhile, or refused: blocked.  Asleep: left pending.
ApproveCandidate ==
  /\ At("candidate") /\ rows # {} /\ sent[cur] = "yes_all"
  /\ \E p \in rows :
       \/ /\ prop[p] = "pending" /\ ~ sleeping
          /\ prop' = [prop EXCEPT ![p] = "approved"]
          /\ pc' = "batch_execute" /\ rows' = rows
          /\ UNCHANGED << cur, todo, fetched, aborts, cand >>
       \/ /\ rows' = rows \ {p}
          /\ cand' = IF prop[p] = "pending" /\ sleeping THEN cand
                     ELSE [cand EXCEPT ![p] = "concluded"]
          /\ UNCHANGED << pc, cur, todo, fetched, aborts, prop >>
       \/ Raise /\ UNCHANGED << cand, prop >>
  /\ UNCHANGED << outside, confirmed, inbox, noticed, wf, sleeping >>

\* The executor, the answer, and only then the candidate.
ExecuteCandidate ==
  /\ At("batch_execute")
  /\ \E p \in { q \in rows : prop[q] = "approved" } :
       \/ /\ prop' = [prop EXCEPT ![p] = "concluded"]
          /\ \/ /\ cand' = [cand EXCEPT ![p] = "concluded"]
                /\ pc' = "candidate" /\ rows' = rows \ {p}
                /\ UNCHANGED << cur, todo, fetched, aborts >>
             \/ Raise /\ UNCHANGED cand
       \/ Raise /\ UNCHANGED << prop, cand >>
  /\ UNCHANGED << outside, confirmed, inbox, noticed, wf, sleeping >>

EndBatch ==
  /\ At("candidate") /\ rows = {}
  /\ Continue
  /\ UNCHANGED << outside, confirmed, durable >>

(***************************************************************************)
(* The end of a poll.                                                      *)
(***************************************************************************)

AllHandled ==
  /\ At("next") /\ cur = 0 /\ todo = {}
  /\ Goto("notify")
  /\ UNCHANGED << outside, confirmed, durable >>

\* Mutant: candidates of a batch are left out.
unnoticed_single ==
  { p \in Proposals : prop[p] = "expired" /\ BatchOf[p] = NoBatch } \ noticed

unnoticed == { p \in Proposals : prop[p] = "expired" } \ noticed

\* notify_expired_proposals: a message for each, marked after it is sent.
NotifyExpired ==
  /\ At("notify")
  /\ IF unnoticed = {}
       THEN /\ Goto(IF fetched = {} THEN "idle" ELSE "complete")
            /\ UNCHANGED noticed
       ELSE \/ /\ \E p \in unnoticed : noticed' = noticed \cup {p}
               /\ Goto("notify")
            \/ Raise /\ UNCHANGED noticed
  /\ UNCHANGED << outside, confirmed, inbox, prop, cand, wf, sleeping >>

\* Mutant: an update is done when the poll is.
may_complete_always(u) == TRUE

\* mark_update_processed: its approval has an intent, is closed or is left to
\* an operator; any other update has been answered.
may_complete(u) == wf[u].state \notin Waiting

CompleteUpdates ==
  /\ At("complete")
  /\ inbox' = [u \in Updates |->
       IF u \in fetched /\ may_complete(u) THEN "processed" ELSE inbox[u]]
  /\ Goto("confirm")
  /\ UNCHANGED << outside, confirmed, prop, noticed, cand, wf, sleeping >>

\* Mutants: the cursor goes to the last update of the poll; the offset is
\* taken for the cursor.
cursor_id_of_poll == Max(fetched)

cursor_id_offset == Max(fetched) + 1

\* No further than the first update that is not processed.
cursor_id ==
  Min({ Max(fetched) }
        \cup { u - 1 : u \in { v \in Updates : inbox[v] = "received" } })

\* get_updates(offset = cursor + 1)
ConfirmUpdates ==
  /\ At("confirm")
  /\ \/ /\ confirmed' = Max({ confirmed, cursor_id })
        /\ pc' = "idle" /\ fetched' = {}
        /\ UNCHANGED << cur, todo, rows, aborts >>
     \/ Raise /\ UNCHANGED confirmed
  /\ UNCHANGED << outside, durable >>

(***************************************************************************)
(* Around the listener.                                                    *)
(***************************************************************************)
around == << confirmed, inbox, noticed, wf, sleeping, listener, aborts >>

Send(u, c) ==
  /\ sent[u] = "none"
  /\ \A v \in 1..(u - 1) : sent[v] # "none"
  /\ sent' = [sent EXCEPT ![u] = c]
  /\ UNCHANGED << around, stale, prop, cand >>

\* 120 seconds pass.
Age(u) ==
  /\ sent[u] # "none" /\ u \notin stale
  /\ stale' = stale \cup 1..u
  /\ UNCHANGED << around, sent, prop, cand >>

\* The scanner asks for approval: a single proposal, or a ranked batch.
Offer(P) ==
  /\ \A p \in P : prop[p] = "none"
  /\ prop' = [p \in Proposals |-> IF p \in P THEN "pending" ELSE prop[p]]
  /\ cand' = [p \in Proposals |->
                IF p \in P /\ BatchOf[p] # NoBatch THEN "pending" ELSE cand[p]]
  /\ UNCHANGED << around, outside >>

Offers == { {p} : p \in { q \in Proposals : BatchOf[q] = NoBatch } }
          \cup { { p \in Proposals : BatchOf[p] = b } : b \in Batches }

\* expire_proposals, by either process.
Expire(p) ==
  /\ prop[p] = "pending"
  /\ prop' = [prop EXCEPT ![p] = "expired"]
  /\ UNCHANGED << around, outside, cand >>

\* An autonomous approval of the scanner consumes the proposal and executes.
ScannerConsumes(p) ==
  /\ prop[p] = "pending"
  /\ prop' = [prop EXCEPT ![p] = "concluded"]
  /\ UNCHANGED << around, outside, cand >>

\* A listener that starts again answers what it missed as old.
Restart ==
  /\ Raise
  /\ stale' = { u \in Updates : sent[u] # "none" }
  /\ UNCHANGED << sent, confirmed, durable >>

Poll ==
  \/ Ingest \/ SleepCommand \/ AnswerOnly
  \/ AcceptApproval \/ RejectProposal \/ ValidateApproval \/ ConsumeApproval
  \/ ExecuteApproval
  \/ BatchCommand \/ RejectCandidate \/ ApproveCandidate \/ ExecuteCandidate
  \/ EndBatch
  \/ AllHandled \/ NotifyExpired \/ CompleteUpdates \/ ConfirmUpdates

Next ==
  \/ \E U \in SUBSET recoverable : StartPoll(U)
  \/ Poll
  \/ \E u \in Updates : (\E c \in Commands : Send(u, c)) \/ Age(u)
  \/ \E P \in Offers : Offer(P)
  \/ \E p \in Proposals : Expire(p) \/ ScannerConsumes(p)
  \/ Restart

Spec == Init /\ [][Next]_vars

\* run_listener polls for ever, a lease another process holds on a workflow
\* runs out, and so do 120 seconds.
Fairness ==
  /\ WF_vars(Poll)
  /\ SF_vars(StartPoll(recoverable))
  /\ \A u \in Updates : WF_vars(Age(u))

FairSpec == Spec /\ Fairness

(***************************************************************************)
(* Properties                                                              *)
(***************************************************************************)

\* Telegram forgets an update only when it was handled to its end: the cursor
\* never passes one whose inbox row still waits.
CursorHidesNothing == \A u \in 1..confirmed : inbox[u] = "processed"

\* An update counts as handled only when its approval has an intent, is closed
\* or is with an operator, so the poll may end anywhere before.
ProcessedIsRepresented ==
  \A u \in Updates : inbox[u] = "processed" => wf[u].state \notin Waiting

\* What was consumed stays consumed: neither a NO nor an expiry nor a
\* redelivered answer turns a proposal an order may exist for back.
ConsumedStays ==
  [][\A p \in Proposals :
       prop[p] \in { "approved", "concluded" } =>
         prop'[p] \in { "approved", "concluded" }]_vars

\* An answer consumes the proposal its workflow was opened for, also when it
\* is delivered again and another proposal has become the pending one.
AnswerActsOnItsWorkflow ==
  [][At("acked") /\ pc' = "execute" => rows = { wf[cur].p }]_vars

\* Every update is confirmed some day, so one that ends poll after poll does
\* not keep the operator's later messages from being answered.
EveryUpdateConfirmed ==
  \A u \in Updates : sent[u] # "none" ~> confirmed >= u

\* Every expiry is announced, whatever ends the polls in between.
ExpiryIsAnnounced ==
  \A p \in Proposals : prop[p] = "expired" ~> p \in noticed
=============================================================================
