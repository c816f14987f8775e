------------------------- MODULE CryptoLaneProofs -------------------------
(***************************************************************************)
(* Theorems about CryptoLane, for any finite set of proposals, any         *)
(* quantity and any number of faults and crashes.                          *)
(*                                                                         *)
(* The argument.  A submission under way has the mark and the reservation  *)
(* to itself, and an order that it leaves at the broker keeps its intent   *)
(* in force as long as it can trade, which is what _final_controls looks   *)
(* at before it lets another one go.  What a lookup saw stays true of the  *)
(* order: it fills up, and an end is an end.  So a stale answer may put an *)
(* intent back, but never ends one whose order is live; and an intent that *)
(* has ended is booked, or in the hands of a process that is about to book *)
(* it or to ask for a review.                                              *)
(***************************************************************************)
EXTENDS CryptoLane, SetTheorems

Live(p) == order[p].state \in { "flight", "open" }
In(a, S, p) == at[a].pc \in S /\ at[a].p = p

\* What holds the symbol: the intent of a reservation, as _final_controls
\* looks for it.
InForce(p) == intent[p].state \in ACTIVE_INTENT_STATES \cup AMBIGUOUS_INTENT_STATES /\ res[p].state = "active"

\* Places of a process that has an intent in hand.
Executing == { "submit", "answer" }
Withdrawing == { "call", "withdrawn" }
Settling == { "settle", "totals", "book" }
OnIntent == { "reload", "final", "cancel", "lookup", "unsure" } \cup Executing \cup Withdrawing \cup Settling

(***************************************************************************)
(* The inductive invariant.                                                *)
(***************************************************************************)

\* What a proposal's rows say of each other.
RowsExist ==
  /\ \A p \in Proposals :
       /\ approval[p] # "none" \/ intent[p].state # "none" => prop[p].status # "none"
       /\ intent[p].state # "none" => res[p].state # "none"
       /\ intent[p].invoked => intent[p].state # "none"
  /\ \A a \in Actors : at[a].pc # "idle" => prop[at[a].p].status # "none"
  /\ \A a \in Actors : at[a].pc \in OnIntent => intent[at[a].p].state # "none"

\* A message that is being sent is in the hands of a process.
SendingInHand ==
  crashes = 0 => \A p \in Proposals : outbox[p] = "sending" =>
    \E a \in Actors : In(a, { "send", "sent", "undelivered" }, p)

\* How the broker's orders are; only an order that was asked for exists.
OrdersAre ==
  \A p \in Proposals :
    /\ order[p].state \in { "none", "flight", "rejected" } => order[p].filled = 0
    /\ order[p].state = "filled" <=> order[p].filled = Quantity
    /\ ~intent[p].invoked => order[p].state = "none"

\* A submission under way has the mark and the reservation to itself.
SubmissionHolds ==
  /\ \A a \in Actors : at[a].pc = "submit" =>
       /\ order[at[a].p].state = "none"
       /\ InForce(at[a].p) /\ res[at[a].p].units = Quantity
  /\ \A a \in Actors : at[a].pc \in Executing => intent[at[a].p].invoked
  /\ \A a \in Actors : at[a].pc = "answer" =>
       /\ at[a].was \in { "submitted", "reconciliation_required", "retryable_pre_submission", "unknown" }
       /\ at[a].was = "retryable_pre_submission" => order[at[a].p].state = "none"
  /\ \A a, b \in Actors : at[a].pc \in Executing /\ at[b].pc \in Executing /\ at[a].p = at[b].p => a = b

\* Only one order is live or being sent, and its intent is in force.
Engaged(p) == Live(p) \/ \E a \in Actors : In(a, { "submit" }, p)
OneEngaged ==
  /\ \A p \in Proposals : Engaged(p) => InForce(p)
  /\ \A p \in Proposals : Live(p) => res[p].units >= Quantity - order[p].filled
  /\ \A p, q \in Proposals : Engaged(p) /\ Engaged(q) => p = q

\* What a lookup has seen stays true of the order: it fills up, and an end is
\* an end.
SeenIsPast ==
  \A a \in Actors : at[a].pc \in Settling =>
    LET seen == at[a].seen o == order[at[a].p] IN
    /\ o.state \notin { "none", "flight" }
    /\ seen.status # "none"
    /\ seen.filled <= o.filled
    /\ seen.status \in Ended => seen.status = o.state /\ seen.filled = o.filled
    /\ seen.status = "accepted" => seen.filled = 0
    /\ seen.status = "partially_filled" => seen.filled \in 1..Quantity - 1
    /\ at[a].pc = "book" => at[a].total < seen.filled

\* A reconciliation that has not come to its end.
Finishing(p, S) == \E a \in Actors :
  In(a, { "unsure" }, p) \/ (In(a, { "totals", "book" }, p) /\ at[a].seen.status \in S)

\* An intent that has ended has booked everything, or is about to.
EndsBooked ==
  /\ \A p \in Proposals : intent[p].state = "filled" => order[p].state = "filled"
  /\ \A p \in Proposals : intent[p].state = "partially_filled" => order[p].filled > 0
  /\ crashes = 0 => \A p \in Proposals :
       intent[p].state \in TERMINAL_INTENT_STATES =>
         fills[p] = order[p].filled \/ Finishing(p, Ended)

\* The state that a withdrawn cancellation may restore.
WithdrawsTo ==
  \A a \in Actors : at[a].pc \in Withdrawing =>
    /\ at[a].was \in { "reserved", "submitting", "submitted", "partially_filled",
                       "retryable_pre_submission", "reconciliation_required" }
    /\ at[a].was = "reconciliation_required" => at[a].pc = "withdrawn"
    /\ at[a].was = "partially_filled" => order[at[a].p].filled > 0

\* A part is booked, or a process will set the row right.
Partly(p) ==
  \/ fills[p] \in 1..Quantity - 1
  \/ \E a \in Actors :
       \/ In(a, { "unsure", "book" }, p)
       \/ /\ In(a, { "totals" }, p)
          /\ at[a].seen.status = "partially_filled" \/ at[a].seen.filled # fills[p]

PartsBooked ==
  crashes = 0 =>
    /\ \A p \in Proposals : intent[p].state = "partially_filled" => Partly(p)
    /\ \A a \in Actors, p \in Proposals : In(a, Withdrawing, p) /\ at[a].was = "partially_filled" =>
         /\ intent[p].state \in ACTIVE_INTENT_STATES => Partly(p)
         /\ \A b \in Actors : In(b, { "answer" }, p) => fills[p] \in 1..Quantity - 1
         /\ \A b \in Actors : In(b, { "settle" }, p) /\ at[b].seen.filled = 0 => fills[p] > 0

IInv ==
  /\ TypeOK /\ RowsExist /\ SendingInHand /\ OrdersAre /\ SubmissionHolds /\ OneEngaged /\ SeenIsPast
  /\ BookedWithinBroker /\ EndsBooked /\ WithdrawsTo /\ PartsBooked

(***************************************************************************)
(* Typing.                                                                 *)
(***************************************************************************)

Place == [pc : Labels, p : Proposals, seen : Report, total : 0..Quantity, was : IntentStates \cup { "" }]
Intent == [state : IntentStates \cup { "none" }, invoked : BOOLEAN, known : BOOLEAN]
Reservation == [state : { "none", "active", "released" }, units : 0..Quantity]
Order == [state : { "none", "flight", "open" } \cup Ended, filled : 0..Quantity]
Proposal == [side : { "buy", "sell" }, status : ProposalStates \cup { "none" }, bound : BOOLEAN]

\* The types by name.
LEMMA Types ==
  TypeOK <=>
    /\ prop \in [Proposals -> Proposal]
    /\ late \in [Proposals -> BOOLEAN] /\ shown \in [Proposals -> BOOLEAN]
    /\ outbox \in [Proposals -> { "none", "queued", "sending", "sent", "failed" }]
    /\ approval \in [Proposals -> { "none", "active", "consumed", "expired" }]
    /\ intent \in [Proposals -> Intent]
    /\ res \in [Proposals -> Reservation]
    /\ fills \in [Proposals -> 0..Quantity]
    /\ order \in [Proposals -> Order]
    /\ at \in [Actors -> Place]
    /\ faults \in 0..MaxFaults /\ crashes \in 0..MaxFaults
BY DEF TypeOK, Place, Intent, Reservation, Order, Proposal

\* The types by name, of the next state.
LEMMA TypesNext ==
  ASSUME prop' \in [Proposals -> Proposal],
         late' \in [Proposals -> BOOLEAN], shown' \in [Proposals -> BOOLEAN],
         outbox' \in [Proposals -> { "none", "queued", "sending", "sent", "failed" }],
         approval' \in [Proposals -> { "none", "active", "consumed", "expired" }],
         intent' \in [Proposals -> Intent], res' \in [Proposals -> Reservation],
         fills' \in [Proposals -> 0..Quantity], order' \in [Proposals -> Order],
         at' \in [Actors -> Place], faults' \in 0..MaxFaults, crashes' \in 0..MaxFaults
  PROVE  TypeOK'
BY DEF TypeOK, Place, Intent, Reservation, Order, Proposal

\* A process at rest.
LEMMA IdleTyped == Idle \in Place /\ Idle.pc = "idle"
<1>1. (CHOOSE p \in Proposals : TRUE) \in Proposals
  BY CryptoLaneAssumption
<1>2. Nothing \in Report /\ "idle" \in Labels /\ 0 \in 0..Quantity
  BY CryptoLaneAssumption DEF Nothing, Report, Labels
<1>3. QED
  BY <1>1, <1>2 DEF Idle, Place

\* How a process moves: only its own place changes.
LEMMA GoMoves ==
  ASSUME TypeOK, NEW a \in Actors, NEW l \in Labels, Goto(a, l)
  PROVE  /\ at' \in [Actors -> Place] /\ \A b \in Actors \ { a } : at'[b] = at[b]
         /\ at'[a].pc = l /\ at'[a].p = at[a].p /\ at'[a].seen = at[a].seen
         /\ at'[a].total = at[a].total /\ at'[a].was = at[a].was
<1>1. at \in [Actors -> Place]
  BY Types
<1>2. at' = [at EXCEPT ![a] = [at[a] EXCEPT !.pc = l]]
  BY DEF Goto
<1>3. [at[a] EXCEPT !.pc = l] \in Place
  BY <1>1 DEF Place
<1>4. QED
  BY <1>1, <1>2, <1>3 DEF Place

\* A process comes to rest.
LEMMA StopMoves ==
  ASSUME TypeOK, NEW a \in Actors, Stop(a)
  PROVE  /\ at' \in [Actors -> Place] /\ \A b \in Actors \ { a } : at'[b] = at[b]
         /\ at'[a] = Idle /\ at'[a].pc = "idle"
<1>1. at \in [Actors -> Place]
  BY Types
<1>2. QED
  BY <1>1, IdleTyped DEF Stop

\* A process at rest takes up a proposal.
LEMMA BeginMoves ==
  ASSUME TypeOK, NEW a \in Actors, NEW l \in Labels, NEW p \in Proposals, Begin(a, l, p)
  PROVE  /\ at' \in [Actors -> Place] /\ \A b \in Actors \ { a } : at'[b] = at[b]
         /\ at'[a].pc = l /\ at'[a].p = p
<1>1. at \in [Actors -> Place]
  BY Types
<1>2. DEFINE e == [Idle EXCEPT !.pc = l, !.p = p]
<1>3. e \in Place /\ e.pc = l /\ e.p = p
  BY IdleTyped DEF Place
<1>4. at' = [at EXCEPT ![a] = e]
  BY DEF Begin
<1> HIDE DEF e
<1>5. QED
  BY <1>1, <1>3, <1>4

\* Faults are counted.
LEMMA FaultTyped == ASSUME TypeOK, Fault PROVE faults' \in 0..MaxFaults
<1>1. MaxFaults \in Nat /\ faults \in 0..MaxFaults /\ crashes \in 0..MaxFaults
  BY CryptoLaneAssumption, Types
<1>2. faults + crashes < MaxFaults /\ faults' = faults + 1
  BY DEF Fault
<1> QED BY <1>1, <1>2

(***************************************************************************)
(* Steps that leave the order alone.                                       *)
(***************************************************************************)

Alone(a) == \A b \in Actors \ { a } : at'[b] = at[b]

\* One process moves to a place.
LEMMA PlaceTaken ==
  ASSUME at \in [Actors -> Place], NEW a \in Actors, NEW r \in Place,
         at' = [at EXCEPT ![a] = r]
  PROVE  at' \in [Actors -> Place] /\ at'[a] = r /\ Alone(a)
BY DEF Alone

\* One intent gets a new row.
LEMMA IntentReplaced ==
  ASSUME intent \in [Proposals -> Intent], NEW p \in Proposals, NEW r \in Intent,
         intent' = [intent EXCEPT ![p] = r]
  PROVE  /\ intent' \in [Proposals -> Intent] /\ intent'[p] = r
         /\ \A q \in Proposals \ { p } : intent'[q] = intent[q]
OBVIOUS

\* Rows stay, and what a process takes up has rows.
LEMMA RowsStay ==
  ASSUME IInv, TypeOK', NEW a \in Actors, Alone(a),
         \A q \in Proposals : prop[q].status # "none" => prop'[q].status # "none",
         \A q \in Proposals : intent[q].state # "none" => intent'[q].state # "none",
         \A q \in Proposals : res[q].state # "none" => res'[q].state # "none",
         \A q \in Proposals : approval'[q] # "none" => approval[q] # "none" \/ prop'[q].status # "none",
         \A q \in Proposals : intent'[q].state # "none" =>
           intent[q].state # "none" \/ (prop'[q].status # "none" /\ res'[q].state # "none"),
         \A q \in Proposals : intent'[q].invoked => intent[q].invoked \/ intent'[q].state # "none",
         at'[a].pc # "idle" => prop'[at'[a].p].status # "none",
         at'[a].pc \in OnIntent => intent'[at'[a].p].state # "none"
  PROVE  RowsExist'
<1>1. \A b \in Actors : at[b].p \in Proposals /\ at'[b].p \in Proposals
  BY Types DEF IInv, TypeOK, Place
<1>2. \A q \in Proposals :
        /\ approval'[q] # "none" \/ intent'[q].state # "none" => prop'[q].status # "none"
        /\ intent'[q].state # "none" => res'[q].state # "none"
        /\ intent'[q].invoked => intent'[q].state # "none"
  BY DEF IInv, RowsExist
<1>3. \A b \in Actors : at'[b].pc # "idle" => prop'[at'[b].p].status # "none"
  BY <1>1 DEF IInv, RowsExist, Alone
<1>4. \A b \in Actors : at'[b].pc \in OnIntent => intent'[at'[b].p].state # "none"
  BY <1>1 DEF IInv, RowsExist, Alone
<1>5. QED
  BY <1>2, <1>3, <1>4 DEF RowsExist

\* A step beside the delivery of messages.
LEMMA SendingStays ==
  ASSUME IInv, NEW a \in Actors, Alone(a), crashes' = 0 => crashes = 0,
         \A q \in Proposals : outbox'[q] = "sending" => outbox[q] = "sending",
         at[a].pc \notin { "send", "sent", "undelivered" } \/ crashes' # 0
  PROVE  SendingInHand'
BY DEF IInv, SendingInHand, In, Alone

\* What is booked stays so while no fill is booked.
LEMMA BooksStay ==
  ASSUME IInv, fills' = fills,
         \A q \in Proposals : order[q].filled <= order'[q].filled,
         \A q \in Proposals : order[q] \in Order /\ order'[q] \in Order,
         \A q \in Proposals : prop'[q].side = prop[q].side \/ prop[q].status = "none"
  PROVE  BookedWithinBroker'
<1>1. \A q \in Proposals : fills[q] \in 0..Quantity /\ order[q].filled \in 0..Quantity /\ order'[q].filled \in 0..Quantity
  BY Types DEF IInv, Order
<1>2. \A q \in Proposals : prop[q].status = "none" => fills[q] = 0
  BY <1>1 DEF IInv, RowsExist, OrdersAre, BookedWithinBroker
<1>3. \A q \in Proposals : signed(q, fills[q])' = signed(q, fills[q])
  BY <1>1, <1>2 DEF signed
<1>4. Lots' = Lots
  BY <1>3 DEF Lots
<1>5. QED
  BY <1>1, <1>4 DEF IInv, BookedWithinBroker

\* How an ordinary step treats the intent of a proposal: not at all, as one
\* that never reached the broker, or by asking for a review.
Ordinary(q) ==
  \/ intent'[q] = intent[q] /\ res'[q] = res[q]
  \/ ~intent[q].invoked /\ ~intent'[q].invoked /\ intent'[q].state \notin { "filled", "partially_filled" }
  \/ /\ res'[q] = res[q] /\ intent'[q].invoked = intent[q].invoked
     /\ intent'[q].state \in AMBIGUOUS_INTENT_STATES

\* A reconciliation is not dropped, but by a crash.
Carried(a) ==
  \/ at[a].pc \notin { "unsure", "totals", "book" }
  \/ crashes' # 0
  \/ intent'[at[a].p].state \in AMBIGUOUS_INTENT_STATES
  \/ at'[a].pc = "unsure" /\ at'[a].p = at[a].p

\* An ordinary step keeps the invariant.
LEMMA OrdinaryStep ==
  ASSUME IInv, TypeOK', RowsExist', SendingInHand', NEW a \in Actors, Alone(a),
         order' = order, fills' = fills, crashes' = 0 => crashes = 0,
         \A q \in Proposals : prop'[q].side = prop[q].side \/ prop[q].status = "none",
         \A q \in Proposals : Ordinary(q),
         at'[a].pc \notin Executing \cup Withdrawing \cup Settling, Carried(a)
  PROVE  IInv'
<1> USE DEF Executing, Withdrawing, Settling
<1>0. /\ \A q \in Proposals : intent[q] \in Intent /\ intent'[q] \in Intent
      /\ \A q \in Proposals : order[q] \in Order /\ fills[q] \in 0..Quantity
      /\ \A b \in Actors : at[b] \in Place /\ at'[b] \in Place
      /\ \A b \in Actors : at[b].p \in Proposals /\ at'[b].p \in Proposals
  <2>1. at \in [Actors -> Place] /\ at' \in [Actors -> Place]
    BY Types DEF IInv, TypeOK, Place
  <2>2. intent \in [Proposals -> Intent] /\ intent' \in [Proposals -> Intent]
    BY Types DEF IInv, TypeOK, Intent
  <2>3. order \in [Proposals -> Order] /\ fills \in [Proposals -> 0..Quantity]
    BY Types DEF IInv
  <2>4. \A b \in Actors : at[b] \in Place /\ at'[b] \in Place
    BY <2>1
  <2>5. \A b \in Actors : at[b].p \in Proposals /\ at'[b].p \in Proposals
    BY <2>4 DEF Place
  <2>6. QED
    BY <2>2, <2>3, <2>4, <2>5
<1>1. OrdersAre'
  BY <1>0 DEF IInv, OrdersAre, Ordinary
<1>2. \A q \in Proposals : intent[q].invoked => intent'[q].invoked /\ res'[q] = res[q]
  BY DEF Ordinary
<1>3. \A q \in Proposals : intent[q].invoked /\ InForce(q) => InForce(q)'
  BY <1>2 DEF Ordinary, InForce
<1>4. SubmissionHolds'
  BY <1>0, <1>2, <1>3 DEF IInv, SubmissionHolds, Alone
<1>5. OneEngaged'
  <2>1. \A q \in Proposals : Engaged(q)' => Engaged(q)
    BY DEF Engaged, Live, In, Alone
  <2>2. \A q \in Proposals : Engaged(q) => intent[q].invoked
    BY DEF IInv, OrdersAre, SubmissionHolds, Engaged, Live, In
  <2>3. \A q \in Proposals : Engaged(q)' => InForce(q)'
    BY <1>3, <2>1, <2>2 DEF IInv, OneEngaged
  <2>4. \A q \in Proposals : Live(q)' => Live(q) /\ res'[q] = res[q]
    BY <1>2, <2>2 DEF Live, Engaged
  <2>5. \A q \in Proposals : Live(q)' => res'[q].units >= Quantity - order'[q].filled
    BY <2>4 DEF IInv, OneEngaged
  <2>6. QED
    BY <2>1, <2>3, <2>5 DEF IInv, OneEngaged
<1>6. SeenIsPast'
  BY <1>0 DEF IInv, SeenIsPast, Alone
<1>7. BookedWithinBroker'
  <2>1. \A q \in Proposals : order[q].filled <= order'[q].filled
    BY <1>0 DEF Order
  <2>2. QED
    BY <1>0, <2>1, BooksStay
<1>8. \A q \in Proposals : ~intent[q].invoked => order[q].filled = 0 /\ fills[q] = 0
  BY <1>0 DEF IInv, OrdersAre, BookedWithinBroker, Order
<1>9. EndsBooked'
  <2>1. \A q \in Proposals : /\ intent'[q].state = "filled" => order'[q].state = "filled"
                             /\ intent'[q].state = "partially_filled" => order'[q].filled > 0
    BY DEF IInv, EndsBooked, Ordinary, AMBIGUOUS_INTENT_STATES
  <2>2. ASSUME crashes' = 0, NEW q \in Proposals, intent'[q].state \in TERMINAL_INTENT_STATES
        PROVE  fills'[q] = order'[q].filled \/ Finishing(q, Ended)'
    <3>1. CASE ~intent[q].invoked
      BY <1>8, <3>1
    <3>2. CASE intent[q].invoked
      <4>1. intent'[q] = intent[q]
        BY <2>2, <3>2 DEF Ordinary, TERMINAL_INTENT_STATES, AMBIGUOUS_INTENT_STATES
      <4>2. fills[q] = order[q].filled \/ Finishing(q, Ended)
        BY <2>2, <4>1 DEF IInv, EndsBooked
      <4>3. Finishing(q, Ended) => Finishing(q, Ended)'
        BY <2>2, <4>1 DEF Finishing, In, Alone, Carried, TERMINAL_INTENT_STATES, AMBIGUOUS_INTENT_STATES
      <4>4. QED
        BY <4>2, <4>3
    <3>3. QED
      BY <3>1, <3>2
  <2>3. QED
    BY <2>1, <2>2 DEF EndsBooked
<1>10. WithdrawsTo'
  BY <1>0 DEF IInv, WithdrawsTo, Alone
<1>11. PartsBooked'
  <2>1. SUFFICES ASSUME crashes' = 0, crashes = 0 PROVE PartsBooked'
    BY DEF PartsBooked
  <2>2. ASSUME NEW q \in Proposals, Partly(q), intent'[q].state \notin AMBIGUOUS_INTENT_STATES
        PROVE  Partly(q)'
    BY <2>1, <2>2 DEF Partly, In, Alone, Carried
  <2>3. ASSUME NEW q \in Proposals, intent'[q].state = "partially_filled" PROVE Partly(q)'
    <3>1. intent'[q] = intent[q]
      BY <2>3 DEF Ordinary, AMBIGUOUS_INTENT_STATES
    <3>2. QED
      BY <2>1, <2>2, <2>3, <3>1 DEF IInv, PartsBooked, AMBIGUOUS_INTENT_STATES
  <2>4. ASSUME NEW b \in Actors, NEW p \in Proposals,
               In(b, Withdrawing, p)', at'[b].was = "partially_filled"
        PROVE  /\ intent'[p].state \in ACTIVE_INTENT_STATES => Partly(p)'
               /\ \A c \in Actors : In(c, { "answer" }, p)' => fills'[p] \in 1..Quantity - 1
               /\ \A c \in Actors : In(c, { "settle" }, p)' /\ at'[c].seen.filled = 0 => fills'[p] > 0
    <3>1. b # a /\ at'[b] = at[b]
      BY <2>4 DEF Alone, In
    <3>2. p = at[b].p /\ In(b, Withdrawing, p) /\ at[b].was = "partially_filled"
      BY <2>4, <3>1 DEF In
    <3>3. order[p].filled > 0 /\ order[p].filled \in 0..Quantity
      BY <1>0, <3>2 DEF IInv, WithdrawsTo, Order, In
    <3>4. intent[p].invoked
      BY <1>8, <3>3
    <3>5. /\ intent[p].state \in ACTIVE_INTENT_STATES => Partly(p)
          /\ \A c \in Actors : In(c, { "answer" }, p) => fills[p] \in 1..Quantity - 1
          /\ \A c \in Actors : In(c, { "settle" }, p) /\ at[c].seen.filled = 0 => fills[p] > 0
      BY <2>1, <3>2 DEF IInv, PartsBooked
    <3>6. intent'[p].state \in ACTIVE_INTENT_STATES => Partly(p)'
      <4>1. ASSUME intent'[p].state \in ACTIVE_INTENT_STATES
            PROVE  intent'[p] = intent[p] /\ intent'[p].state \notin AMBIGUOUS_INTENT_STATES
        BY <3>4, <4>1 DEF Ordinary, ACTIVE_INTENT_STATES, AMBIGUOUS_INTENT_STATES
      <4>2. QED
        BY <2>2, <3>5, <4>1
    <3>7. /\ \A c \in Actors : In(c, { "answer" }, p)' => fills'[p] \in 1..Quantity - 1
          /\ \A c \in Actors : In(c, { "settle" }, p)' /\ at'[c].seen.filled = 0 => fills'[p] > 0
      BY <3>5 DEF In, Alone
    <3>8. QED
      BY <3>6, <3>7
  <2>5. QED
    BY <2>1, <2>3, <2>4 DEF PartsBooked
<1>12. QED
  BY <1>1, <1>4, <1>5, <1>6, <1>7, <1>9, <1>10, <1>11 DEF IInv

\* A step that leaves intents, reservations and fills alone.
LEMMA PaperStep ==
  ASSUME IInv, TypeOK', NEW a \in Actors, Alone(a), SendingInHand',
         UNCHANGED << ledger, order >>, crashes' = 0 => crashes = 0,
         \A q \in Proposals : prop'[q].side = prop[q].side \/ prop[q].status = "none",
         \A q \in Proposals : prop[q].status # "none" => prop'[q].status # "none",
         \A q \in Proposals : approval'[q] # "none" => approval[q] # "none" \/ prop'[q].status # "none",
         at'[a].pc # "idle" => prop'[at'[a].p].status # "none",
         at'[a].pc \in OnIntent => intent[at'[a].p].state # "none",
         at'[a].pc \notin Executing \cup Withdrawing \cup Settling, Carried(a)
  PROVE  IInv'
<1>1. intent' = intent /\ res' = res /\ fills' = fills /\ order' = order
  BY DEF ledger
<1>2. \A q \in Proposals : Ordinary(q)
  BY <1>1 DEF Ordinary
<1>3. RowsExist'
  BY <1>1, RowsStay
<1>4. QED
  BY <1>1, <1>2, <1>3, OrdinaryStep

\* A proposal's status is written.
LEMMA StatusMoves ==
  ASSUME TypeOK, NEW p \in Proposals, NEW s \in ProposalStates, Status(p, s)
  PROVE  /\ prop' \in [Proposals -> Proposal]
         /\ \A q \in Proposals \ { p } : prop'[q] = prop[q]
         /\ prop'[p].status = s /\ prop'[p].side = prop[p].side
         /\ \A q \in Proposals : prop'[q].side = prop[q].side
         /\ \A q \in Proposals : prop[q].status # "none" => prop'[q].status # "none"
<1>1. prop \in [Proposals -> Proposal]
  BY Types
<1>2. prop' = [prop EXCEPT ![p] = [prop[p] EXCEPT !.status = s]]
  BY DEF Status
<1>3. [prop[p] EXCEPT !.status = s] \in Proposal
  BY <1>1 DEF Proposal
<1>4. s # "none"
  BY DEF ProposalStates
<1>5. QED
  BY <1>1, <1>2, <1>3, <1>4 DEF Proposal

\* Where a process may be.
LEMMA PlaceOf ==
  ASSUME TypeOK, NEW a \in Actors
  PROVE  at[a] \in Place /\ at[a].p \in Proposals /\ at[a].pc \in Labels
BY Types DEF Place

(***************************************************************************)
(* A proposal is made, shown and answered.                                 *)
(***************************************************************************)

\* create_proposal: the proposal had no row before, so its side binds nothing.
LEMMA CreateProposalKeeps == ASSUME IInv, NEW p \in Proposals, CreateProposal(p) PROVE IInv'
<1> DEFINE a == "scanner"
           l == IF p \in Autonomous THEN "authorize" ELSE "queue"
<1>0. a \in Actors /\ l \in Labels /\ l \notin OnIntent /\ l # "idle"
  BY DEF Actors, Labels, OnIntent, Executing, Withdrawing, Settling
<1>1. at[a].pc = "idle" /\ prop[p].status = "none" /\ Begin(a, l, p)
  BY DEF CreateProposal, At
<1>2. UNCHANGED << outbox, shown, approval, intent, res, fills, order, late, faults, crashes >>
  BY DEF CreateProposal, display, ledger, outside
<1>3. PICK side \in { "buy", "sell" } : prop' = [prop EXCEPT ![p].side = side, ![p].status = "pending"]
  BY DEF CreateProposal
<1>4. /\ prop' \in [Proposals -> Proposal] /\ prop'[p].status = "pending"
      /\ \A q \in Proposals \ { p } : prop'[q] = prop[q]
  <2>1. prop \in [Proposals -> Proposal]
    BY Types DEF IInv
  <2>2. prop' = [prop EXCEPT ![p] = [prop[p] EXCEPT !.side = side, !.status = "pending"]]
    BY <1>3
  <2>3. [prop[p] EXCEPT !.side = side, !.status = "pending"] \in Proposal
    BY <2>1 DEF Proposal, ProposalStates
  <2>4. QED
    BY <2>1, <2>2, <2>3 DEF Proposal
<1> HIDE DEF a, l
<1>5. at' \in [Actors -> Place] /\ Alone(a) /\ at'[a].pc = l /\ at'[a].p = p
  BY <1>0, <1>1, BeginMoves DEF Alone, IInv
<1>6. TypeOK'
  BY <1>2, <1>4, <1>5, Types, TypesNext DEF IInv
<1>7. SendingInHand'
  BY <1>0, <1>1, <1>2, <1>5, SendingStays
<1>8. Carried(a)
  BY <1>1 DEF Carried
<1>9. QED
  BY <1>0, <1>1, <1>2, <1>4, <1>5, <1>6, <1>7, <1>8, PaperStep DEF ledger, OnIntent

Delivering == { "queue", "claim", "send", "sent", "bind", "undelivered" }

\* A step of a delivery: it ends or goes on, and what it leaves marked as being
\* sent stays in its hands.
LEMMA DeliveryStep ==
  ASSUME IInv, NEW a \in Actors, NEW p \in Proposals, at[a].p = p, at[a].pc \in Delivering,
         Stop(a) \/ \E l \in Delivering : Goto(a, l),
         UNCHANGED << approval, ledger, order, late, crashes >>,
         outbox' \in [Proposals -> { "none", "queued", "sending", "sent", "failed" }],
         shown' \in [Proposals -> BOOLEAN], faults' \in 0..MaxFaults,
         prop' \in [Proposals -> Proposal],
         \A q \in Proposals : prop'[q].side = prop[q].side,
         \A q \in Proposals : prop[q].status # "none" => prop'[q].status # "none",
         \A q \in Proposals \ { p } : outbox'[q] = outbox[q],
         outbox'[p] = "sending" =>
           \/ at'[a].pc \in { "send", "sent", "undelivered" }
           \/ outbox[p] = "sending" /\ at[a].pc \notin { "send", "sent", "undelivered" }
  PROVE  IInv'
<1>0. TypeOK
  BY DEF IInv
<1>1. at' \in [Actors -> Place] /\ Alone(a) /\ (at'[a].pc = "idle" \/ (at'[a].pc \in Delivering /\ at'[a].p = p))
  <2>1. ASSUME NEW l \in Delivering, Goto(a, l)
        PROVE  at' \in [Actors -> Place] /\ Alone(a) /\ at'[a].pc \in Delivering /\ at'[a].p = p
    <3>1. l \in Labels
      BY DEF Labels, Delivering
    <3>2. QED
      BY <1>0, <2>1, <3>1, GoMoves DEF Alone
  <2>2. CASE Stop(a)
    <3>1. at' \in [Actors -> Place] /\ (\A b \in Actors \ { a } : at'[b] = at[b]) /\ at'[a].pc = "idle"
      BY <1>0, <2>2, StopMoves
    <3>2. QED
      BY <3>1 DEF Alone
  <2>3. QED
    BY <2>1, <2>2
<1>2. TypeOK'
  <2>1. UNCHANGED << approval, intent, res, fills, order, late, crashes >>
    BY DEF ledger
  <2>2. QED
    BY <1>1, <2>1, Types, TypesNext DEF IInv
<1>3. SendingInHand'
  <2>1. SUFFICES ASSUME crashes = 0, NEW q \in Proposals, outbox'[q] = "sending"
        PROVE  \E b \in Actors : In(b, { "send", "sent", "undelivered" }, q)'
    BY DEF SendingInHand
  <2>2. CASE outbox[q] = "sending" /\ (q # p \/ at[a].pc \notin { "send", "sent", "undelivered" })
    <3>1. PICK b \in Actors : In(b, { "send", "sent", "undelivered" }, q)
      BY <2>1, <2>2 DEF IInv, SendingInHand
    <3>2. b # a
      BY <2>2, <3>1 DEF In
    <3>3. QED
      BY <1>1, <3>1, <3>2 DEF In, Alone
  <2>3. CASE q = p /\ at'[a].pc \in { "send", "sent", "undelivered" }
    BY <1>1, <2>3 DEF In
  <2>4. QED
    BY <2>1, <2>2, <2>3
<1>4. prop[p].status # "none"
  BY DEF IInv, RowsExist, Delivering
<1>5. Carried(a)
  BY DEF Carried, Delivering
<1>6. at'[a].pc \notin OnIntent
  BY <1>1 DEF OnIntent, Executing, Withdrawing, Settling, Delivering
<1>7. at'[a].pc # "idle" => prop'[at'[a].p].status # "none"
  BY <1>1, <1>4
<1>8. QED
  BY <1>1, <1>2, <1>3, <1>5, <1>6, <1>7, PaperStep DEF OnIntent

\* The outbox of one proposal is written.
LEMMA OutboxMoves ==
  ASSUME TypeOK, NEW p \in Proposals, NEW s \in { "none", "queued", "sending", "sent", "failed" },
         outbox' = [outbox EXCEPT ![p] = s]
  PROVE  /\ outbox' \in [Proposals -> { "none", "queued", "sending", "sent", "failed" }]
         /\ outbox'[p] = s /\ \A q \in Proposals \ { p } : outbox'[q] = outbox[q]
BY Types

\* The display of a proposal, from the queue to the bound message.
LEMMA DeliverKeeps ==
  ASSUME IInv, NEW a \in Actors, NEW p \in Proposals, Deliver(a, p) PROVE IInv'
<1>0. TypeOK /\ prop \in [Proposals -> Proposal] /\ shown \in [Proposals -> BOOLEAN]
      /\ outbox \in [Proposals -> { "none", "queued", "sending", "sent", "failed" }]
      /\ faults \in 0..MaxFaults
  BY Types DEF IInv
<1> USE DEF Delivering
<1>1. CASE QueueDisplay(a, p)
  <2>1. /\ at[a].pc = "queue" /\ at[a].p = p
        /\ UNCHANGED << prop, shown, approval, ledger, order, late, faults, crashes >>
        /\ \/ Stop(a) /\ UNCHANGED outbox
           \/ outbox' = [outbox EXCEPT ![p] = "queued"] /\ Goto(a, "claim")
    BY <1>1 DEF QueueDisplay, At, outside
  <2>2. QED
    BY <1>0, <2>1, DeliveryStep, OutboxMoves
<1>2. CASE ClaimDisplay(a, p)
  <2>1. /\ at[a].pc = "claim" /\ at[a].p = p
        /\ UNCHANGED << prop, shown, approval, ledger, order, late, faults, crashes >>
        /\ \/ outbox' = [outbox EXCEPT ![p] = "sending"] /\ Goto(a, "send")
           \/ Goto(a, "undelivered") /\ UNCHANGED outbox
    BY <1>2 DEF ClaimDisplay, At, outside
  <2>2. at'[a].pc \in { "send", "undelivered" }
    BY <1>0, <2>1, GoMoves DEF Labels
  <2>3. QED
    BY <1>0, <2>1, <2>2, DeliveryStep, OutboxMoves
<1>3. CASE SendDisplay(a, p)
  <2>1. /\ at[a].pc = "send" /\ at[a].p = p
        /\ UNCHANGED << prop, outbox, approval, ledger, order, late, crashes >>
        /\ shown' = [shown EXCEPT ![p] = TRUE] \/ shown' = shown
        /\ Goto(a, "sent") \/ Goto(a, "undelivered")
        /\ faults' = faults \/ Fault
    BY <1>3 DEF SendDisplay, At
  <2>2. at'[a].pc \in { "sent", "undelivered" }
    BY <1>0, <2>1, GoMoves DEF Labels
  <2>3. faults' \in 0..MaxFaults /\ shown' \in [Proposals -> BOOLEAN]
    BY <1>0, <2>1, FaultTyped
  <2>4. QED
    BY <1>0, <2>1, <2>2, <2>3, DeliveryStep
<1>4. CASE MarkSent(a, p)
  <2>1. /\ at[a].pc = "sent" /\ at[a].p = p
        /\ UNCHANGED << prop, shown, approval, ledger, order, late, faults, crashes >>
        /\ \/ outbox' = [outbox EXCEPT ![p] = "sent"] /\ Goto(a, "bind")
           \/ outbox[p] # "sending" /\ Goto(a, "undelivered") /\ UNCHANGED outbox
    BY <1>4 DEF MarkSent, At, outside
  <2>2. QED
    BY <1>0, <2>1, DeliveryStep, OutboxMoves
<1>5. CASE BindDisplay(a, p)
  <2>1. /\ at[a].pc = "bind" /\ at[a].p = p
        /\ UNCHANGED << outbox, shown, approval, ledger, order, late, faults, crashes >>
        /\ \/ prop' = [prop EXCEPT ![p].bound = TRUE] /\ Stop(a)
           \/ Goto(a, "undelivered") /\ UNCHANGED prop
    BY <1>5 DEF BindDisplay, At, outside, display
  <2>2. /\ prop' \in [Proposals -> Proposal]
        /\ \A q \in Proposals : prop'[q].side = prop[q].side /\ prop'[q].status = prop[q].status
    <3> DEFINE r == [prop[p] EXCEPT !.bound = TRUE]
    <3>1. prop' = [prop EXCEPT ![p] = r] \/ prop' = prop
      BY <2>1
    <3>2. r \in Proposal /\ r.side = prop[p].side /\ r.status = prop[p].status
      BY <1>0 DEF Proposal
    <3> HIDE DEF r
    <3>3. QED
      BY <1>0, <3>1, <3>2
  <2>3. QED
    BY <1>0, <2>1, <2>2, DeliveryStep
<1>6. CASE Undelivered(a, p)
  <2>1. /\ at[a].pc = "undelivered" /\ at[a].p = p /\ Stop(a)
        /\ UNCHANGED << shown, approval, ledger, order, late, faults, crashes >>
        /\ outbox' = [outbox EXCEPT ![p] = IF @ \in { "queued", "sending" } THEN "failed" ELSE @]
        /\ prop' = [prop EXCEPT ![p].status = IF @ = "pending" THEN "manual_review" ELSE @]
    BY <1>6 DEF Undelivered, At, outside
  <2>2. /\ prop' \in [Proposals -> Proposal]
        /\ \A q \in Proposals : prop'[q].side = prop[q].side
        /\ \A q \in Proposals : prop[q].status # "none" => prop'[q].status # "none"
    BY <1>0, <2>1 DEF Proposal, ProposalStates
  <2>3. /\ outbox' \in [Proposals -> { "none", "queued", "sending", "sent", "failed" }]
        /\ outbox'[p] # "sending" /\ \A q \in Proposals \ { p } : outbox'[q] = outbox[q]
    BY <1>0, <2>1
  <2>4. QED
    BY <1>0, <2>1, <2>2, <2>3, DeliveryStep
<1>7. QED
  BY <1>1, <1>2, <1>3, <1>4, <1>5, <1>6 DEF Deliver

\* recover_telegram_outbox gives up sends of another process too.
LEMMA RecoverOutboxKeeps == ASSUME IInv, NEW a \in Actors, RecoverOutbox(a) PROVE IInv'
<1>0. TypeOK /\ prop \in [Proposals -> Proposal] /\ at \in [Actors -> Place]
      /\ outbox \in [Proposals -> { "none", "queued", "sending", "sent", "failed" }]
  BY Types DEF IInv
<1>1. /\ at[a].pc = "idle"
      /\ outbox' = [q \in Proposals |-> IF outbox[q] = "sending" THEN "failed" ELSE outbox[q]]
      /\ UNCHANGED << shown, approval, intent, res, fills, order, late, faults, crashes, at >>
  BY DEF RecoverOutbox, At, ledger, outside
<1>2. prop' = [q \in Proposals |-> [prop[q] EXCEPT !.status =
                 IF outbox[q] = "sending" /\ prop[q].status = "pending" THEN "manual_review" ELSE prop[q].status]]
  BY DEF RecoverOutbox
<1>3. /\ prop' \in [Proposals -> Proposal]
      /\ \A q \in Proposals : prop'[q].side = prop[q].side
      /\ \A q \in Proposals : prop[q].status # "none" => prop'[q].status # "none"
  BY <1>0, <1>2 DEF Proposal, ProposalStates
<1>4. outbox' \in [Proposals -> { "none", "queued", "sending", "sent", "failed" }]
      /\ \A q \in Proposals : outbox'[q] # "sending"
  BY <1>0, <1>1
<1>5. TypeOK'
  BY <1>0, <1>1, <1>3, <1>4, Types, TypesNext
<1>6. Alone(a) /\ SendingInHand' /\ Carried(a)
  BY <1>1, <1>4 DEF Alone, SendingInHand, Carried
<1>7. at'[a].pc = "idle" /\ "idle" \notin OnIntent
  BY <1>1 DEF OnIntent, Executing, Withdrawing, Settling
<1>8. QED
  BY <1>1, <1>3, <1>5, <1>6, <1>7, PaperStep DEF ledger, OnIntent

\* approve_proposal: the listener takes up the approved proposal.
LEMMA ApproveKeeps == ASSUME IInv, NEW p \in Proposals, Approve(p) PROVE IInv'
<1> DEFINE a == "listener"
<1>0. TypeOK /\ approval \in [Proposals -> { "none", "active", "consumed", "expired" }]
  BY Types DEF IInv
<1>1. /\ at[a].pc = "idle" /\ prop[p].status = "pending"
      /\ approval' = [approval EXCEPT ![p] = "active"] /\ Status(p, "approved")
      /\ Begin(a, "intent", p)
      /\ UNCHANGED << outbox, shown, intent, res, fills, order, late, faults, crashes >>
  BY DEF Approve, At, answerable, display, ledger, outside
<1>2. /\ prop' \in [Proposals -> Proposal] /\ prop'[p].status = "approved"
      /\ \A q \in Proposals : prop'[q].side = prop[q].side
      /\ \A q \in Proposals : prop[q].status # "none" => prop'[q].status # "none"
  BY <1>0, <1>1, StatusMoves DEF ProposalStates
<1>3. a \in Actors /\ "intent" \in Labels /\ "intent" \notin OnIntent
  BY DEF Actors, Labels, OnIntent, Executing, Withdrawing, Settling
<1> HIDE DEF a
<1>4. at' \in [Actors -> Place] /\ Alone(a) /\ at'[a].pc = "intent" /\ at'[a].p = p
  BY <1>0, <1>1, <1>3, BeginMoves DEF Alone
<1>5. TypeOK'
  BY <1>0, <1>1, <1>2, <1>4, Types, TypesNext
<1>6. SendingInHand' /\ Carried(a)
  BY <1>1, <1>3, <1>4, SendingStays DEF Carried
<1>7. QED
  BY <1>0, <1>1, <1>2, <1>3, <1>4, <1>5, <1>6, PaperStep DEF ledger, OnIntent

\* reject_proposal.
LEMMA RejectKeeps == ASSUME IInv, NEW p \in Proposals, Reject(p) PROVE IInv'
<1> DEFINE a == "listener"
<1>0. TypeOK /\ at \in [Actors -> Place]
  BY Types DEF IInv
<1>1. /\ at[a].pc = "idle" /\ Status(p, "rejected")
      /\ UNCHANGED << outbox, shown, approval, intent, res, fills, order, late, faults, crashes, at >>
  BY DEF Reject, At, display, ledger, outside
<1>2. /\ prop' \in [Proposals -> Proposal]
      /\ \A q \in Proposals : prop'[q].side = prop[q].side
      /\ \A q \in Proposals : prop[q].status # "none" => prop'[q].status # "none"
  BY <1>0, <1>1, StatusMoves DEF ProposalStates
<1>3. a \in Actors /\ at'[a].pc = "idle" /\ "idle" \notin OnIntent
  BY <1>1 DEF Actors, OnIntent, Executing, Withdrawing, Settling
<1> HIDE DEF a
<1>5. TypeOK'
  BY <1>0, <1>1, <1>2, Types, TypesNext
<1>6. Alone(a) /\ SendingInHand' /\ Carried(a)
  BY <1>1, <1>3, SendingStays DEF Carried, Alone
<1>7. QED
  BY <1>1, <1>2, <1>3, <1>5, <1>6, PaperStep DEF ledger, OnIntent

\* The expiry of a proposal passes.
LEMMA ExpiresKeeps == ASSUME IInv, NEW p \in Proposals, Expires(p) PROVE IInv'
<1>0. TypeOK /\ late \in [Proposals -> BOOLEAN] /\ at \in [Actors -> Place]
  BY Types DEF IInv
<1>1. /\ late' = [late EXCEPT ![p] = TRUE]
      /\ UNCHANGED << prop, outbox, shown, approval, intent, res, fills, order, faults, crashes, at >>
  BY DEF Expires, display, ledger
<1>2. TypeOK'
  BY <1>0, <1>1, Types, TypesNext
<1>3. UNCHANGED << prop, outbox, shown, approval, intent, res, fills, order, faults, crashes, at >>
  BY <1>1
<1>4. /\ RowsExist' /\ SendingInHand' /\ OrdersAre' /\ SubmissionHolds' /\ OneEngaged' /\ SeenIsPast'
      /\ BookedWithinBroker' /\ EndsBooked' /\ WithdrawsTo' /\ PartsBooked'
  <2>1. RowsExist' /\ SendingInHand' /\ OrdersAre' /\ WithdrawsTo'
    BY <1>3 DEF IInv, RowsExist, SendingInHand, In, OrdersAre, WithdrawsTo
  <2>2. SubmissionHolds' /\ OneEngaged' /\ SeenIsPast'
    BY <1>3 DEF IInv, SubmissionHolds, OneEngaged, SeenIsPast, Engaged, Live, In, InForce
  <2>3. BookedWithinBroker' /\ EndsBooked' /\ PartsBooked'
    BY <1>3 DEF IInv, BookedWithinBroker, Lots, signed, EndsBooked, Finishing, PartsBooked, Partly, In
  <2>4. QED
    BY <2>1, <2>2, <2>3
<1>5. QED
  BY <1>2, <1>4 DEF IInv

\* A crash drops what a process has in hand; from then on nothing is said of it.
LEMMA CrashKeeps == ASSUME IInv, NEW a \in Actors, Crash(a) PROVE IInv'
<1>0. TypeOK /\ crashes \in 0..MaxFaults /\ faults \in 0..MaxFaults
  BY Types DEF IInv
<1>1. /\ faults + crashes < MaxFaults /\ crashes' = crashes + 1 /\ Stop(a)
      /\ UNCHANGED << prop, outbox, shown, approval, intent, res, fills, order, late, faults >>
  BY DEF Crash, display, ledger
<1>2. crashes' \in 0..MaxFaults /\ crashes' # 0
  BY <1>0, <1>1, CryptoLaneAssumption
<1>3. at' \in [Actors -> Place] /\ Alone(a) /\ at'[a].pc = "idle"
  <2>1. at' \in [Actors -> Place] /\ (\A b \in Actors \ { a } : at'[b] = at[b]) /\ at'[a].pc = "idle"
    BY <1>0, <1>1, StopMoves
  <2>2. QED
    BY <2>1 DEF Alone
<1>4. TypeOK'
  BY <1>0, <1>1, <1>2, <1>3, Types, TypesNext
<1>5. SendingInHand' /\ Carried(a)
  BY <1>2 DEF SendingInHand, Carried
<1>6. "idle" \notin OnIntent
  BY DEF OnIntent, Executing, Withdrawing, Settling
<1>7. QED
  BY <1>1, <1>2, <1>3, <1>4, <1>5, <1>6, PaperStep DEF ledger, OnIntent

\* The sweep takes an intent up.
LEMMA SweepKeeps == ASSUME IInv, NEW a \in Actors, NEW p \in Proposals, Sweep(a, p) PROVE IInv'
<1>0. TypeOK
  BY DEF IInv
<1>1. /\ at[a].pc = "idle" /\ intent[p].invoked
      /\ UNCHANGED << prop, outbox, shown, approval, intent, res, fills, order, late, faults, crashes >>
      /\ Begin(a, "cancel", p) \/ Begin(a, "lookup", p)
  BY DEF Sweep, At, display, ledger, outside
<1>2. at' \in [Actors -> Place] /\ Alone(a) /\ at'[a].pc \in { "cancel", "lookup" } /\ at'[a].p = p
  <2>1. "cancel" \in Labels /\ "lookup" \in Labels
    BY DEF Labels
  <2>2. QED
    BY <1>0, <1>1, <2>1, BeginMoves DEF Alone
<1>3. TypeOK'
  BY <1>0, <1>1, <1>2, Types, TypesNext
<1>4. SendingInHand' /\ Carried(a)
  BY <1>1, <1>2, SendingStays DEF Carried
<1>5. intent[p].state # "none" /\ prop[p].status # "none"
  BY <1>1 DEF IInv, RowsExist
<1>6. at'[a].pc \notin Executing \cup Withdrawing \cup Settling
  BY <1>2 DEF Executing, Withdrawing, Settling
<1>7. QED
  BY <1>1, <1>2, <1>3, <1>4, <1>5, <1>6, PaperStep DEF ledger

\* The policy approves a proposal.
LEMMA AuthorizeKeeps == ASSUME IInv, NEW a \in Actors, NEW p \in Proposals, Authorize(a, p) PROVE IInv'
<1>0. TypeOK /\ prop \in [Proposals -> Proposal]
      /\ approval \in [Proposals -> { "none", "active", "consumed", "expired" }]
  BY Types DEF IInv
<1>1. /\ at[a].pc = "authorize" /\ at[a].p = p
      /\ UNCHANGED << outbox, shown, intent, res, fills, order, late, faults, crashes >>
  BY DEF Authorize, At, display, ledger, outside
<1>2. \/ /\ prop' = [prop EXCEPT ![p].bound = TRUE, ![p].status = IF @ = "pending" THEN "approved" ELSE @]
         /\ approval' = [approval EXCEPT ![p] = IF @ = "none" THEN "active" ELSE @]
         /\ Goto(a, "intent")
      \/ Stop(a) /\ prop' = prop /\ approval' = approval
  BY DEF Authorize
<1>3. /\ prop' \in [Proposals -> Proposal]
      /\ \A q \in Proposals : prop'[q].side = prop[q].side
      /\ \A q \in Proposals : prop[q].status # "none" => prop'[q].status # "none"
  <2> DEFINE r == [prop[p] EXCEPT !.bound = TRUE, !.status = IF @ = "pending" THEN "approved" ELSE @]
  <2>1. prop' = [prop EXCEPT ![p] = r] \/ prop' = prop
    BY <1>2
  <2>2. r \in Proposal /\ r.side = prop[p].side /\ (prop[p].status # "none" => r.status # "none")
    BY <1>0 DEF Proposal, ProposalStates
  <2> HIDE DEF r
  <2>3. QED
    BY <1>0, <2>1, <2>2
<1>4. prop[p].status # "none"
  BY <1>1 DEF IInv, RowsExist
<1>5. /\ approval' \in [Proposals -> { "none", "active", "consumed", "expired" }]
      /\ \A q \in Proposals : approval'[q] # "none" => approval[q] # "none" \/ q = p
  BY <1>0, <1>2
<1>6. at' \in [Actors -> Place] /\ Alone(a) /\ at'[a].pc \in { "intent", "idle" }
      /\ (at'[a].pc # "idle" => at'[a].p = p)
  <2>1. "intent" \in Labels
    BY DEF Labels
  <2>2. QED
    BY <1>0, <1>1, <1>2, <2>1, GoMoves, StopMoves DEF Alone
<1>7. TypeOK'
  BY <1>0, <1>1, <1>3, <1>5, <1>6, Types, TypesNext
<1>8. SendingInHand' /\ Carried(a)
  BY <1>1, <1>6, SendingStays DEF Carried
<1>9. at'[a].pc \notin OnIntent
  BY <1>6 DEF OnIntent, Executing, Withdrawing, Settling
<1>10. QED
  BY <1>1, <1>3, <1>4, <1>5, <1>6, <1>7, <1>8, <1>9, PaperStep DEF ledger, OnIntent

(***************************************************************************)
(* An intent is made and executed.                                         *)
(***************************************************************************)

\* The state of one intent is written.
LEMMA IntentMoves ==
  ASSUME TypeOK, NEW p \in Proposals, NEW s \in IntentStates, IntentState(p, s)
  PROVE  /\ intent' \in [Proposals -> Intent]
         /\ \A q \in Proposals \ { p } : intent'[q] = intent[q]
         /\ intent'[p].state = s /\ intent'[p].invoked = intent[p].invoked
<1>1. intent \in [Proposals -> Intent]
  BY Types
<1> DEFINE r == [intent[p] EXCEPT !.state = s]
<1>2. intent' = [intent EXCEPT ![p] = r]
  BY DEF IntentState
<1>3. r \in Intent /\ r.state = s /\ r.invoked = intent[p].invoked
  BY <1>1 DEF Intent
<1> HIDE DEF r
<1>4. QED
  BY <1>1, <1>2, <1>3

\* A reservation is released.
LEMMA ReleaseMoves ==
  ASSUME TypeOK, NEW p \in Proposals
  PROVE  /\ Released(p) \in [Proposals -> Reservation]
         /\ \A q \in Proposals \ { p } : Released(p)[q] = res[q]
         /\ Released(p)[p].state # "active"
         /\ res[p].state # "none" => Released(p)[p].state # "none"
<1>1. res \in [Proposals -> Reservation]
  BY Types
<1> DEFINE r == [state |-> "released", units |-> 0]
<1>2. r \in Reservation /\ r.state = "released"
  BY CryptoLaneAssumption DEF Reservation
<1>3. Released(p) = [res EXCEPT ![p] = IF res[p].state = "active" THEN r ELSE res[p]]
  BY DEF Released
<1> HIDE DEF r
<1>4. QED
  BY <1>1, <1>2, <1>3

\* Approvals are only ended.
LEMMA ApprovalMoves ==
  ASSUME TypeOK, NEW p \in Proposals,
         \/ approval' = approval
         \/ approval' = [approval EXCEPT ![p] = "consumed"]
         \/ approval' = [approval EXCEPT ![p] = IF @ = "none" THEN @ ELSE "expired"]
  PROVE  /\ approval' \in [Proposals -> { "none", "active", "consumed", "expired" }]
         /\ \A q \in Proposals \ { p } : approval'[q] = approval[q]
BY Types

\* A process works on its intent in an ordinary way.
LEMMA IntentStep ==
  ASSUME IInv, NEW a \in Actors, NEW p \in Proposals,
         at[a].p = p, at[a].pc \in OnIntent \cup { "intent" },
         at' \in [Actors -> Place], Alone(a),
         at'[a].pc \notin Executing \cup Withdrawing \cup Settling,
         at'[a].pc # "idle" => at'[a].p = p,
         at'[a].pc \in OnIntent => intent'[p].state # "none",
         UNCHANGED << display, fills, order, late, crashes >>,
         prop' \in [Proposals -> Proposal], intent' \in [Proposals -> Intent],
         res' \in [Proposals -> Reservation], faults' \in 0..MaxFaults,
         approval' \in [Proposals -> { "none", "active", "consumed", "expired" }],
         \A q \in Proposals : prop'[q].side = prop[q].side,
         \A q \in Proposals : prop[q].status # "none" => prop'[q].status # "none",
         \A q \in Proposals \ { p } :
           intent'[q] = intent[q] /\ res'[q] = res[q] /\ approval'[q] = approval[q],
         intent[p].state # "none" => intent'[p].state # "none",
         res[p].state # "none" \/ intent'[p].state # "none" => res'[p].state # "none",
         intent'[p].invoked => intent[p].invoked \/ intent'[p].state # "none",
         Ordinary(p), Carried(a)
  PROVE  IInv'
<1>1. TypeOK'
  <2>1. outbox' = outbox /\ shown' = shown
    BY DEF display
  <2>2. QED
    BY <2>1, Types, TypesNext DEF IInv
<1>2. at[a].pc \notin { "idle", "send", "sent", "undelivered" }
  BY DEF OnIntent, Executing, Withdrawing, Settling
<1>3. prop[p].status # "none" /\ prop'[p].status # "none"
  BY <1>2 DEF IInv, RowsExist
<1>4. SendingInHand'
  BY <1>2, SendingStays DEF display
<1>5. RowsExist'
  <2>1. \A q \in Proposals : intent[q].state # "none" => intent'[q].state # "none"
    OBVIOUS
  <2>2. \A q \in Proposals : res[q].state # "none" => res'[q].state # "none"
    OBVIOUS
  <2>3. \A q \in Proposals : approval'[q] # "none" => approval[q] # "none" \/ prop'[q].status # "none"
    BY <1>3
  <2>4. \A q \in Proposals : intent'[q].state # "none" =>
          intent[q].state # "none" \/ (prop'[q].status # "none" /\ res'[q].state # "none")
    BY <1>3
  <2>5. \A q \in Proposals : intent'[q].invoked => intent[q].invoked \/ intent'[q].state # "none"
    OBVIOUS
  <2>6. /\ at'[a].pc # "idle" => prop'[at'[a].p].status # "none"
        /\ at'[a].pc \in OnIntent => intent'[at'[a].p].state # "none"
    BY <1>3 DEF OnIntent, Executing, Withdrawing, Settling
  <2>7. QED
    BY <1>1, <2>1, <2>2, <2>3, <2>4, <2>5, <2>6, RowsStay
<1>6. \A q \in Proposals : Ordinary(q)
  BY DEF Ordinary
<1>7. QED
  BY <1>1, <1>4, <1>5, <1>6, OrdinaryStep

\* create_intent: the intent begins with its reservation and without the mark.
LEMMA CreateIntentKeeps ==
  ASSUME IInv, NEW a \in Actors, NEW p \in Proposals, CreateIntent(a, p) PROVE IInv'
<1>0. TypeOK /\ prop \in [Proposals -> Proposal] /\ intent \in [Proposals -> Intent]
      /\ res \in [Proposals -> Reservation] /\ faults \in 0..MaxFaults
      /\ approval \in [Proposals -> { "none", "active", "consumed", "expired" }]
  BY Types DEF IInv
<1>1. /\ at[a].pc = "intent" /\ at[a].p = p
      /\ UNCHANGED << display, fills, order, late, faults, crashes >>
  BY DEF CreateIntent, At, outside
<1> DEFINE r == [state |-> "active", units |-> Quantity]
<1>2. \/ /\ intent[p] = NoIntent /\ IntentState(p, "reserved")
         /\ res' = [res EXCEPT ![p] = r]
         /\ approval' = [approval EXCEPT ![p] = "consumed"]
         /\ Status(p, "intent_created") /\ Goto(a, "reload")
      \/ Stop(a) /\ UNCHANGED << prop, intent, res, approval >>
  BY DEF CreateIntent, IntentState
<1>3. "reload" \in Labels /\ "reserved" \in IntentStates /\ "intent_created" \in ProposalStates
  BY DEF Labels, IntentStates, ACTIVE_INTENT_STATES, ProposalStates
<1>4. r \in Reservation /\ r.state = "active"
  BY CryptoLaneAssumption DEF Reservation
<1> HIDE DEF r
<1>5. Carried(a)
  BY <1>1 DEF Carried
<1>6. "intent" \in OnIntent \cup { "intent" } /\ "idle" \notin Executing \cup Withdrawing \cup Settling
      /\ "reload" \notin Executing \cup Withdrawing \cup Settling /\ "idle" \notin OnIntent
  BY DEF OnIntent, Executing, Withdrawing, Settling
<1>7. CASE Stop(a) /\ UNCHANGED << prop, intent, res, approval >>
  <2>1. at' \in [Actors -> Place] /\ Alone(a) /\ at'[a].pc = "idle"
    BY <1>0, <1>7, StopMoves DEF Alone
  <2>2. Ordinary(p)
    BY <1>7 DEF Ordinary
  <2>3. intent[p].state # "none" => res[p].state # "none"
    BY DEF IInv, RowsExist
  <2>4. intent[p].invoked => intent[p].state # "none"
    BY DEF IInv, RowsExist
  <2>5. QED
    BY <1>0, <1>1, <1>5, <1>6, <1>7, <2>1, <2>2, <2>3, <2>4, IntentStep
<1>8. CASE /\ intent[p] = NoIntent /\ IntentState(p, "reserved")
           /\ res' = [res EXCEPT ![p] = r]
           /\ approval' = [approval EXCEPT ![p] = "consumed"]
           /\ Status(p, "intent_created") /\ Goto(a, "reload")
  <2>1. at' \in [Actors -> Place] /\ Alone(a) /\ at'[a].pc = "reload" /\ at'[a].p = p
    BY <1>0, <1>1, <1>3, <1>8, GoMoves DEF Alone
  <2>2. /\ intent' \in [Proposals -> Intent]
        /\ \A q \in Proposals \ { p } : intent'[q] = intent[q]
        /\ intent'[p].state = "reserved" /\ intent'[p].invoked = intent[p].invoked
    BY <1>0, <1>3, <1>8, IntentMoves
  <2>3. ~intent[p].invoked
    BY <1>8 DEF NoIntent
  <2>4. /\ res' \in [Proposals -> Reservation] /\ res'[p].state = "active"
        /\ \A q \in Proposals \ { p } : res'[q] = res[q]
    BY <1>0, <1>4, <1>8
  <2>5. Ordinary(p)
    BY <2>2, <2>3 DEF Ordinary
  <2>6. /\ prop' \in [Proposals -> Proposal]
        /\ \A q \in Proposals : prop'[q].side = prop[q].side
        /\ \A q \in Proposals : prop[q].status # "none" => prop'[q].status # "none"
    BY <1>0, <1>3, <1>8, StatusMoves
  <2>7. /\ approval' \in [Proposals -> { "none", "active", "consumed", "expired" }]
        /\ \A q \in Proposals \ { p } : approval'[q] = approval[q]
    BY <1>0, <1>8, ApprovalMoves
  <2>8. QED
    BY <1>0, <1>1, <1>5, <1>6, <2>1, <2>2, <2>3, <2>4, <2>5, <2>6, <2>7, IntentStep
<1>9. QED
  BY <1>2, <1>7, <1>8

\* A process on an intent ends, or goes on, without anything written.
LEMMA NothingWritten ==
  ASSUME IInv, NEW a \in Actors, NEW p \in Proposals,
         at[a].p = p, at[a].pc \in OnIntent, Stop(a) \/ Goto(a, "final") \/ Goto(a, "unsure"),
         UNCHANGED << prop, approval, intent, res, display, fills, order, late, crashes >>,
         faults' \in 0..MaxFaults, Carried(a)
  PROVE  IInv'
<1>0. TypeOK /\ prop \in [Proposals -> Proposal] /\ intent \in [Proposals -> Intent]
      /\ res \in [Proposals -> Reservation]
      /\ approval \in [Proposals -> { "none", "active", "consumed", "expired" }]
  BY Types DEF IInv
<1>1. at' \in [Actors -> Place] /\ Alone(a) /\ at'[a].pc \in { "idle", "final", "unsure" }
      /\ (at'[a].pc # "idle" => at'[a].p = p)
  <2>1. "final" \in Labels /\ "unsure" \in Labels
    BY DEF Labels
  <2>2. QED
    BY <1>0, <2>1, StopMoves, GoMoves DEF Alone
<1>2. Ordinary(p)
  BY DEF Ordinary
<1>3. intent[p].state # "none" /\ res[p].state # "none"
  BY DEF IInv, RowsExist
<1>4. at'[a].pc \notin Executing \cup Withdrawing \cup Settling
  BY <1>1 DEF Executing, Withdrawing, Settling
<1>5. QED
  BY <1>0, <1>1, <1>2, <1>3, <1>4, IntentStep

\* A process ends after it has written the state of its intent, which keeps its
\* mark and its reservation; the proposal is written or not.
LEMMA StateWritten ==
  ASSUME IInv, NEW a \in Actors, NEW p \in Proposals, NEW s \in IntentStates,
         at[a].p = p, at[a].pc \in OnIntent, Stop(a), IntentState(p, s),
         \/ s \in AMBIGUOUS_INTENT_STATES
         \/ s \notin { "filled", "partially_filled" } /\ ~intent[p].invoked,
         prop' = prop \/ \E t \in ProposalStates : Status(p, t),
         UNCHANGED << approval, res, display, fills, order, late, crashes >>,
         faults' \in 0..MaxFaults, Carried(a)
  PROVE  IInv'
<1>0. TypeOK /\ prop \in [Proposals -> Proposal] /\ res \in [Proposals -> Reservation]
      /\ approval \in [Proposals -> { "none", "active", "consumed", "expired" }]
  BY Types DEF IInv
<1>1. at' \in [Actors -> Place] /\ Alone(a) /\ at'[a].pc = "idle"
  BY <1>0, StopMoves DEF Alone
<1>2. /\ intent' \in [Proposals -> Intent]
      /\ \A q \in Proposals \ { p } : intent'[q] = intent[q]
      /\ intent'[p].state = s /\ intent'[p].invoked = intent[p].invoked
  BY <1>0, IntentMoves
<1>3. /\ prop' \in [Proposals -> Proposal]
      /\ \A q \in Proposals : prop'[q].side = prop[q].side
      /\ \A q \in Proposals : prop[q].status # "none" => prop'[q].status # "none"
  BY <1>0, StatusMoves
<1>4. intent[p].state # "none" /\ res[p].state # "none"
  BY DEF IInv, RowsExist
<1>5. s # "none"
  BY DEF IntentStates, TERMINAL_INTENT_STATES, ACTIVE_INTENT_STATES, AMBIGUOUS_INTENT_STATES
<1>6. Ordinary(p)
  BY <1>2 DEF Ordinary
<1>7. "idle" \notin Executing \cup Withdrawing \cup Settling \cup OnIntent
  BY DEF OnIntent, Executing, Withdrawing, Settling
<1>8. QED
  BY <1>0, <1>1, <1>2, <1>3, <1>4, <1>5, <1>6, <1>7, IntentStep

\* An intent that never reached the broker is closed.
LEMMA IntentClosed ==
  ASSUME IInv, NEW a \in Actors, NEW p \in Proposals, NEW s \in { "expired", "cancelled" },
         at[a].p = p, at[a].pc \in OnIntent, Stop(a), IntentState(p, s), res' = Released(p),
         ~intent[p].invoked, \E t \in ProposalStates : Status(p, t),
         approval' = [approval EXCEPT ![p] = IF @ = "none" THEN @ ELSE "expired"],
         UNCHANGED << display, fills, order, late, faults, crashes >>, Carried(a)
  PROVE  IInv'
<1>0. TypeOK /\ prop \in [Proposals -> Proposal] /\ faults \in 0..MaxFaults /\ s \in IntentStates
  BY Types DEF IInv, IntentStates, TERMINAL_INTENT_STATES
<1>1. at' \in [Actors -> Place] /\ Alone(a) /\ at'[a].pc = "idle"
  BY <1>0, StopMoves DEF Alone
<1>2. /\ intent' \in [Proposals -> Intent]
      /\ \A q \in Proposals \ { p } : intent'[q] = intent[q]
      /\ intent'[p].state = s /\ intent'[p].invoked = intent[p].invoked
  BY <1>0, IntentMoves
<1>3. /\ prop' \in [Proposals -> Proposal]
      /\ \A q \in Proposals : prop'[q].side = prop[q].side
      /\ \A q \in Proposals : prop[q].status # "none" => prop'[q].status # "none"
  BY <1>0, StatusMoves
<1>4. intent[p].state # "none" /\ res[p].state # "none"
  BY DEF IInv, RowsExist
<1>5. /\ res' \in [Proposals -> Reservation] /\ res'[p].state # "none"
      /\ \A q \in Proposals \ { p } : res'[q] = res[q]
  BY <1>0, <1>4, ReleaseMoves
<1>6. /\ approval' \in [Proposals -> { "none", "active", "consumed", "expired" }]
      /\ \A q \in Proposals \ { p } : approval'[q] = approval[q]
  BY <1>0, ApprovalMoves
<1>7. Ordinary(p)
  BY <1>2 DEF Ordinary
<1>8. "idle" \notin Executing \cup Withdrawing \cup Settling \cup OnIntent
  BY DEF OnIntent, Executing, Withdrawing, Settling
<1>9. QED
  BY <1>0, <1>1, <1>2, <1>3, <1>4, <1>5, <1>6, <1>7, <1>8, IntentStep

\* execute_intent before its transaction; a failed reload writes only what has no mark.
LEMMA ReloadKeeps ==
  ASSUME IInv, NEW a \in Actors, NEW p \in Proposals, Reload(a, p) PROVE IInv'
<1>0. TypeOK /\ faults \in 0..MaxFaults
  BY Types DEF IInv
<1>1. /\ at[a].pc = "reload" /\ at[a].p = p
      /\ UNCHANGED << prop, display, approval, res, fills, order, late, crashes >>
      /\ faults' = faults \/ Fault
      /\ \/ intent' = intent /\ (Stop(a) \/ Goto(a, "final"))
         \/ Stop(a) /\ ~intent[p].invoked /\ IntentState(p, "retryable_pre_submission")
  BY DEF Reload, At
<1>2. faults' \in 0..MaxFaults
  BY <1>0, <1>1, FaultTyped
<1>3. Carried(a) /\ at[a].pc \in OnIntent /\ "retryable_pre_submission" \in IntentStates
  BY <1>1 DEF Carried, OnIntent, IntentStates, ACTIVE_INTENT_STATES
<1>4. QED
  BY <1>1, <1>2, <1>3, NothingWritten, StateWritten

\* The mark is set: the process is the only one to send, and for the only
\* intent in force.
LEMMA ClaimMarks ==
  ASSUME IInv, NEW a \in Actors, NEW p \in Proposals, at[a].pc = "final", at[a].p = p,
         ~intent[p].invoked, no_other_intent(p), authority_stands(p),
         intent' = [intent EXCEPT ![p].state = "submitting", ![p].invoked = TRUE],
         Goto(a, "submit"),
         UNCHANGED << prop, approval, res, display, fills, order, late, faults, crashes >>
  PROVE  IInv'
<1>0. TypeOK /\ intent \in [Proposals -> Intent] /\ order \in [Proposals -> Order] /\ at \in [Actors -> Place]
  BY Types DEF IInv
<1> DEFINE r == [intent[p] EXCEPT !.state = "submitting", !.invoked = TRUE]
<1>1. intent' = [intent EXCEPT ![p] = r] /\ r \in Intent /\ r.state = "submitting" /\ r.invoked = TRUE
  BY <1>0 DEF Intent, IntentStates, ACTIVE_INTENT_STATES
<1> HIDE DEF r
<1>2. /\ intent' \in [Proposals -> Intent] /\ intent'[p].state = "submitting" /\ intent'[p].invoked
      /\ \A q \in Proposals \ { p } : intent'[q] = intent[q]
  <2>1. /\ intent' \in [Proposals -> Intent] /\ intent'[p] = r
        /\ \A q \in Proposals \ { p } : intent'[q] = intent[q]
    BY <1>0, <1>1, IntentReplaced
  <2>2. QED
    BY <1>1, <2>1
<1>3. at' \in [Actors -> Place] /\ Alone(a) /\ at'[a].pc = "submit" /\ at'[a].p = p
  BY <1>0, GoMoves DEF Alone, Labels
<1>4. outbox' = outbox /\ shown' = shown
  BY DEF display
<1>5. TypeOK'
  BY <1>0, <1>2, <1>3, <1>4, Types, TypesNext
<1>6. SendingInHand'
  BY <1>3, <1>4, SendingStays
<1>7. res[p].state = "active" /\ res[p].units = Quantity
  BY DEF authority_stands
<1>8. RowsExist'
  <2>1. prop[p].status # "none"
    BY DEF IInv, RowsExist
  <2>2. \A q \in Proposals : intent[q].state # "none" => intent'[q].state # "none"
    BY <1>2
  <2>3. \A q \in Proposals : intent'[q].state # "none" =>
          intent[q].state # "none" \/ (prop'[q].status # "none" /\ res'[q].state # "none")
    BY <1>2, <1>7, <2>1
  <2>4. \A q \in Proposals : intent'[q].invoked => intent[q].invoked \/ intent'[q].state # "none"
    BY <1>2
  <2>5. QED
    BY <1>2, <1>3, <1>5, <2>1, <2>2, <2>3, <2>4, RowsStay
<1>9. order[p].state = "none" /\ order[p].filled = 0
  BY DEF IInv, OrdersAre
<1>10. OrdersAre'
  BY <1>2 DEF IInv, OrdersAre
<1>11. InForce(p)'
  BY <1>2, <1>7 DEF InForce, ACTIVE_INTENT_STATES
<1>12. \A q \in Proposals \ { p } : InForce(q)' <=> InForce(q)
  BY <1>2 DEF InForce
<1>13. \A b \in Actors \ { a } : at[b].pc \in Executing => at[b].p # p
  BY DEF IInv, SubmissionHolds
<1>14. \A b \in Actors : at[b].p \in Proposals
  BY <1>0, PlaceOf
<1>15. SubmissionHolds'
  <2>1. \A b \in Actors : at'[b].pc = "submit" =>
          order'[at'[b].p].state = "none" /\ InForce(at[b].p)' /\ at'[b].p = at[b].p /\ res'[at'[b].p].units = Quantity
    <3>1. ASSUME NEW b \in Actors \ { a }, at'[b].pc = "submit"
          PROVE  order'[at'[b].p].state = "none" /\ InForce(at[b].p)' /\ at'[b].p = at[b].p /\ res'[at'[b].p].units = Quantity
      <4>1. at'[b] = at[b] /\ at[b].p \in Proposals \ { p }
        BY <1>3, <1>13, <1>14, <3>1 DEF Alone, Executing
      <4>2. QED
        BY <1>12, <3>1, <4>1 DEF IInv, SubmissionHolds
    <3>2. QED
      BY <1>3, <1>7, <1>9, <1>11, <3>1
  <2>2. \A b \in Actors : at'[b].pc \in Executing => intent'[at'[b].p].invoked
    BY <1>2, <1>3, <1>13, <1>14 DEF IInv, SubmissionHolds, Alone
  <2>3. \A b \in Actors : at'[b].pc = "answer" =>
       /\ at'[b].was \in { "submitted", "reconciliation_required", "retryable_pre_submission", "unknown" }
       /\ at'[b].was = "retryable_pre_submission" => order'[at'[b].p].state = "none"
    BY <1>3 DEF IInv, SubmissionHolds, Alone
  <2>4. \A b, c \in Actors : at'[b].pc \in Executing /\ at'[c].pc \in Executing /\ at'[b].p = at'[c].p => b = c
    BY <1>3, <1>13 DEF IInv, SubmissionHolds, Alone
  <2>5. QED
    BY <2>1, <2>2, <2>3, <2>4 DEF SubmissionHolds, InForce
<1>16. OneEngaged'
  <2>1. \A q \in Proposals \ { p } : ~Engaged(q)
    BY DEF IInv, OneEngaged, no_other_intent, InForce
  <2>2. \A q \in Proposals \ { p } : ~Engaged(q)'
    BY <1>3, <2>1 DEF Engaged, Live, In, Alone
  <2>3. \A q \in Proposals : ~Live(q)'
    BY <1>9, <2>2 DEF Engaged, Live
  <2>4. QED
    BY <1>11, <2>2, <2>3 DEF OneEngaged
<1>17. SeenIsPast'
  BY <1>3 DEF IInv, SeenIsPast, Alone, Settling
<1>18. BookedWithinBroker'
  <2>1. \A q \in Proposals : order[q] \in Order /\ order[q].filled <= order'[q].filled
    BY <1>0 DEF Order
  <2>2. QED
    BY <2>1, BooksStay
<1>19. EndsBooked'
  <2>1. intent'[p].state \notin TERMINAL_INTENT_STATES \cup { "partially_filled", "filled" }
    BY <1>2 DEF TERMINAL_INTENT_STATES
  <2>2. \A q \in Proposals : Finishing(q, Ended) => Finishing(q, Ended)'
    BY <1>3 DEF Finishing, In, Alone
  <2>3. QED
    BY <1>2, <2>1, <2>2 DEF IInv, EndsBooked
<1>20. WithdrawsTo'
  BY <1>3 DEF IInv, WithdrawsTo, Alone, Withdrawing
<1>21. PartsBooked'
  <2>1. \A q \in Proposals : Partly(q) => Partly(q)'
    BY <1>3 DEF Partly, In, Alone
  <2>2. ASSUME crashes = 0, NEW q \in Proposals, intent'[q].state = "partially_filled" PROVE Partly(q)'
    BY <1>2, <2>1, <2>2 DEF IInv, PartsBooked
  <2>3. ASSUME crashes = 0, NEW b \in Actors, NEW q \in Proposals,
               In(b, Withdrawing, q)', at'[b].was = "partially_filled"
        PROVE  /\ intent'[q].state \in ACTIVE_INTENT_STATES => Partly(q)'
               /\ \A c \in Actors : In(c, { "answer" }, q)' => fills'[q] \in 1..Quantity - 1
               /\ \A c \in Actors : In(c, { "settle" }, q)' /\ at'[c].seen.filled = 0 => fills'[q] > 0
    <3>1. b # a /\ In(b, Withdrawing, q) /\ at[b].was = "partially_filled"
      BY <1>3, <2>3 DEF In, Alone, Withdrawing
    <3>2. q # p
      BY <1>9, <3>1 DEF IInv, WithdrawsTo, In
    <3>3. intent'[q].state \in ACTIVE_INTENT_STATES => Partly(q)'
      BY <1>2, <2>1, <2>3, <3>1, <3>2 DEF IInv, PartsBooked
    <3>4. /\ \A c \in Actors : In(c, { "answer" }, q) => fills[q] \in 1..Quantity - 1
          /\ \A c \in Actors : In(c, { "settle" }, q) /\ at[c].seen.filled = 0 => fills[q] > 0
      BY <2>3, <3>1 DEF IInv, PartsBooked
    <3>5. QED
      BY <1>3, <3>3, <3>4 DEF In, Alone
  <2>4. QED
    BY <2>2, <2>3 DEF PartsBooked
<1>22. QED
  BY <1>5, <1>6, <1>8, <1>10, <1>15, <1>16, <1>17, <1>18, <1>19, <1>20, <1>21 DEF IInv

\* execute_intent's transaction: it ends, expires the intent, sets the mark or lets it be tried again.
LEMMA ClaimKeeps ==
  ASSUME IInv, NEW a \in Actors, NEW p \in Proposals, Claim(a, p) PROVE IInv'
<1>0. TypeOK /\ faults \in 0..MaxFaults /\ intent \in [Proposals -> Intent] /\ prop \in [Proposals -> Proposal]
  BY Types DEF IInv
<1>1. /\ at[a].pc = "final" /\ at[a].p = p
      /\ UNCHANGED << display, fills, order, late, crashes >>
  BY DEF Claim, At
<1>2. Carried(a) /\ at[a].pc \in OnIntent /\ "retryable_pre_submission" \in IntentStates
  BY <1>1 DEF Carried, OnIntent, IntentStates, ACTIVE_INTENT_STATES
<1>3. CASE intent[p].invoked \/ intent[p].state \in TERMINAL_INTENT_STATES \cup AMBIGUOUS_INTENT_STATES
  <2>1. Stop(a) /\ UNCHANGED << prop, approval, intent, res, faults >>
    BY <1>3 DEF Claim
  <2>2. QED
    BY <1>0, <1>1, <1>2, <2>1, NothingWritten
<1>4. CASE ~(intent[p].invoked \/ intent[p].state \in TERMINAL_INTENT_STATES \cup AMBIGUOUS_INTENT_STATES)
  <2>1. CASE late[p]
    <3>1. ExpireIntent(p) /\ Stop(a) /\ UNCHANGED faults
      BY <1>4, <2>1 DEF Claim
    <3>2. \E t \in ProposalStates : Status(p, t)
      BY <3>1 DEF ExpireIntent, ProposalStates
    <3>3. /\ IntentState(p, "expired") /\ res' = Released(p)
          /\ approval' = [approval EXCEPT ![p] = IF @ = "none" THEN @ ELSE "expired"]
      BY <3>1 DEF ExpireIntent
    <3>4. QED
      BY <1>1, <1>2, <1>4, <3>1, <3>2, <3>3, IntentClosed
  <2>2. CASE ~late[p]
    <3>1. /\ UNCHANGED << prop, approval, res >>
          /\ \/ /\ no_other_intent(p) /\ authority_stands(p)
                /\ intent' = [intent EXCEPT ![p].state = "submitting", ![p].invoked = TRUE]
                /\ Goto(a, "submit") /\ UNCHANGED faults
             \/ /\ faults' = faults \/ Fault
                /\ IntentState(p, "retryable_pre_submission") /\ Stop(a)
      BY <1>4, <2>2 DEF Claim
    <3>2. faults' \in 0..MaxFaults
      BY <1>0, <3>1, FaultTyped
    <3>3. QED
      BY <1>1, <1>2, <1>4, <3>1, <3>2, ClaimMarks, StateWritten
  <2>3. QED
    BY <2>1, <2>2
<1>5. QED
  BY <1>3, <1>4

\* A reconciliation goes on beside a step of a process that is not in one.
LEMMA GoesOnBeside ==
  ASSUME NEW a \in Actors, Alone(a), at[a].pc \notin { "unsure", "totals", "book" }, fills' = fills
  PROVE  \A q \in Proposals :
           (Finishing(q, Ended) => Finishing(q, Ended)') /\ (Partly(q) => Partly(q)')
<1>1. \A q \in Proposals : Finishing(q, Ended) => Finishing(q, Ended)'
  BY DEF Finishing, In, Alone
<1>2. \A q \in Proposals : Partly(q) => Partly(q)'
  BY DEF Partly, In, Alone
<1>3. QED
  BY <1>1, <1>2

\* submit_crypto_order: the first order of the intent, while nothing else is engaged.
LEMMA SubmitKeeps ==
  ASSUME IInv, NEW a \in Actors, NEW p \in Proposals, Submit(a, p) PROVE IInv'
<1>0. TypeOK /\ order \in [Proposals -> Order] /\ at \in [Actors -> Place] /\ faults \in 0..MaxFaults
      /\ res \in [Proposals -> Reservation]
  BY Types DEF IInv
<1>1. /\ at[a].pc = "submit" /\ at[a].p = p
      /\ UNCHANGED << prop, outbox, shown, approval, intent, res, fills, late, crashes >>
  BY DEF Submit, At, display, ledger
<1> DEFINE Sent(s) == order' = [order EXCEPT ![p].state = s]
<1>2. /\ faults' = faults \/ Fault
      /\ \/ Sent("open") /\ Answered(a, "submitted")
         \/ Sent("rejected") /\ Answered(a, "reconciliation_required")
         \/ Answered(a, "retryable_pre_submission") /\ order' = order
         \/ Answered(a, "unknown") /\ (Sent("flight") \/ order' = order)
  BY DEF Submit
<1>3. order[p].state = "none" /\ order[p].filled = 0 /\ InForce(p) /\ res[p].units = Quantity
      /\ intent[p].invoked
  BY <1>1 DEF IInv, SubmissionHolds, OrdersAre, Executing
<1>4. ASSUME NEW s \in { "open", "rejected", "flight" }, Sent(s)
      PROVE  /\ order' \in [Proposals -> Order] /\ \A q \in Proposals \ { p } : order'[q] = order[q]
             /\ order'[p].state = s /\ order'[p].filled = 0
  <2> DEFINE r == [order[p] EXCEPT !.state = s]
  <2>1. order' = [order EXCEPT ![p] = r]
    BY <1>4
  <2>2. r \in Order /\ r.state = s /\ r.filled = 0
    BY <1>0, <1>3 DEF Order, Ended
  <2> HIDE DEF r, Sent
  <2>3. QED
    BY <1>0, <2>1, <2>2
<1>5. ASSUME NEW s \in { "submitted", "reconciliation_required", "retryable_pre_submission", "unknown" },
             Answered(a, s)
      PROVE  /\ at' \in [Actors -> Place] /\ Alone(a)
             /\ at'[a].pc = "answer" /\ at'[a].was = s /\ at'[a].p = p
  <2> DEFINE r == [at[a] EXCEPT !.pc = "answer", !.was = s]
  <2>1. at' = [at EXCEPT ![a] = r]
    BY <1>5 DEF Answered
  <2>2. r \in Place /\ r.pc = "answer" /\ r.was = s /\ r.p = p
    BY <1>0, <1>1 DEF Place, Labels, IntentStates, ACTIVE_INTENT_STATES, AMBIGUOUS_INTENT_STATES
  <2> HIDE DEF r, Sent
  <2>3. QED
    BY <1>0, <2>1, <2>2 DEF Alone
<1>6. /\ order' \in [Proposals -> Order] /\ \A q \in Proposals \ { p } : order'[q] = order[q]
      /\ order'[p].state \in { "none", "open", "rejected", "flight" } /\ order'[p].filled = 0
      /\ at' \in [Actors -> Place] /\ Alone(a) /\ at'[a].pc = "answer" /\ at'[a].p = p
      /\ at'[a].was \in { "submitted", "reconciliation_required", "retryable_pre_submission", "unknown" }
      /\ at'[a].was = "retryable_pre_submission" => order'[p].state = "none"
  <2> HIDE DEF Sent
  <2> QED BY <1>0, <1>2, <1>3, <1>4, <1>5
<1>7. TypeOK'
  BY <1>0, <1>1, <1>2, <1>6, Types, TypesNext, FaultTyped
<1>8. SendingInHand'
  BY <1>1, <1>6, SendingStays
<1>9. RowsExist'
  <2>1. intent[p].state # "none" /\ prop[p].status # "none"
    BY <1>1 DEF IInv, RowsExist, OnIntent, Executing
  <2>2. QED
    BY <1>1, <1>6, <1>7, <2>1, RowsStay
<1>10. OrdersAre'
  <2>1. order'[p].state # "filled" /\ order'[p].filled # Quantity
    BY <1>6, CryptoLaneAssumption
  <2>2. QED
    BY <1>1, <1>3, <1>6, <2>1 DEF IInv, OrdersAre
<1>11. \A b \in Actors \ { a } : at[b].pc \in Executing => at[b].p # p
  BY <1>1 DEF IInv, SubmissionHolds, Executing
<1>12. \A b \in Actors : at[b].p \in Proposals
  BY <1>0, PlaceOf
<1>13. SubmissionHolds'
  <2>1. ASSUME NEW b \in Actors, at'[b].pc = "submit"
        PROVE  /\ order'[at'[b].p].state = "none" /\ res'[at'[b].p].units = Quantity
               /\ intent'[at'[b].p].state \in ACTIVE_INTENT_STATES \cup AMBIGUOUS_INTENT_STATES
               /\ res'[at'[b].p].state = "active"
    <3>1. b # a /\ at'[b] = at[b] /\ at[b].pc = "submit" /\ at[b].p \in Proposals \ { p }
      BY <1>6, <1>11, <1>12, <2>1 DEF Alone, Executing
    <3>2. QED
      BY <1>1, <1>6, <3>1 DEF IInv, SubmissionHolds, InForce
  <2>2. ASSUME NEW b \in Actors, at'[b].pc = "answer"
        PROVE  /\ at'[b].was \in { "submitted", "reconciliation_required", "retryable_pre_submission", "unknown" }
               /\ at'[b].was = "retryable_pre_submission" => order'[at'[b].p].state = "none"
    <3>1. CASE b = a
      BY <1>6, <3>1
    <3>2. CASE b # a
      <4>1. at'[b] = at[b] /\ at[b].pc = "answer" /\ at[b].p \in Proposals \ { p }
        BY <1>6, <1>11, <1>12, <2>2, <3>2 DEF Alone, Executing
      <4>2. QED
        BY <1>6, <4>1 DEF IInv, SubmissionHolds
    <3>3. QED
      BY <3>1, <3>2
  <2>3. /\ \A b \in Actors : at'[b].pc \in Executing => intent'[at'[b].p].invoked
        /\ \A b, c \in Actors : at'[b].pc \in Executing /\ at'[c].pc \in Executing /\ at'[b].p = at'[c].p => b = c
    BY <1>1, <1>3, <1>6, <1>11 DEF IInv, SubmissionHolds, Alone
  <2>4. QED
    BY <2>1, <2>2, <2>3 DEF SubmissionHolds, InForce
<1>14. OneEngaged'
  <2>1. Engaged(p)
    BY <1>1 DEF Engaged, In
  <2>2. \A q \in Proposals : Engaged(q)' => Engaged(q)
    BY <1>6, <2>1 DEF Engaged, Live, In, Alone
  <2>3. \A q \in Proposals : InForce(q)' <=> InForce(q)
    BY <1>1 DEF InForce
  <2>4. \A q \in Proposals : Live(q)' => res'[q].units >= Quantity - order'[q].filled
    <3>1. res'[p].units >= Quantity - order'[p].filled
      BY <1>1, <1>3, <1>6, CryptoLaneAssumption
    <3>2. \A q \in Proposals \ { p } : Live(q)' => res'[q].units >= Quantity - order'[q].filled
      BY <1>1, <1>6 DEF IInv, OneEngaged, Live
    <3>3. QED
      BY <3>1, <3>2
  <2>5. QED
    BY <2>2, <2>3, <2>4 DEF IInv, OneEngaged
<1>15. SeenIsPast'
  <2>1. \A b \in Actors : at[b].pc \in Settling => at[b].p # p
    BY <1>3 DEF IInv, SeenIsPast
  <2>2. \A b \in Actors : at'[b].pc \in Settling => at'[b] = at[b] /\ at[b].p \in Proposals \ { p }
    BY <1>6, <1>12, <2>1 DEF Alone, Settling
  <2>3. QED
    BY <1>6, <2>2 DEF IInv, SeenIsPast
<1>16. BookedWithinBroker'
  <2>1. \A q \in Proposals : order[q] \in Order /\ order'[q] \in Order /\ order[q].filled <= order'[q].filled
    BY <1>0, <1>3, <1>6 DEF Order
  <2>2. QED
    BY <1>1, <2>1, BooksStay
<1>17. \A q \in Proposals : order'[q].filled = order[q].filled
  BY <1>3, <1>6
<1>18. EndsBooked'
  <2>1. \A q \in Proposals : Finishing(q, Ended) => Finishing(q, Ended)'
    BY <1>1, <1>6, GoesOnBeside
  <2>2. intent[p].state # "filled"
    BY <1>3 DEF InForce, ACTIVE_INTENT_STATES, AMBIGUOUS_INTENT_STATES
  <2>3. QED
    BY <1>1, <1>6, <1>17, <2>1, <2>2 DEF IInv, EndsBooked
<1>19. WithdrawsTo'
  BY <1>6, <1>12, <1>17 DEF IInv, WithdrawsTo, Alone, Withdrawing
<1>20. PartsBooked'
  <2>1. \A q \in Proposals : Partly(q) => Partly(q)'
    BY <1>1, <1>6, GoesOnBeside
  <2>2. ASSUME crashes = 0, NEW b \in Actors, NEW q \in Proposals,
               In(b, Withdrawing, q)', at'[b].was = "partially_filled"
        PROVE  /\ intent'[q].state \in ACTIVE_INTENT_STATES => Partly(q)'
               /\ \A c \in Actors : In(c, { "answer" }, q)' => fills'[q] \in 1..Quantity - 1
               /\ \A c \in Actors : In(c, { "settle" }, q)' /\ at'[c].seen.filled = 0 => fills'[q] > 0
    <3>1. b # a /\ In(b, Withdrawing, q) /\ at[b].was = "partially_filled"
      BY <1>6, <2>2 DEF In, Alone, Withdrawing
    <3>2. q # p
      BY <1>3, <3>1 DEF IInv, WithdrawsTo, In
    <3>3. /\ intent[q].state \in ACTIVE_INTENT_STATES => Partly(q)
          /\ \A c \in Actors : In(c, { "answer" }, q) => fills[q] \in 1..Quantity - 1
          /\ \A c \in Actors : In(c, { "settle" }, q) /\ at[c].seen.filled = 0 => fills[q] > 0
      BY <2>2, <3>1 DEF IInv, PartsBooked
    <3>4. QED
      BY <1>1, <1>6, <2>1, <3>2, <3>3 DEF In, Alone
  <2>3. ASSUME crashes = 0, NEW q \in Proposals, intent'[q].state = "partially_filled" PROVE Partly(q)'
    BY <1>1, <2>1, <2>3 DEF IInv, PartsBooked
  <2>4. QED
    BY <1>1, <2>2, <2>3 DEF PartsBooked
<1>21. QED
  BY <1>7, <1>8, <1>9, <1>10, <1>13, <1>14, <1>15, <1>16, <1>18, <1>19, <1>20 DEF IInv

\* A process on its intent leaves the messages alone, and the rows stay.
LEMMA PapersStay ==
  ASSUME IInv, TypeOK', NEW a \in Actors, NEW p \in Proposals, Alone(a),
         at[a].p = p, at[a].pc \in OnIntent, at'[a].pc \in OnIntent \cup { "idle" },
         at'[a].pc # "idle" => at'[a].p = p,
         UNCHANGED << display, approval, crashes >>,
         \A q \in Proposals : prop[q].status # "none" => prop'[q].status # "none",
         \A q \in Proposals \ { p } : intent'[q] = intent[q] /\ res'[q] = res[q],
         intent'[p].state # "none", res'[p].state # "none"
  PROVE  RowsExist' /\ SendingInHand'
<1>1. at[a].pc \notin { "idle", "send", "sent", "undelivered" }
  BY DEF OnIntent, Executing, Withdrawing, Settling
<1>2. prop[p].status # "none" /\ prop'[p].status # "none"
  BY <1>1 DEF IInv, RowsExist
<1>3. SendingInHand'
  BY <1>1, SendingStays DEF display
<1>4. RowsExist'
  <2>1. \A q \in Proposals : intent[q].state # "none" => intent'[q].state # "none"
    OBVIOUS
  <2>2. \A q \in Proposals : res[q].state # "none" => res'[q].state # "none"
    OBVIOUS
  <2>3. \A q \in Proposals : intent'[q].state # "none" =>
          intent[q].state # "none" \/ (prop'[q].status # "none" /\ res'[q].state # "none")
    BY <1>2
  <2>4. \A q \in Proposals : intent'[q].invoked => intent[q].invoked \/ intent'[q].state # "none"
    OBVIOUS
  <2>5. /\ at'[a].pc # "idle" => prop'[at'[a].p].status # "none"
        /\ at'[a].pc \in OnIntent => intent'[at'[a].p].state # "none"
    BY <1>2 DEF OnIntent, Executing, Withdrawing, Settling
  <2>6. QED
    BY <2>1, <2>2, <2>3, <2>4, <2>5, RowsStay
<1>5. QED
  BY <1>3, <1>4

\* The answer of the broker is written.
LEMMA AnswerKeeps ==
  ASSUME IInv, NEW a \in Actors, NEW p \in Proposals, Answer(a, p) PROVE IInv'
<1>0. TypeOK /\ order \in [Proposals -> Order] /\ intent \in [Proposals -> Intent]
      /\ prop \in [Proposals -> Proposal]
  BY Types DEF IInv
<1> DEFINE s == at[a].was
<1>1. /\ at[a].pc = "answer" /\ at[a].p = p /\ Stop(a)
      /\ UNCHANGED << outbox, shown, approval, res, fills, order, late, faults, crashes >>
      /\ prop' = prop \/ Status(p, "submitted") \/ Status(p, "manual_review")
  BY DEF Answer, At, display, outside
<1>2. /\ s \in { "submitted", "reconciliation_required", "retryable_pre_submission", "unknown" }
      /\ s = "retryable_pre_submission" => order[p].state = "none"
      /\ intent[p].invoked
      /\ \A b \in Actors \ { a } : at[b].pc \in Executing => at[b].p # p
  BY <1>1 DEF IInv, SubmissionHolds, Executing
<1>3. /\ intent' \in [Proposals -> Intent] /\ \A q \in Proposals \ { p } : intent'[q] = intent[q]
      /\ intent'[p].state = s
      /\ s # "retryable_pre_submission" => intent'[p].invoked
  <2> DEFINE r == [intent[p] EXCEPT !.state = s, !.invoked = s # "retryable_pre_submission",
                     !.known = @ \/ s \in { "submitted", "reconciliation_required" }]
  <2>1. intent' = [intent EXCEPT ![p] = r]
    BY DEF Answer
  <2>2. r.state = s /\ r.invoked = (s # "retryable_pre_submission")
    BY <1>0 DEF Intent
  <2>3. r.known = (intent[p].known \/ s \in { "submitted", "reconciliation_required" })
    BY <1>0 DEF Intent
  <2>4. s \in IntentStates \cup { "none" }
    BY <1>2 DEF IntentStates, ACTIVE_INTENT_STATES, AMBIGUOUS_INTENT_STATES
  <2>5. r \in Intent
    BY <1>0, <2>4 DEF Intent
  <2> HIDE DEF r, s
  <2>6. intent'[p] = r /\ intent' \in [Proposals -> Intent] /\ \A q \in Proposals \ { p } : intent'[q] = intent[q]
    BY <1>0, <2>1, <2>5
  <2>7. QED
    BY <2>2, <2>6
<1>4. at' \in [Actors -> Place] /\ Alone(a) /\ at'[a].pc = "idle"
  BY <1>0, <1>1, StopMoves DEF Alone
<1>5. /\ prop' \in [Proposals -> Proposal]
      /\ \A q \in Proposals : prop'[q].side = prop[q].side
      /\ \A q \in Proposals : prop[q].status # "none" => prop'[q].status # "none"
  BY <1>0, <1>1, StatusMoves DEF ProposalStates
<1> HIDE DEF s
<1>6. TypeOK'
  BY <1>1, <1>3, <1>4, <1>5, <1>0, Types, TypesNext
<1>7. RowsExist' /\ SendingInHand'
  <2>1. intent[p].state # "none" /\ res[p].state # "none" /\ at[a].pc \in OnIntent
    BY <1>1 DEF IInv, RowsExist, OnIntent, Executing
  <2>2. intent'[p].state # "none"
    BY <1>2, <1>3
  <2>3. QED
    BY <1>1, <1>3, <1>4, <1>5, <1>6, <2>1, <2>2, PapersStay DEF display
<1>8. OrdersAre'
  BY <1>1, <1>2, <1>3 DEF IInv, OrdersAre
<1>9. \A b \in Actors : at[b].p \in Proposals
  BY <1>0, PlaceOf
<1>10. SubmissionHolds'
  <2>1. \A b \in Actors : at'[b].pc \in Executing => at'[b] = at[b] /\ at[b].p \in Proposals \ { p }
    BY <1>2, <1>4, <1>9 DEF Alone, Executing
  <2>2. \A b \in Actors : at'[b].pc \in Executing =>
          intent'[at'[b].p] = intent[at[b].p] /\ res'[at'[b].p] = res[at[b].p] /\ order'[at'[b].p] = order[at[b].p]
    BY <1>1, <1>3, <2>1
  <2>3. QED
    BY <2>1, <2>2 DEF IInv, SubmissionHolds, InForce, Executing
<1>11. OneEngaged'
  <2>1. \A q \in Proposals : Engaged(q)' => Engaged(q)
    BY <1>1, <1>4 DEF Engaged, Live, In, Alone
  <2>2. \A q \in Proposals : Engaged(q) => InForce(q)'
    BY <1>1, <1>2, <1>3 DEF IInv, OneEngaged, InForce, ACTIVE_INTENT_STATES, AMBIGUOUS_INTENT_STATES
  <2>3. QED
    BY <1>1, <2>1, <2>2 DEF IInv, OneEngaged, Live
<1>12. SeenIsPast'
  BY <1>1, <1>4 DEF IInv, SeenIsPast, Alone, Settling
<1>13. BookedWithinBroker'
  <2>1. \A q \in Proposals : order[q] \in Order /\ order'[q] \in Order /\ order[q].filled <= order'[q].filled
    BY <1>0, <1>1 DEF Order
  <2>2. QED
    BY <1>1, <1>5, <2>1, BooksStay
<1>14. EndsBooked'
  <2>1. \A q \in Proposals : Finishing(q, Ended) => Finishing(q, Ended)'
    BY <1>1, <1>4, GoesOnBeside
  <2>2. intent'[p].state \notin TERMINAL_INTENT_STATES \cup { "partially_filled" }
    BY <1>2, <1>3 DEF TERMINAL_INTENT_STATES
  <2>3. QED
    BY <1>1, <1>3, <2>1, <2>2 DEF IInv, EndsBooked, TERMINAL_INTENT_STATES
<1>15. WithdrawsTo'
  BY <1>1, <1>4 DEF IInv, WithdrawsTo, Alone, Withdrawing
<1>16. PartsBooked'
  <2>1. \A q \in Proposals : Partly(q) => Partly(q)'
    BY <1>1, <1>4, GoesOnBeside
  <2>2. ASSUME crashes = 0, NEW b \in Actors, NEW q \in Proposals,
               In(b, Withdrawing, q)', at'[b].was = "partially_filled"
        PROVE  /\ intent'[q].state \in ACTIVE_INTENT_STATES => Partly(q)'
               /\ \A c \in Actors : In(c, { "answer" }, q)' => fills'[q] \in 1..Quantity - 1
               /\ \A c \in Actors : In(c, { "settle" }, q)' /\ at'[c].seen.filled = 0 => fills'[q] > 0
    <3>1. b # a /\ In(b, Withdrawing, q) /\ at[b].was = "partially_filled"
      BY <1>4, <2>2 DEF In, Alone, Withdrawing
    <3>2. /\ intent[q].state \in ACTIVE_INTENT_STATES => Partly(q)
          /\ \A c \in Actors : In(c, { "answer" }, q) => fills[q] \in 1..Quantity - 1
          /\ \A c \in Actors : In(c, { "settle" }, q) /\ at[c].seen.filled = 0 => fills[q] > 0
      BY <2>2, <3>1 DEF IInv, PartsBooked
    <3>3. q = p => Partly(q)'
      BY <1>1, <3>2 DEF In, Partly
    <3>4. q # p /\ intent'[q].state \in ACTIVE_INTENT_STATES => Partly(q)'
      BY <1>3, <2>1, <3>2
    <3>5. /\ \A c \in Actors : In(c, { "answer" }, q)' => fills'[q] \in 1..Quantity - 1
          /\ \A c \in Actors : In(c, { "settle" }, q)' /\ at'[c].seen.filled = 0 => fills'[q] > 0
      BY <1>1, <1>4, <3>2 DEF In, Alone
    <3>6. QED
      BY <3>3, <3>4, <3>5
  <2>3. ASSUME crashes = 0, NEW q \in Proposals, intent'[q].state = "partially_filled" PROVE Partly(q)'
    <3>1. q # p
      BY <1>2, <1>3, <2>3
    <3>2. QED
      BY <1>3, <2>1, <2>3, <3>1 DEF IInv, PartsBooked
  <2>4. QED
    BY <1>1, <2>2, <2>3 DEF PartsBooked
<1>17. QED
  BY <1>6, <1>7, <1>8, <1>10, <1>11, <1>12, <1>13, <1>14, <1>15, <1>16 DEF IInv

(***************************************************************************)
(* The recovery sweep.                                                     *)
(***************************************************************************)

\* expire_pending closes what never reached the broker.
LEMMA ExpirePendingKeeps == ASSUME IInv, NEW a \in Actors, ExpirePending(a) PROVE IInv'
<1>0. TypeOK /\ prop \in [Proposals -> Proposal] /\ intent \in [Proposals -> Intent]
      /\ res \in [Proposals -> Reservation] /\ at \in [Actors -> Place]
      /\ approval \in [Proposals -> { "none", "active", "consumed", "expired" }]
  BY Types DEF IInv
<1> DEFINE early == { p \in Proposals : late[p] /\ prop[p].status \in { "pending", "approved" } }
           unsent == { p \in Proposals : /\ late[p] /\ ~intent[p].invoked
                         /\ intent[p].state \in { "reserved", "submitting", "retryable_pre_submission" } }
<1>1. /\ at[a].pc = "idle"
      /\ intent' = [p \in Proposals |-> IF p \in unsent THEN [intent[p] EXCEPT !.state = "expired"] ELSE intent[p]]
      /\ res' = [p \in Proposals |-> IF p \in unsent THEN Released(p)[p] ELSE res[p]]
      /\ approval' = [p \in Proposals |->
                        IF p \in early \cup unsent /\ approval[p] # "none" THEN "expired" ELSE approval[p]]
      /\ UNCHANGED << outbox, shown, fills, order, late, faults, crashes, at >>
  BY DEF ExpirePending, At, display, outside
<1>2. prop' = [p \in Proposals |-> [prop[p] EXCEPT !.status =
                 IF p \in early \cup unsent /\ prop[p].status \notin { "filled", "rejected" } THEN "expired"
                 ELSE prop[p].status]]
  BY DEF ExpirePending
<1>3. /\ \A q \in unsent : intent[q].state # "none" /\ ~intent[q].invoked
      /\ \A q \in early \cup unsent : prop[q].status # "none"
  BY DEF IInv, RowsExist
<1>4. \A q \in Proposals : /\ q \in unsent => /\ intent'[q].state = "expired" /\ intent'[q].invoked = intent[q].invoked
                                              /\ intent'[q] \in Intent
                           /\ q \notin unsent => intent'[q] = intent[q] /\ res'[q] = res[q]
  BY <1>0, <1>1 DEF Intent, IntentStates, TERMINAL_INTENT_STATES
<1> HIDE DEF early, unsent
<1>5. \A q \in Proposals : res'[q] \in Reservation /\ (res[q].state # "none" => res'[q].state # "none")
  BY <1>0, <1>1, ReleaseMoves
<1>6. intent' \in [Proposals -> Intent] /\ res' \in [Proposals -> Reservation]
  <2>1. \A q \in Proposals : intent'[q] \in Intent
    BY <1>0, <1>4
  <2>2. QED
    BY <1>1, <1>5, <2>1
<1>7. /\ prop' \in [Proposals -> Proposal]
      /\ \A q \in Proposals : prop'[q].side = prop[q].side
      /\ \A q \in Proposals : prop[q].status # "none" => prop'[q].status # "none"
  <2>1. \A q \in Proposals : /\ prop'[q] \in Proposal /\ prop'[q].side = prop[q].side
                             /\ prop[q].status # "none" => prop'[q].status # "none"
    BY <1>0, <1>2 DEF Proposal, ProposalStates
  <2>2. QED
    BY <1>2, <2>1
<1>8. /\ approval' \in [Proposals -> { "none", "active", "consumed", "expired" }]
      /\ \A q \in Proposals : approval'[q] # "none" => approval[q] # "none"
  BY <1>0, <1>1
<1>9. TypeOK'
  BY <1>0, <1>1, <1>6, <1>7, <1>8, Types, TypesNext
<1>10. Alone(a) /\ Carried(a) /\ at'[a].pc = "idle"
  BY <1>1 DEF Alone, Carried
<1>11. SendingInHand'
  BY <1>1, <1>10, SendingStays
<1>12. at'[a].pc \notin OnIntent /\ at'[a].pc \notin Executing \cup Withdrawing \cup Settling
  BY <1>10 DEF OnIntent, Executing, Withdrawing, Settling
<1>13. RowsExist'
  <2>1. \A q \in Proposals : intent[q].state # "none" => intent'[q].state # "none"
    BY <1>4
  <2>2. \A q \in Proposals : intent'[q].state # "none" => intent[q].state # "none"
    BY <1>3, <1>4
  <2>3. \A q \in Proposals : intent'[q].invoked => intent[q].invoked \/ intent'[q].state # "none"
    BY <1>4
  <2>4. QED
    BY <1>5, <1>7, <1>8, <1>9, <1>10, <1>12, <2>1, <2>2, <2>3, RowsStay
<1>14. \A q \in Proposals : Ordinary(q)
  BY <1>3, <1>4 DEF Ordinary
<1>15. QED
  BY <1>1, <1>7, <1>9, <1>10, <1>11, <1>12, <1>13, <1>14, OrdinaryStep

\* What the row of an intent becomes when a review is asked for.
LEMMA ReviewWrites ==
  ASSUME TypeOK, NEW p \in Proposals, ReviewRequired(p)
  PROVE  IntentState(p, "reconciliation_required") /\ \E t \in ProposalStates : Status(p, t)
<1>1. prop \in [Proposals -> Proposal]
  BY Types
<1>2. IntentState(p, "reconciliation_required")
  BY DEF ReviewRequired
<1>3. Status(p, IF prop[p].status \in { "rejected", "expired" } THEN prop[p].status ELSE "manual_review")
  BY DEF ReviewRequired, Status
<1>4. QED
  BY <1>2, <1>3 DEF ProposalStates

\* reconcile_intent asks for a review.
LEMMA UnsureKeeps ==
  ASSUME IInv, NEW a \in Actors, NEW p \in Proposals, Unsure(a, p) PROVE IInv'
<1>0. TypeOK /\ faults \in 0..MaxFaults
  BY Types DEF IInv
<1>1. /\ at[a].pc = "unsure" /\ at[a].p = p /\ Stop(a)
      /\ UNCHANGED << display, approval, res, fills, order, late, faults, crashes >>
      /\ IntentState(p, "reconciliation_required") /\ \E t \in ProposalStates : Status(p, t)
  BY <1>0, ReviewWrites DEF Unsure, At, outside
<1>2. "reconciliation_required" \in IntentStates /\ "reconciliation_required" \in AMBIGUOUS_INTENT_STATES
      /\ "unsure" \in OnIntent
  BY DEF IntentStates, AMBIGUOUS_INTENT_STATES, OnIntent
<1>3. intent'[p].state = "reconciliation_required"
  BY <1>0, <1>1, <1>2, IntentMoves
<1>4. Carried(a)
  BY <1>1, <1>2, <1>3 DEF Carried
<1>5. QED
  BY <1>0, <1>1, <1>2, <1>4, StateWritten

\* Orders, submissions and engagements are kept by a step that takes no mark
\* and no reservation away from them.
LEMMA HoldsStay ==
  ASSUME IInv, NEW a \in Actors, Alone(a), order' = order, at'[a].pc \notin Executing,
         \A q \in Proposals : intent[q].invoked => intent'[q].invoked,
         \A q \in Proposals : Engaged(q) => InForce(q)',
         \A q \in Proposals : Engaged(q) => res'[q].units >= Quantity - order[q].filled,
         \A q \in Proposals : order[q].state = "none" /\ intent[q].invoked => res'[q] = res[q]
  PROVE  OrdersAre' /\ SubmissionHolds' /\ OneEngaged'
<1>1. OrdersAre'
  BY DEF IInv, OrdersAre
<1>2. \A b \in Actors : at[b].p \in Proposals
  BY PlaceOf DEF IInv
<1>3. \A b \in Actors : at'[b].pc \in Executing => b # a /\ at'[b] = at[b] /\ at[b].p \in Proposals
  BY <1>2 DEF Alone
<1>4. SubmissionHolds'
  <2>1. ASSUME NEW b \in Actors, at'[b].pc = "submit"
        PROVE  /\ order'[at'[b].p].state = "none" /\ res'[at'[b].p].units = Quantity
               /\ intent'[at'[b].p].state \in ACTIVE_INTENT_STATES \cup AMBIGUOUS_INTENT_STATES
               /\ res'[at'[b].p].state = "active"
    <3>1. at'[b] = at[b] /\ at[b].pc = "submit"
      BY <1>3, <2>1 DEF Executing
    <3>2. PICK p \in Proposals : p = at[b].p
      BY <1>2
    <3>3. order[p].state = "none" /\ intent[p].invoked /\ res[p].units = Quantity
      BY <3>1, <3>2 DEF IInv, SubmissionHolds, Executing
    <3>4. InForce(p)'
      BY <3>1, <3>2 DEF Engaged, In
    <3>5. QED
      BY <3>1, <3>2, <3>3, <3>4 DEF InForce
  <2>2. QED
    BY <1>3, <2>1 DEF IInv, SubmissionHolds, InForce, Executing
<1>5. OneEngaged'
  <2>1. \A q \in Proposals : Engaged(q)' => Engaged(q)
    BY <1>3 DEF Engaged, Live, In, Executing
  <2>2. \A q \in Proposals : Live(q)' => Engaged(q)
    BY DEF Engaged, Live
  <2>3. QED
    BY <2>1, <2>2 DEF IInv, OneEngaged
<1>6. QED
  BY <1>1, <1>4, <1>5

\* A part is booked, or another process than these two will see to it; there
\* are two processes.
LEMMA PartlyByThird ==
  ASSUME NEW a \in Actors, NEW b \in Actors, a # b, NEW p \in Proposals, Partly(p),
         at[a].pc \notin { "unsure", "totals", "book" }, at[b].pc \notin { "unsure", "totals", "book" }
  PROVE  fills[p] \in 1..Quantity - 1
<1>1. \A c \in Actors : c = a \/ c = b
  BY DEF Actors
<1>2. QED
  BY <1>1 DEF Partly, In

\* The withdrawal of an intent begins: the mark for it, before the call.
LEMMA CancelMarks ==
  ASSUME IInv, NEW a \in Actors, NEW p \in Proposals, at[a].pc = "cancel", at[a].p = p,
         intent[p].invoked, intent[p].state \notin TERMINAL_INTENT_STATES \cup AMBIGUOUS_INTENT_STATES \cup { "cancel_pending" },
         IntentState(p, "cancel_pending"),
         at' = [at EXCEPT ![a].pc = "call", ![a].was = intent[p].state],
         UNCHANGED << prop, approval, res, display, fills, order, late, faults, crashes >>
  PROVE  IInv'
<1>0. TypeOK /\ intent \in [Proposals -> Intent] /\ order \in [Proposals -> Order] /\ at \in [Actors -> Place]
      /\ fills \in [Proposals -> 0..Quantity]
  BY Types DEF IInv
<1> DEFINE s == intent[p].state
<1>1. intent[p].state # "none"
  BY DEF IInv, RowsExist
<1>2. s \in { "reserved", "submitting", "submitted", "partially_filled", "retryable_pre_submission" }
  BY <1>0, <1>1 DEF Intent, IntentStates, TERMINAL_INTENT_STATES, AMBIGUOUS_INTENT_STATES, ACTIVE_INTENT_STATES
<1>3. at' \in [Actors -> Place] /\ Alone(a) /\ at'[a].pc = "call" /\ at'[a].p = p /\ at'[a].was = s
  <2> DEFINE r == [at[a] EXCEPT !.pc = "call", !.was = s]
  <2>1. at' = [at EXCEPT ![a] = r]
    OBVIOUS
  <2>2. r \in Place /\ r.pc = "call" /\ r.was = s /\ r.p = p
    BY <1>0, <1>2 DEF Place, Labels, IntentStates, ACTIVE_INTENT_STATES
  <2> HIDE DEF r, s
  <2>3. at' \in [Actors -> Place] /\ at'[a] = r /\ Alone(a)
    BY <1>0, <2>1, <2>2, PlaceTaken
  <2>4. QED
    BY <2>2, <2>3
<1>4. /\ intent' \in [Proposals -> Intent] /\ \A q \in Proposals \ { p } : intent'[q] = intent[q]
      /\ intent'[p].state = "cancel_pending" /\ intent'[p].invoked = intent[p].invoked
  BY <1>0, IntentMoves DEF IntentStates, ACTIVE_INTENT_STATES
<1>5. outbox' = outbox /\ shown' = shown
  BY DEF display
<1> HIDE DEF s
<1>6. TypeOK'
  BY <1>0, <1>3, <1>4, <1>5, Types, TypesNext
<1>7. RowsExist' /\ SendingInHand'
  <2>1. res[p].state # "none" /\ at[a].pc \in OnIntent /\ at'[a].pc \in OnIntent
    BY <1>1, <1>3 DEF IInv, RowsExist, OnIntent, Withdrawing
  <2>2. QED
    BY <1>3, <1>4, <1>6, <2>1, PapersStay
<1>8. OrdersAre' /\ SubmissionHolds' /\ OneEngaged'
  <2>1. \A q \in Proposals : intent[q].invoked => intent'[q].invoked
    BY <1>4
  <2>2. \A q \in Proposals : Engaged(q) => InForce(q)'
    BY <1>4 DEF IInv, OneEngaged, InForce, ACTIVE_INTENT_STATES
  <2>3. \A q \in Proposals : Engaged(q) => res'[q].units >= Quantity - order[q].filled
    BY <1>0, CryptoLaneAssumption DEF IInv, OneEngaged, Engaged, SubmissionHolds, OrdersAre, In
  <2>4. at'[a].pc \notin Executing
    BY <1>3 DEF Executing
  <2>5. QED
    BY <1>3, <2>1, <2>2, <2>3, <2>4, HoldsStay
<1>9. SeenIsPast'
  BY <1>3 DEF IInv, SeenIsPast, Alone, Settling
<1>10. BookedWithinBroker'
  <2>1. \A q \in Proposals : order[q] \in Order /\ order[q].filled <= order'[q].filled
    BY <1>0 DEF Order
  <2>2. QED
    BY <2>1, BooksStay
<1>11. \A q \in Proposals : (Finishing(q, Ended) => Finishing(q, Ended)') /\ (Partly(q) => Partly(q)')
  BY <1>3, GoesOnBeside
<1>12. EndsBooked'
  <2>1. intent'[p].state \notin TERMINAL_INTENT_STATES \cup { "partially_filled", "filled" }
    BY <1>4 DEF TERMINAL_INTENT_STATES
  <2>2. QED
    BY <1>4, <1>11, <2>1 DEF IInv, EndsBooked
<1>13. WithdrawsTo'
  <2>1. s = "partially_filled" => order[p].filled > 0
    BY DEF IInv, EndsBooked, s
  <2>2. QED
    BY <1>2, <1>3, <2>1 DEF IInv, WithdrawsTo, Alone, Withdrawing
<1>14. PartsBooked'
  <2>1. ASSUME crashes = 0, NEW q \in Proposals, intent'[q].state = "partially_filled" PROVE Partly(q)'
    BY <1>4, <1>11, <2>1 DEF IInv, PartsBooked
  <2>2. ASSUME crashes = 0, NEW b \in Actors, NEW q \in Proposals,
               In(b, Withdrawing, q)', at'[b].was = "partially_filled"
        PROVE  /\ intent'[q].state \in ACTIVE_INTENT_STATES => Partly(q)'
               /\ \A c \in Actors : In(c, { "answer" }, q)' => fills'[q] \in 1..Quantity - 1
               /\ \A c \in Actors : In(c, { "settle" }, q)' /\ at'[c].seen.filled = 0 => fills'[q] > 0
    <3>1. CASE b = a
      <4>1. q = p /\ intent[p].state = "partially_filled"
        BY <1>3, <2>2, <3>1 DEF In, s
      <4>2. Partly(p)
        BY <2>2, <4>1 DEF IInv, PartsBooked
      <4>3. \A c \in Actors : In(c, { "answer", "settle" }, q)' => fills[p] \in 1..Quantity - 1
        <5>1. SUFFICES ASSUME NEW c \in Actors, In(c, { "answer", "settle" }, q)'
              PROVE  fills[p] \in 1..Quantity - 1
          OBVIOUS
        <5>2. c # a /\ at[c].pc \in { "answer", "settle" }
          BY <1>3, <5>1 DEF In, Alone
        <5>3. at[a].pc \notin { "unsure", "totals", "book" } /\ at[c].pc \notin { "unsure", "totals", "book" }
          BY <5>2
        <5>4. QED
          BY <4>2, <5>2, <5>3, PartlyByThird
      <4>4. Partly(q)'
        BY <1>11, <4>1, <4>2
      <4>5. \A c \in Actors : In(c, { "answer" }, q)' \/ In(c, { "settle" }, q)' => fills'[q] \in 1..Quantity - 1
        BY <4>1, <4>3 DEF In
      <4>6. fills'[q] \in 1..Quantity - 1 => fills'[q] > 0
        BY CryptoLaneAssumption
      <4>7. QED
        BY <4>4, <4>5, <4>6
    <3>2. CASE b # a
      <4>1. In(b, Withdrawing, q) /\ at[b].was = "partially_filled"
        BY <1>3, <2>2, <3>2 DEF In, Alone
      <4>2. /\ intent[q].state \in ACTIVE_INTENT_STATES => Partly(q)
            /\ \A c \in Actors : In(c, { "answer" }, q) => fills[q] \in 1..Quantity - 1
            /\ \A c \in Actors : In(c, { "settle" }, q) /\ at[c].seen.filled = 0 => fills[q] > 0
        BY <2>2, <4>1 DEF IInv, PartsBooked
      <4>3. intent'[q].state \in ACTIVE_INTENT_STATES => intent[q].state \in ACTIVE_INTENT_STATES
        BY <1>2, <1>4 DEF s, ACTIVE_INTENT_STATES
      <4>4. QED
        BY <1>3, <1>11, <4>2, <4>3 DEF In, Alone
    <3>3. QED
      BY <3>1, <3>2
  <2>3. QED
    BY <2>1, <2>2 DEF PartsBooked
<1>15. QED
  BY <1>6, <1>7, <1>8, <1>9, <1>10, <1>12, <1>13, <1>14 DEF IInv

\* cancel_intent's first transaction.
LEMMA CancelIntentKeeps ==
  ASSUME IInv, NEW a \in Actors, NEW p \in Proposals, CancelIntent(a, p) PROVE IInv'
<1>0. TypeOK /\ faults \in 0..MaxFaults /\ prop \in [Proposals -> Proposal]
  BY Types DEF IInv
<1>1. /\ at[a].pc = "cancel" /\ at[a].p = p
      /\ UNCHANGED << display, fills, order, late, faults, crashes >>
  BY DEF CancelIntent, At, outside
<1>2. Carried(a) /\ at[a].pc \in OnIntent
  BY <1>1 DEF Carried, OnIntent
<1>3. CASE ~intent[p].invoked /\ intent[p].state \notin TERMINAL_INTENT_STATES
  <2>1. CancelUnsubmitted(p) /\ Stop(a)
    BY <1>3 DEF CancelIntent
  <2>2. \E t \in ProposalStates : Status(p, t)
    BY <2>1 DEF CancelUnsubmitted, ProposalStates
  <2>3. /\ IntentState(p, "cancelled") /\ res' = Released(p)
        /\ approval' = [approval EXCEPT ![p] = IF @ = "none" THEN @ ELSE "expired"]
    BY <2>1 DEF CancelUnsubmitted
  <2>4. QED
    BY <1>1, <1>2, <1>3, <2>1, <2>2, <2>3, IntentClosed
<1>4. CASE ~(~intent[p].invoked /\ intent[p].state \notin TERMINAL_INTENT_STATES)
  <2>1. UNCHANGED << res, approval >>
    BY <1>4 DEF CancelIntent
  <2>2. CASE intent[p].state \in TERMINAL_INTENT_STATES \cup AMBIGUOUS_INTENT_STATES \cup { "cancel_pending" }
    <3>1. Stop(a) /\ UNCHANGED << intent, prop >>
      BY <1>4, <2>2 DEF CancelIntent
    <3>2. QED
      BY <1>0, <1>1, <1>2, <2>1, <3>1, NothingWritten
  <2>3. CASE /\ intent[p].state \notin TERMINAL_INTENT_STATES \cup AMBIGUOUS_INTENT_STATES \cup { "cancel_pending" }
             /\ ~intent[p].known
    <3>1. ReviewRequired(p) /\ Stop(a)
      BY <1>4, <2>3 DEF CancelIntent
    <3>2. IntentState(p, "reconciliation_required") /\ \E t \in ProposalStates : Status(p, t)
      BY <1>0, <3>1, ReviewWrites
    <3>3. "reconciliation_required" \in IntentStates /\ "reconciliation_required" \in AMBIGUOUS_INTENT_STATES
      BY DEF IntentStates, AMBIGUOUS_INTENT_STATES
    <3>4. QED
      BY <1>0, <1>1, <1>2, <2>1, <3>1, <3>2, <3>3, StateWritten
  <2>4. CASE /\ intent[p].state \notin TERMINAL_INTENT_STATES \cup AMBIGUOUS_INTENT_STATES \cup { "cancel_pending" }
             /\ intent[p].known
    <3>1. /\ IntentState(p, "cancel_pending") /\ UNCHANGED prop
          /\ at' = [at EXCEPT ![a].pc = "call", ![a].was = intent[p].state]
      BY <1>4, <2>4 DEF CancelIntent
    <3>2. QED
      BY <1>1, <1>4, <2>1, <2>4, <3>1, CancelMarks
  <2>5. QED
    BY <2>2, <2>3, <2>4
<1>5. QED
  BY <1>3, <1>4

\* A process looks at the broker or at the fills, and writes nothing.
LEMMA LookStep ==
  ASSUME IInv, NEW a \in Actors, NEW p \in Proposals, at[a].p = p, at[a].pc \in OnIntent,
         at' \in [Actors -> Place], Alone(a), faults' \in 0..MaxFaults,
         at'[a].pc \in (OnIntent \ Executing) \cup { "idle" }, at'[a].pc # "idle" => at'[a].p = p,
         UNCHANGED << prop, approval, intent, res, display, fills, order, late, crashes >>,
         SeenIsPast', WithdrawsTo',
         \A q \in Proposals : Finishing(q, Ended) => Finishing(q, Ended)' \/ fills[q] = order[q].filled,
         \A q \in Proposals : Partly(q) => Partly(q)',
         at'[a].pc \in Withdrawing => at[a].pc \in Withdrawing /\ at'[a].was \in { at[a].was, "reconciliation_required" },
         at'[a].pc = "settle" => at'[a].seen.filled = order[p].filled
  PROVE  IInv'
<1>0. TypeOK /\ intent \in [Proposals -> Intent] /\ order \in [Proposals -> Order] /\ fills \in [Proposals -> 0..Quantity]
  BY Types DEF IInv
<1>1. outbox' = outbox /\ shown' = shown
  BY DEF display
<1>2. TypeOK'
  BY <1>0, <1>1, Types, TypesNext
<1>3. RowsExist' /\ SendingInHand'
  <2>1. res[p].state # "none" /\ intent[p].state # "none"
    BY DEF IInv, RowsExist
  <2>2. QED
    BY <1>2, <2>1, PapersStay
<1>4. OrdersAre' /\ SubmissionHolds' /\ OneEngaged'
  <2>1. \A q \in Proposals : Engaged(q) => InForce(q)'
    BY DEF IInv, OneEngaged, InForce
  <2>2. \A q \in Proposals : Engaged(q) => res'[q].units >= Quantity - order[q].filled
    BY <1>0, CryptoLaneAssumption DEF IInv, OneEngaged, Engaged, SubmissionHolds, OrdersAre, In
  <2>3. at'[a].pc \notin Executing
    BY DEF OnIntent, Executing
  <2>4. QED
    BY <2>1, <2>2, <2>3, HoldsStay
<1>5. BookedWithinBroker'
  <2>1. \A q \in Proposals : order[q] \in Order /\ order[q].filled <= order'[q].filled
    BY <1>0 DEF Order
  <2>2. QED
    BY <2>1, BooksStay
<1>6. EndsBooked'
  BY DEF IInv, EndsBooked
<1>7. PartsBooked'
  <2>1. ASSUME crashes = 0, NEW b \in Actors, NEW q \in Proposals,
               In(b, Withdrawing, q)', at'[b].was = "partially_filled"
        PROVE  /\ intent'[q].state \in ACTIVE_INTENT_STATES => Partly(q)'
               /\ \A c \in Actors : In(c, { "answer" }, q)' => fills'[q] \in 1..Quantity - 1
               /\ \A c \in Actors : In(c, { "settle" }, q)' /\ at'[c].seen.filled = 0 => fills'[q] > 0
    <3>1. In(b, Withdrawing, q) /\ at[b].was = "partially_filled"
      <4>1. CASE b = a
        BY <2>1, <4>1 DEF In, Withdrawing
      <4>2. CASE b # a
        BY <2>1, <4>2 DEF In, Alone
      <4>3. QED
        BY <4>1, <4>2
    <3>2. /\ intent[q].state \in ACTIVE_INTENT_STATES => Partly(q)
          /\ \A c \in Actors : In(c, { "answer" }, q) => fills[q] \in 1..Quantity - 1
          /\ \A c \in Actors : In(c, { "settle" }, q) /\ at[c].seen.filled = 0 => fills[q] > 0
      BY <2>1, <3>1 DEF IInv, PartsBooked
    <3>3. order[q].filled > 0 /\ order[q].filled \in 0..Quantity
      BY <1>0, <3>1 DEF IInv, WithdrawsTo, In, Order
    <3>4. \A c \in Actors : In(c, { "answer" }, q)' => In(c, { "answer" }, q)
      BY DEF In, Alone, Executing
    <3>5. \A c \in Actors : In(c, { "settle" }, q)' /\ at'[c].seen.filled = 0 =>
            In(c, { "settle" }, q) /\ at[c].seen.filled = 0
      BY <3>3 DEF In, Alone
    <3>6. QED
      BY <3>2, <3>4, <3>5
  <2>2. QED
    BY <2>1 DEF IInv, PartsBooked
<1>8. QED
  BY <1>2, <1>3, <1>4, <1>5, <1>6, <1>7 DEF IInv

\* cancel_crypto_order is called.
LEMMA CancelCallKeeps ==
  ASSUME IInv, NEW a \in Actors, NEW p \in Proposals, CancelCall(a, p) PROVE IInv'
<1>0. TypeOK /\ faults \in 0..MaxFaults /\ at \in [Actors -> Place]
  BY Types DEF IInv
<1>1. /\ at[a].pc = "call" /\ at[a].p = p
      /\ UNCHANGED << prop, approval, intent, res, fills, display, order, late, crashes >>
      /\ \/ Stop(a) /\ UNCHANGED faults
         \/ Fault /\ Goto(a, "withdrawn")
         \/ Fault /\ at' = [at EXCEPT ![a].pc = "withdrawn", ![a].was = "reconciliation_required"]
  BY DEF CancelCall, At, ledger
<1>2. Carried(a) /\ at[a].pc \in OnIntent
  BY <1>1 DEF Carried, OnIntent, Withdrawing
<1>3. CASE Stop(a) /\ UNCHANGED faults
  BY <1>0, <1>1, <1>2, <1>3, NothingWritten
<1>4. CASE /\ Fault
           /\ \/ Goto(a, "withdrawn")
              \/ at' = [at EXCEPT ![a].pc = "withdrawn", ![a].was = "reconciliation_required"]
  <2>1. /\ at' \in [Actors -> Place] /\ Alone(a) /\ at'[a].pc = "withdrawn" /\ at'[a].p = p
        /\ at'[a].was \in { at[a].was, "reconciliation_required" }
    <3>1. CASE Goto(a, "withdrawn")
      BY <1>0, <1>1, <3>1, GoMoves DEF Alone, Labels
    <3>2. CASE at' = [at EXCEPT ![a].pc = "withdrawn", ![a].was = "reconciliation_required"]
      <4> DEFINE r == [at[a] EXCEPT !.pc = "withdrawn", !.was = "reconciliation_required"]
      <4>1. at' = [at EXCEPT ![a] = r]
        BY <3>2
      <4>2. r \in Place /\ r.pc = "withdrawn" /\ r.was = "reconciliation_required" /\ r.p = p
        BY <1>0, <1>1, ZenonT(60) DEF Place, Labels, IntentStates, AMBIGUOUS_INTENT_STATES
      <4> HIDE DEF r
      <4>3. at' \in [Actors -> Place] /\ at'[a] = r /\ Alone(a)
        BY <1>0, <4>1, <4>2, PlaceTaken
      <4>4. QED
        BY <4>2, <4>3
    <3>3. QED
      BY <1>1, <1>4, <3>1, <3>2
  <2>2. SeenIsPast'
    BY <1>1, <2>1 DEF IInv, SeenIsPast, Alone, Settling
  <2>3. WithdrawsTo'
    <3>1. at'[a].was = "partially_filled" => order[p].filled > 0
      BY <1>1, <2>1 DEF IInv, WithdrawsTo, Withdrawing
    <3>2. at'[a].was \in { "reserved", "submitting", "submitted", "partially_filled",
                           "retryable_pre_submission", "reconciliation_required" }
      BY <1>1, <2>1 DEF IInv, WithdrawsTo, Withdrawing
    <3>3. QED
      BY <1>1, <2>1, <3>1, <3>2 DEF IInv, WithdrawsTo, Alone
  <2>4. \A q \in Proposals : (Finishing(q, Ended) => Finishing(q, Ended)') /\ (Partly(q) => Partly(q)')
    BY <1>1, <2>1, GoesOnBeside
  <2>5. faults' \in 0..MaxFaults
    BY <1>0, <1>4, FaultTyped
  <2>6. at[a].pc \in Withdrawing /\ at'[a].pc \in (OnIntent \ Executing) \cup { "idle" }
    BY <1>1, <2>1 DEF OnIntent, Executing, Withdrawing
  <2>7. QED
    BY <1>1, <1>2, <2>1, <2>2, <2>3, <2>4, <2>5, <2>6, LookStep
<1>5. QED
  BY <1>1, <1>3, <1>4

\* What the broker reports is how its order is.
LEMMA ReportIsTrue ==
  ASSUME IInv, NEW p \in Proposals, order[p].state \notin { "none", "flight" }
  PROVE  LET seen == Reported(p) IN
         /\ seen \in Report /\ seen.status # "none" /\ seen.filled = order[p].filled
         /\ seen.status \in Ended => seen.status = order[p].state
         /\ seen.status = "accepted" => seen.filled = 0
         /\ seen.status = "partially_filled" => seen.filled \in 1..Quantity - 1
<1>1. order[p] \in Order /\ order[p].filled \in 0..Quantity /\ Quantity \in Nat
  BY Types, CryptoLaneAssumption DEF IInv, Order
<1>2. order[p].state \in { "open" } \cup Ended
  BY <1>1 DEF Order
<1>3. order[p].state = "filled" <=> order[p].filled = Quantity
  BY DEF IInv, OrdersAre
<1> DEFINE seen == Reported(p)
<1>4. /\ seen.filled = order[p].filled
      /\ seen.status = IF order[p].state \in Ended THEN order[p].state
                       ELSE IF order[p].filled > 0 THEN "partially_filled" ELSE "accepted"
  BY DEF Reported
<1>5. seen.status \in { "none", "accepted", "partially_filled" } \cup Ended
  BY <1>4
<1>6. seen \in Report
  BY <1>1, <1>5 DEF Reported, Report
<1>7. seen.status # "none"
  BY <1>4 DEF Ended
<1>8. seen.status \in Ended => seen.status = order[p].state
  BY <1>4 DEF Ended
<1>9. seen.status = "accepted" => seen.filled = 0
  BY <1>1, <1>4 DEF Ended
<1>10. seen.status = "partially_filled" => seen.filled \in 1..Quantity - 1
  BY <1>1, <1>2, <1>3, <1>4 DEF Ended
<1> HIDE DEF seen
<1>11. QED
  BY <1>4, <1>6, <1>7, <1>8, <1>9, <1>10 DEF seen

\* reconcile_intent asks the broker.
LEMMA LookupKeeps ==
  ASSUME IInv, NEW a \in Actors, NEW p \in Proposals, Lookup(a, p) PROVE IInv'
<1>0. TypeOK /\ faults \in 0..MaxFaults /\ at \in [Actors -> Place]
  BY Types DEF IInv
<1>1. /\ at[a].pc = "lookup" /\ at[a].p = p
      /\ UNCHANGED << prop, approval, intent, res, fills, display, order, late, crashes >>
      /\ faults' = faults \/ Fault
      /\ \/ Stop(a) \/ Goto(a, "unsure")
         \/ /\ order[p].state \notin { "none", "flight" }
            /\ at' = [at EXCEPT ![a].pc = "settle", ![a].seen = Reported(p)]
  BY DEF Lookup, At, ledger
<1>2. Carried(a) /\ at[a].pc \in OnIntent
  BY <1>1 DEF Carried, OnIntent
<1>3. faults' \in 0..MaxFaults
  BY <1>0, <1>1, FaultTyped
<1>4. CASE Stop(a) \/ Goto(a, "unsure")
  BY <1>1, <1>2, <1>3, <1>4, NothingWritten
<1>5. CASE /\ order[p].state \notin { "none", "flight" }
           /\ at' = [at EXCEPT ![a].pc = "settle", ![a].seen = Reported(p)]
  <2>1. /\ Reported(p) \in Report /\ Reported(p).status # "none" /\ Reported(p).filled = order[p].filled
        /\ Reported(p).status \in Ended => Reported(p).status = order[p].state
        /\ Reported(p).status = "accepted" => Reported(p).filled = 0
        /\ Reported(p).status = "partially_filled" => Reported(p).filled \in 1..Quantity - 1
    BY <1>5, ReportIsTrue
  <2> DEFINE r == [at[a] EXCEPT !.pc = "settle", !.seen = Reported(p)]
  <2>2. at' = [at EXCEPT ![a] = r]
    BY <1>5
  <2>3. r \in Place /\ r.pc = "settle" /\ r.seen = Reported(p) /\ r.p = p
    BY <1>0, <1>1, <2>1, ZenonT(60) DEF Place, Labels
  <2> HIDE DEF r
  <2>4. /\ at' \in [Actors -> Place] /\ Alone(a)
        /\ at'[a].pc = "settle" /\ at'[a].p = p /\ at'[a].seen = Reported(p)
    <3>1. at' \in [Actors -> Place] /\ at'[a] = r /\ Alone(a)
      BY <1>0, <2>2, <2>3, PlaceTaken
    <3>2. QED
      BY <2>3, <3>1
  <2>5. SeenIsPast'
    <3>1. order[p].filled \in 0..Quantity
      BY Types DEF IInv, Order
    <3>2. SUFFICES ASSUME NEW b \in Actors, at'[b].pc \in Settling
          PROVE  LET seen == at'[b].seen o == order'[at'[b].p] IN
                 /\ o.state \notin { "none", "flight" }
                 /\ seen.status # "none"
                 /\ seen.filled <= o.filled
                 /\ seen.status \in Ended => seen.status = o.state /\ seen.filled = o.filled
                 /\ seen.status = "accepted" => seen.filled = 0
                 /\ seen.status = "partially_filled" => seen.filled \in 1..Quantity - 1
                 /\ at'[b].pc = "book" => at'[b].total < seen.filled
      BY DEF SeenIsPast
    <3>3. CASE b = a
      BY <1>1, <1>5, <2>1, <2>4, <3>1, <3>3
    <3>4. CASE b # a
      BY <1>1, <2>4, <3>2, <3>4 DEF IInv, SeenIsPast, Alone
    <3>5. QED
      BY <3>3, <3>4
  <2>6. WithdrawsTo'
    BY <1>1, <2>4 DEF IInv, WithdrawsTo, Alone, Withdrawing
  <2>7. \A q \in Proposals : (Finishing(q, Ended) => Finishing(q, Ended)') /\ (Partly(q) => Partly(q)')
    BY <1>1, <2>4, GoesOnBeside
  <2>8. at'[a].pc \notin Withdrawing /\ at'[a].pc \in (OnIntent \ Executing) \cup { "idle" }
        /\ at'[a].seen.filled = order[p].filled
    BY <2>1, <2>4 DEF OnIntent, Executing, Withdrawing, Settling
  <2>9. QED
    BY <1>1, <1>2, <1>3, <2>4, <2>5, <2>6, <2>7, <2>8, LookStep
<1>6. QED
  BY <1>1, <1>4, <1>5

\* reconcile_intent reads what is booked.
LEMMA TotalsKeeps ==
  ASSUME IInv, NEW a \in Actors, NEW p \in Proposals, Totals(a, p) PROVE IInv'
<1>0. TypeOK /\ faults \in 0..MaxFaults /\ at \in [Actors -> Place] /\ fills \in [Proposals -> 0..Quantity]
  BY Types DEF IInv
<1> DEFINE seen == at[a].seen.filled
           l == IF seen > fills[p] THEN "book" ELSE "unsure"
<1>1. /\ at[a].pc = "totals" /\ at[a].p = p
      /\ UNCHANGED << prop, approval, intent, res, fills, display, order, late, faults, crashes >>
      /\ \/ seen = fills[p] /\ Stop(a)
         \/ seen # fills[p] /\ at' = [at EXCEPT ![a].pc = l, ![a].total = fills[p]]
  BY DEF Totals, At, ledger, outside
<1>2. at[a].pc \in OnIntent
  BY <1>1 DEF OnIntent, Settling
<1>3. /\ order[p].state \notin { "none", "flight" } /\ at[a].seen.status # "none" /\ seen <= order[p].filled
      /\ at[a].seen.status \in Ended => at[a].seen.status = order[p].state /\ seen = order[p].filled
      /\ at[a].seen.status = "accepted" => seen = 0
      /\ at[a].seen.status = "partially_filled" => seen \in 1..Quantity - 1
  BY <1>1 DEF IInv, SeenIsPast, Settling
<1>4. seen \in 0..Quantity /\ fills[p] \in 0..Quantity
  BY <1>0 DEF Place, Report
<1>5. CASE seen = fills[p] /\ Stop(a)
  <2>1. at' \in [Actors -> Place] /\ Alone(a) /\ at'[a].pc = "idle"
    BY <1>0, <1>5, StopMoves DEF Alone
  <2>2. SeenIsPast'
    BY <1>1, <2>1 DEF IInv, SeenIsPast, Alone, Settling
  <2>3. WithdrawsTo'
    BY <1>1, <2>1 DEF IInv, WithdrawsTo, Alone, Withdrawing
  <2>4. ASSUME NEW q \in Proposals, Finishing(q, Ended)
        PROVE  Finishing(q, Ended)' \/ fills[q] = order[q].filled
    BY <1>1, <1>3, <1>5, <2>1, <2>4 DEF Finishing, In, Alone
  <2>5. ASSUME NEW q \in Proposals, Partly(q) PROVE Partly(q)'
    BY <1>1, <1>3, <1>5, <2>1, <2>5 DEF Partly, In, Alone
  <2>6. at'[a].pc \notin Withdrawing /\ at'[a].pc # "settle"
    BY <2>1 DEF Withdrawing
  <2>7. QED
    BY <1>0, <1>1, <1>2, <2>1, <2>2, <2>3, <2>4, <2>5, <2>6, LookStep
<1>6. CASE seen # fills[p] /\ at' = [at EXCEPT ![a].pc = l, ![a].total = fills[p]]
  <2> DEFINE r == [at[a] EXCEPT !.pc = l, !.total = fills[p]]
  <2>1. at' = [at EXCEPT ![a] = r]
    BY <1>6
  <2>2. r \in Place /\ r.pc = l /\ r.seen = at[a].seen /\ r.p = p /\ r.total = fills[p]
    BY <1>0, <1>1, <1>4, ZenonT(60) DEF Place, Labels
  <2> HIDE DEF r
  <2>3. /\ at' \in [Actors -> Place] /\ Alone(a)
        /\ at'[a].pc = l /\ at'[a].p = p /\ at'[a].seen = at[a].seen /\ at'[a].total = fills[p]
    <3>1. at' \in [Actors -> Place] /\ at'[a] = r /\ Alone(a)
      BY <1>0, <2>1, <2>2, PlaceTaken
    <3>2. QED
      BY <2>2, <3>1
  <2>4. SeenIsPast'
    <3>1. SUFFICES ASSUME NEW b \in Actors, at'[b].pc \in Settling
          PROVE  LET s == at'[b].seen o == order'[at'[b].p] IN
                 /\ o.state \notin { "none", "flight" }
                 /\ s.status # "none"
                 /\ s.filled <= o.filled
                 /\ s.status \in Ended => s.status = o.state /\ s.filled = o.filled
                 /\ s.status = "accepted" => s.filled = 0
                 /\ s.status = "partially_filled" => s.filled \in 1..Quantity - 1
                 /\ at'[b].pc = "book" => at'[b].total < s.filled
      BY DEF SeenIsPast
    <3>2. CASE b = a
      BY <1>1, <1>3, <1>4, <2>3, <3>2
    <3>3. CASE b # a
      BY <1>1, <2>3, <3>1, <3>3 DEF IInv, SeenIsPast, Alone
    <3>4. QED
      BY <3>2, <3>3
  <2>5. l \in { "book", "unsure" }
    OBVIOUS
  <2>6. WithdrawsTo'
    BY <1>1, <2>3, <2>5 DEF IInv, WithdrawsTo, Alone, Withdrawing
  <2>7. ASSUME NEW q \in Proposals, Finishing(q, Ended) PROVE Finishing(q, Ended)'
    BY <1>1, <2>3, <2>5, <2>7 DEF Finishing, In, Alone
  <2>8. ASSUME NEW q \in Proposals, Partly(q) PROVE Partly(q)'
    BY <1>1, <2>3, <2>5, <2>8 DEF Partly, In, Alone
  <2>9. at'[a].pc \notin Withdrawing /\ at'[a].pc # "settle" /\ at'[a].pc \in (OnIntent \ Executing) \cup { "idle" }
    BY <2>3, <2>5 DEF Withdrawing, OnIntent, Executing, Settling
  <2>10. QED
    BY <1>0, <1>1, <1>2, <2>3, <2>4, <2>6, <2>7, <2>8, <2>9, LookStep
<1>7. QED
  BY <1>1, <1>5, <1>6

\* A withdrawal that came to nothing restores what the intent was.
LEMMA WithdrawalRestores ==
  ASSUME IInv, NEW a \in Actors, NEW p \in Proposals, at[a].pc = "withdrawn", at[a].p = p,
         at[a].was # "reconciliation_required", intent[p].state = "cancel_pending",
         IntentState(p, at[a].was), Stop(a),
         UNCHANGED << prop, approval, res, display, fills, order, late, faults, crashes >>
  PROVE  IInv'
<1>0. TypeOK /\ order \in [Proposals -> Order]
  BY Types DEF IInv
<1> DEFINE s == at[a].was
<1>1. /\ s \in { "reserved", "submitting", "submitted", "partially_filled", "retryable_pre_submission" }
      /\ s = "partially_filled" => order[p].filled > 0
  BY DEF IInv, WithdrawsTo, Withdrawing
<1>2. s \in IntentStates
  BY <1>1 DEF IntentStates, ACTIVE_INTENT_STATES
<1>3. /\ intent' \in [Proposals -> Intent] /\ \A q \in Proposals \ { p } : intent'[q] = intent[q]
      /\ intent'[p].state = s /\ intent'[p].invoked = intent[p].invoked
  BY <1>0, <1>2, IntentMoves
<1>4. at' \in [Actors -> Place] /\ Alone(a) /\ at'[a].pc = "idle"
  BY <1>0, StopMoves DEF Alone
<1>5. outbox' = outbox /\ shown' = shown
  BY DEF display
<1> HIDE DEF s
<1>6. TypeOK'
  BY <1>0, <1>3, <1>4, <1>5, Types, TypesNext
<1>7. RowsExist' /\ SendingInHand'
  <2>1. res[p].state # "none" /\ at[a].pc \in OnIntent /\ s # "none"
    BY <1>1 DEF IInv, RowsExist, OnIntent, Withdrawing
  <2>2. QED
    BY <1>3, <1>4, <1>6, <2>1, PapersStay
<1>8. OrdersAre' /\ SubmissionHolds' /\ OneEngaged'
  <2>1. \A q \in Proposals : intent[q].invoked => intent'[q].invoked
    BY <1>3
  <2>2. \A q \in Proposals : Engaged(q) => InForce(q)'
    BY <1>1, <1>3 DEF IInv, OneEngaged, InForce, ACTIVE_INTENT_STATES
  <2>3. \A q \in Proposals : Engaged(q) => res'[q].units >= Quantity - order[q].filled
    BY <1>0, CryptoLaneAssumption DEF IInv, OneEngaged, Engaged, SubmissionHolds, OrdersAre, In
  <2>4. at'[a].pc \notin Executing
    BY <1>4 DEF Executing
  <2>5. QED
    BY <1>4, <2>1, <2>2, <2>3, <2>4, HoldsStay
<1>9. SeenIsPast'
  BY <1>4 DEF IInv, SeenIsPast, Alone, Settling
<1>10. BookedWithinBroker'
  <2>1. \A q \in Proposals : order[q] \in Order /\ order[q].filled <= order'[q].filled
    BY <1>0 DEF Order
  <2>2. QED
    BY <2>1, BooksStay
<1>11. \A q \in Proposals : (Finishing(q, Ended) => Finishing(q, Ended)') /\ (Partly(q) => Partly(q)')
  BY <1>4, GoesOnBeside
<1>12. EndsBooked'
  <2>1. intent'[p].state \notin TERMINAL_INTENT_STATES \cup { "filled" }
    BY <1>1, <1>3 DEF TERMINAL_INTENT_STATES
  <2>2. intent'[p].state = "partially_filled" => order'[p].filled > 0
    BY <1>1, <1>3
  <2>3. QED
    BY <1>3, <1>11, <2>1, <2>2 DEF IInv, EndsBooked
<1>13. WithdrawsTo'
  BY <1>4 DEF IInv, WithdrawsTo, Alone, Withdrawing
<1>14. PartsBooked'
  <2>0. ASSUME NEW b \in Actors, crashes = 0, In(b, Withdrawing, p), at[b].was = "partially_filled"
        PROVE  Partly(p)'
    BY <1>11, <2>0 DEF IInv, PartsBooked, ACTIVE_INTENT_STATES
  <2>1. ASSUME crashes = 0, NEW q \in Proposals, intent'[q].state = "partially_filled" PROVE Partly(q)'
    <3>1. CASE q = p
      BY <1>3, <2>0, <2>1, <3>1 DEF In, Withdrawing, s
    <3>2. CASE q # p
      BY <1>3, <1>11, <2>1, <3>2 DEF IInv, PartsBooked
    <3>3. QED
      BY <3>1, <3>2
  <2>2. ASSUME crashes = 0, NEW b \in Actors, NEW q \in Proposals,
               In(b, Withdrawing, q)', at'[b].was = "partially_filled"
        PROVE  /\ intent'[q].state \in ACTIVE_INTENT_STATES => Partly(q)'
               /\ \A c \in Actors : In(c, { "answer" }, q)' => fills'[q] \in 1..Quantity - 1
               /\ \A c \in Actors : In(c, { "settle" }, q)' /\ at'[c].seen.filled = 0 => fills'[q] > 0
    <3>1. b # a /\ In(b, Withdrawing, q) /\ at[b].was = "partially_filled"
      BY <1>4, <2>2 DEF In, Alone, Withdrawing
    <3>2. /\ intent[q].state \in ACTIVE_INTENT_STATES => Partly(q)
          /\ \A c \in Actors : In(c, { "answer" }, q) => fills[q] \in 1..Quantity - 1
          /\ \A c \in Actors : In(c, { "settle" }, q) /\ at[c].seen.filled = 0 => fills[q] > 0
      BY <2>2, <3>1 DEF IInv, PartsBooked
    <3>3. q = p => Partly(q)'
      BY <2>0, <2>2, <3>1
    <3>4. q # p /\ intent'[q].state \in ACTIVE_INTENT_STATES => Partly(q)'
      BY <1>3, <1>11, <3>2
    <3>5. /\ \A c \in Actors : In(c, { "answer" }, q)' => fills'[q] \in 1..Quantity - 1
          /\ \A c \in Actors : In(c, { "settle" }, q)' /\ at'[c].seen.filled = 0 => fills'[q] > 0
      BY <1>4, <3>2 DEF In, Alone
    <3>6. QED
      BY <3>3, <3>4, <3>5
  <2>3. QED
    BY <2>1, <2>2 DEF PartsBooked
<1>15. QED
  BY <1>6, <1>7, <1>8, <1>9, <1>10, <1>12, <1>13, <1>14 DEF IInv

\* cancel_intent's second transaction.
LEMMA CancelWithdrawnKeeps ==
  ASSUME IInv, NEW a \in Actors, NEW p \in Proposals, CancelWithdrawn(a, p) PROVE IInv'
<1>0. TypeOK /\ faults \in 0..MaxFaults
  BY Types DEF IInv
<1>1. /\ at[a].pc = "withdrawn" /\ at[a].p = p /\ Stop(a)
      /\ UNCHANGED << display, approval, res, fills, order, late, faults, crashes >>
  BY DEF CancelWithdrawn, At, outside
<1>2. Carried(a) /\ at[a].pc \in OnIntent
  BY <1>1 DEF Carried, OnIntent, Withdrawing
<1>3. CASE at[a].was = "reconciliation_required"
  <2>1. IntentState(p, "reconciliation_required") /\ \E t \in ProposalStates : Status(p, t)
    BY <1>0, <1>3, ReviewWrites DEF CancelWithdrawn
  <2>2. "reconciliation_required" \in IntentStates /\ "reconciliation_required" \in AMBIGUOUS_INTENT_STATES
    BY DEF IntentStates, AMBIGUOUS_INTENT_STATES
  <2>3. QED
    BY <1>0, <1>1, <1>2, <2>1, <2>2, StateWritten
<1>4. CASE at[a].was # "reconciliation_required"
  <2>1. /\ UNCHANGED prop
        /\ intent[p].state = "cancel_pending" => IntentState(p, at[a].was)
        /\ intent[p].state # "cancel_pending" => UNCHANGED intent
    BY <1>4 DEF CancelWithdrawn
  <2>2. QED
    BY <1>0, <1>1, <1>2, <1>4, <2>1, NothingWritten, WithdrawalRestores
<1>5. QED
  BY <1>3, <1>4

\* What a reconciliation does to the states: those that the broker's states map to.
LEMMA MappedStates ==
  ASSUME NEW t \in { "accepted", "partially_filled" } \cup Ended
  PROVE  /\ mapped_state(t) \in { "submitted", "partially_filled" } \cup Ended
         /\ mapped_state(t) \in IntentStates /\ mapped_proposal(mapped_state(t)) \in ProposalStates
         /\ mapped_state(t) \in TERMINAL_INTENT_STATES <=> t \in Ended
         /\ mapped_state(t) \in ACTIVE_INTENT_STATES <=> t \notin Ended
         /\ mapped_state(t) = "submitted" <=> t = "accepted"
         /\ mapped_state(t) = "partially_filled" <=> t = "partially_filled"
         /\ mapped_state(t) = "filled" <=> t = "filled"
BY DEF mapped_state, mapped_proposal, Ended, IntentStates, ProposalStates, TERMINAL_INTENT_STATES,
       AMBIGUOUS_INTENT_STATES, ACTIVE_INTENT_STATES

\* The order that a lookup has seen is not being sent.
LEMMA SeenNotSent ==
  ASSUME IInv, NEW a \in Actors, NEW p \in Proposals, at[a].pc \in Settling, at[a].p = p
  PROVE  /\ order[p].state \notin { "none", "flight" } /\ intent[p].invoked
         /\ Engaged(p) => order[p].state = "open"
<1>1. order[p].state \notin { "none", "flight" }
  BY DEF IInv, SeenIsPast
<1>2. \A b \in Actors : ~In(b, { "submit" }, p)
  BY <1>1 DEF IInv, SubmissionHolds, In
<1>3. QED
  BY <1>1, <1>2 DEF IInv, OrdersAre, Engaged, Live

\* What the broker reported is written.
LEMMA SettleKeeps ==
  ASSUME IInv, NEW a \in Actors, NEW p \in Proposals, Settle(a, p) PROVE IInv'
<1>0. TypeOK /\ order \in [Proposals -> Order] /\ intent \in [Proposals -> Intent]
      /\ prop \in [Proposals -> Proposal] /\ at \in [Actors -> Place] /\ fills \in [Proposals -> 0..Quantity]
      /\ res \in [Proposals -> Reservation]
  BY Types DEF IInv
<1> DEFINE seen == at[a].seen
           s == mapped_state(seen.status)
<1>1. /\ at[a].pc = "settle" /\ at[a].p = p /\ Goto(a, "totals")
      /\ UNCHANGED << outbox, shown, approval, fills, order, late, faults, crashes >>
      /\ intent' = [intent EXCEPT ![p].state = s, ![p].known = TRUE] /\ Status(p, mapped_proposal(s))
      /\ res' = IF releases(seen) THEN Released(p) ELSE res
  BY DEF Settle, At, display, outside
<1>2. /\ seen.status # "none" /\ seen.filled <= order[p].filled
      /\ seen.status \in Ended => seen.status = order[p].state /\ seen.filled = order[p].filled
      /\ seen.status = "accepted" => seen.filled = 0
      /\ seen.status = "partially_filled" => seen.filled \in 1..Quantity - 1
  BY <1>1 DEF IInv, SeenIsPast, Settling
<1>3. seen.filled \in 0..Quantity /\ order[p].filled \in 0..Quantity
      /\ seen.status \in { "accepted", "partially_filled" } \cup Ended
  BY <1>0, <1>2 DEF Place, Report, Order
<1>4. /\ s \in { "submitted", "partially_filled" } \cup Ended
      /\ s \in IntentStates /\ mapped_proposal(s) \in ProposalStates
      /\ s \in TERMINAL_INTENT_STATES <=> seen.status \in Ended
      /\ s \in ACTIVE_INTENT_STATES <=> seen.status \notin Ended
      /\ s = "submitted" <=> seen.status = "accepted"
      /\ s = "partially_filled" <=> seen.status = "partially_filled"
      /\ s = "filled" <=> seen.status = "filled"
  BY <1>3, MappedStates
<1>5. /\ order[p].state \notin { "none", "flight" } /\ intent[p].invoked
      /\ Engaged(p) => order[p].state = "open"
  BY <1>1, SeenNotSent DEF Settling
<1> HIDE DEF s
<1>6. /\ intent' \in [Proposals -> Intent] /\ \A q \in Proposals \ { p } : intent'[q] = intent[q]
      /\ intent'[p].state = s /\ intent'[p].invoked = intent[p].invoked
  <2> DEFINE r == [intent[p] EXCEPT !.state = s, !.known = TRUE]
  <2>1. intent' = [intent EXCEPT ![p] = r]
    BY <1>1
  <2>2. r.state = s /\ r \in Intent
    BY <1>0, <1>4 DEF Intent
  <2>3. r.invoked = intent[p].invoked
    BY <1>0 DEF Intent
  <2> HIDE DEF r
  <2>4. intent'[p] = r /\ intent' \in [Proposals -> Intent] /\ \A q \in Proposals \ { p } : intent'[q] = intent[q]
    BY <1>0, <2>1, <2>2
  <2>5. QED
    BY <2>2, <2>3, <2>4
<1>7. /\ res' \in [Proposals -> Reservation] /\ \A q \in Proposals \ { p } : res'[q] = res[q]
      /\ res[p].state # "none" => res'[p].state # "none"
      /\ seen.status \notin Ended => res'[p] = res[p]
  BY <1>0, <1>1, ReleaseMoves DEF releases, Ended
<1>8. /\ at' \in [Actors -> Place] /\ Alone(a) /\ at'[a].pc = "totals" /\ at'[a].p = p /\ at'[a].seen = seen
  BY <1>0, <1>1, GoMoves DEF Alone, Labels
<1>9. /\ prop' \in [Proposals -> Proposal]
      /\ \A q \in Proposals : prop'[q].side = prop[q].side
      /\ \A q \in Proposals : prop[q].status # "none" => prop'[q].status # "none"
  BY <1>0, <1>1, <1>4, StatusMoves
<1>10. TypeOK'
  BY <1>0, <1>1, <1>6, <1>7, <1>8, <1>9, Types, TypesNext
<1>11. RowsExist' /\ SendingInHand'
  <2>1. res[p].state # "none" /\ at[a].pc \in OnIntent /\ at'[a].pc \in OnIntent
    BY <1>1, <1>8 DEF IInv, RowsExist, OnIntent, Settling
  <2>2. intent'[p].state # "none"
    BY <1>4, <1>6 DEF Ended
  <2>3. QED
    BY <1>1, <1>6, <1>7, <1>8, <1>9, <1>10, <2>1, <2>2, PapersStay DEF display
<1>12. Engaged(p) => seen.status \notin Ended
  BY <1>2, <1>5 DEF Ended
<1>13. OrdersAre' /\ SubmissionHolds' /\ OneEngaged'
  <2>1. \A q \in Proposals : intent[q].invoked => intent'[q].invoked
    BY <1>6
  <2>2. \A q \in Proposals : Engaged(q) => res'[q] = res[q]
    BY <1>7, <1>12
  <2>3. \A q \in Proposals : Engaged(q) => InForce(q)'
    <3>1. Engaged(p) => InForce(p)'
      BY <1>4, <1>6, <1>12, <2>2 DEF IInv, OneEngaged, InForce
    <3>2. \A q \in Proposals \ { p } : Engaged(q) => InForce(q)'
      BY <1>6, <1>7 DEF IInv, OneEngaged, InForce
    <3>3. QED
      BY <3>1, <3>2
  <2>4. \A q \in Proposals : Engaged(q) => res'[q].units >= Quantity - order[q].filled
    BY <1>0, <2>2, CryptoLaneAssumption DEF IInv, OneEngaged, Engaged, SubmissionHolds, OrdersAre, In
  <2>5. at'[a].pc \notin Executing
    BY <1>8 DEF Executing
  <2>6. \A q \in Proposals : order[q].state = "none" /\ intent[q].invoked => res'[q] = res[q]
    BY <1>5, <1>7
  <2>7. QED
    BY <1>1, <1>8, <2>1, <2>3, <2>4, <2>5, <2>6, HoldsStay
<1>14. SeenIsPast'
  <2>1. SUFFICES ASSUME NEW b \in Actors, at'[b].pc \in Settling
        PROVE  LET w == at'[b].seen o == order'[at'[b].p] IN
               /\ o.state \notin { "none", "flight" }
               /\ w.status # "none"
               /\ w.filled <= o.filled
               /\ w.status \in Ended => w.status = o.state /\ w.filled = o.filled
               /\ w.status = "accepted" => w.filled = 0
               /\ w.status = "partially_filled" => w.filled \in 1..Quantity - 1
               /\ at'[b].pc = "book" => at'[b].total < w.filled
    BY DEF SeenIsPast
  <2>2. CASE b = a
    BY <1>1, <1>2, <1>5, <1>8, <2>2
  <2>3. CASE b # a
    BY <1>1, <1>8, <2>1, <2>3 DEF IInv, SeenIsPast, Alone
  <2>4. QED
    BY <2>2, <2>3
<1>15. BookedWithinBroker'
  <2>1. \A q \in Proposals : order[q] \in Order /\ order'[q] \in Order /\ order[q].filled <= order'[q].filled
    BY <1>0, <1>1 DEF Order
  <2>2. QED
    BY <1>1, <1>9, <2>1, BooksStay
<1>16. \A q \in Proposals : (Finishing(q, Ended) => Finishing(q, Ended)') /\ (Partly(q) => Partly(q)')
  BY <1>1, <1>8, GoesOnBeside
<1>17. EndsBooked'
  <2>1. s \in TERMINAL_INTENT_STATES => Finishing(p, Ended)'
    BY <1>4, <1>8 DEF Finishing, In
  <2>2. /\ s = "filled" => order[p].state = "filled"
        /\ s = "partially_filled" => order[p].filled > 0
    BY <1>2, <1>3, <1>4 DEF Ended
  <2>3. QED
    BY <1>1, <1>6, <1>16, <2>1, <2>2 DEF IInv, EndsBooked
<1>18. WithdrawsTo'
  BY <1>1, <1>8 DEF IInv, WithdrawsTo, Alone, Withdrawing
<1>19. PartsBooked'
  <2>1. s = "partially_filled" => Partly(p)'
    BY <1>4, <1>8 DEF Partly, In
  <2>2. ASSUME crashes = 0, NEW q \in Proposals, intent'[q].state = "partially_filled" PROVE Partly(q)'
    <3>1. CASE q = p
      BY <1>6, <2>1, <2>2, <3>1
    <3>2. CASE q # p
      BY <1>6, <1>16, <2>2, <3>2 DEF IInv, PartsBooked
    <3>3. QED
      BY <3>1, <3>2
  <2>3. ASSUME crashes = 0, NEW b \in Actors, NEW q \in Proposals,
               In(b, Withdrawing, q)', at'[b].was = "partially_filled"
        PROVE  /\ intent'[q].state \in ACTIVE_INTENT_STATES => Partly(q)'
               /\ \A c \in Actors : In(c, { "answer" }, q)' => fills'[q] \in 1..Quantity - 1
               /\ \A c \in Actors : In(c, { "settle" }, q)' /\ at'[c].seen.filled = 0 => fills'[q] > 0
    <3>1. b # a /\ In(b, Withdrawing, q) /\ at[b].was = "partially_filled"
      BY <1>8, <2>3 DEF In, Alone, Withdrawing
    <3>2. /\ intent[q].state \in ACTIVE_INTENT_STATES => Partly(q)
          /\ \A c \in Actors : In(c, { "answer" }, q) => fills[q] \in 1..Quantity - 1
          /\ \A c \in Actors : In(c, { "settle" }, q) /\ at[c].seen.filled = 0 => fills[q] > 0
      BY <2>3, <3>1 DEF IInv, PartsBooked
    <3>3. q = p /\ intent'[q].state \in ACTIVE_INTENT_STATES => Partly(q)'
      <4>1. SUFFICES ASSUME q = p, intent'[q].state \in ACTIVE_INTENT_STATES, s # "partially_filled"
            PROVE  Partly(q)'
        BY <2>1
      <4>2. seen.filled = 0
        BY <1>2, <1>3, <1>4, <1>6, <4>1
      <4>3. fills[p] > 0
        BY <1>1, <3>2, <4>1, <4>2 DEF In
      <4>4. at'[a].seen.filled # fills'[p]
        BY <1>1, <1>8, <4>2, <4>3
      <4>5. QED
        BY <1>8, <4>1, <4>4 DEF Partly, In
    <3>4. q # p /\ intent'[q].state \in ACTIVE_INTENT_STATES => Partly(q)'
      BY <1>6, <1>16, <3>2
    <3>5. /\ \A c \in Actors : In(c, { "answer" }, q)' => fills'[q] \in 1..Quantity - 1
          /\ \A c \in Actors : In(c, { "settle" }, q)' /\ at'[c].seen.filled = 0 => fills'[q] > 0
      BY <1>1, <1>8, <3>2 DEF In, Alone
    <3>6. QED
      BY <3>3, <3>4, <3>5
  <2>4. QED
    BY <1>1, <2>2, <2>3 DEF PartsBooked
<1>20. QED
  BY <1>10, <1>11, <1>13, <1>14, <1>15, <1>17, <1>18, <1>19 DEF IInv

\* The sums of the lane are totals.
LEMMA SummedIsTotal == ASSUME NEW f PROVE Summed(f) = total(f, Proposals)
BY DEF Summed, total

\* A fill that is accepted is booked up to what was seen.
LEMMA FillBooked ==
  ASSUME IInv, NEW a \in Actors, NEW p \in Proposals, at[a].pc = "book", at[a].p = p,
         fill_accepted(a, p), record_fill(p, fills[p] + (at[a].seen.filled - at[a].total)), Stop(a),
         UNCHANGED << display, approval, order, late, faults, crashes >>
  PROVE  IInv'
<1>0. TypeOK /\ order \in [Proposals -> Order] /\ intent \in [Proposals -> Intent]
      /\ prop \in [Proposals -> Proposal] /\ at \in [Actors -> Place] /\ fills \in [Proposals -> 0..Quantity]
      /\ res \in [Proposals -> Reservation] /\ Quantity \in Nat \ { 0 }
  BY Types, CryptoLaneAssumption DEF IInv
<1> DEFINE c == at[a].seen.filled
           s == IF c = Quantity THEN "filled" ELSE "partially_filled"
           rest == IF s = "filled" THEN [state |-> "released", units |-> 0]
                   ELSE IF res[p].state = "active" THEN [res[p] EXCEPT !.units = Quantity - c] ELSE res[p]
<1>1. c \in 0..Quantity /\ at[a].total \in 0..Quantity /\ order[p].filled \in 0..Quantity
      /\ fills[p] \in 0..Quantity
  BY <1>0 DEF Place, Report, Order
<1>2. fills[p] = at[a].total /\ (prop[p].side = "sell" => Lots >= c - fills[p])
  BY DEF fill_accepted
<1>3. c <= order[p].filled /\ fills[p] < c
  BY <1>2 DEF IInv, SeenIsPast, Settling
<1>4. fills[p] + (c - at[a].total) = c
  BY <1>1, <1>2
<1>5. /\ fills' = [fills EXCEPT ![p] = c] /\ IntentState(p, s) /\ Status(p, s)
      /\ res' = [res EXCEPT ![p] = rest]
  BY <1>4 DEF record_fill
<1>6. /\ order[p].state \notin { "none", "flight" } /\ intent[p].invoked
      /\ Engaged(p) => order[p].state = "open"
  BY SeenNotSent DEF Settling
<1>7. /\ s \in { "filled", "partially_filled" } /\ s \in IntentStates /\ s \in ProposalStates
      /\ s = "filled" <=> c = Quantity
      /\ s = "partially_filled" => s \in ACTIVE_INTENT_STATES /\ s \notin TERMINAL_INTENT_STATES
  BY DEF IntentStates, ProposalStates, TERMINAL_INTENT_STATES, ACTIVE_INTENT_STATES
<1>8. /\ rest \in Reservation
      /\ rest.state \in { "released", res[p].state }
      /\ s = "partially_filled" => rest.state = res[p].state
      /\ s = "partially_filled" /\ res[p].state = "active" => rest.units = Quantity - c
  BY <1>0, <1>1 DEF Reservation
<1>9. s = "filled" => order[p].filled = Quantity /\ order[p].state = "filled"
  BY <1>1, <1>3, <1>7 DEF IInv, OrdersAre
<1> HIDE DEF s, rest
<1>10. /\ intent' \in [Proposals -> Intent] /\ \A q \in Proposals \ { p } : intent'[q] = intent[q]
       /\ intent'[p].state = s /\ intent'[p].invoked = intent[p].invoked
  BY <1>0, <1>5, <1>7, IntentMoves
<1>11. /\ prop' \in [Proposals -> Proposal]
       /\ \A q \in Proposals : prop'[q].side = prop[q].side
       /\ \A q \in Proposals : prop[q].status # "none" => prop'[q].status # "none"
  BY <1>0, <1>5, <1>7, StatusMoves
<1>12. /\ fills' \in [Proposals -> 0..Quantity] /\ fills'[p] = c
       /\ \A q \in Proposals \ { p } : fills'[q] = fills[q]
  BY <1>0, <1>1, <1>5
<1>13. /\ res' \in [Proposals -> Reservation] /\ res'[p] = rest
       /\ \A q \in Proposals \ { p } : res'[q] = res[q]
  BY <1>0, <1>5, <1>8
<1>14. at' \in [Actors -> Place] /\ Alone(a) /\ at'[a].pc = "idle"
  BY <1>0, StopMoves DEF Alone
<1> HIDE DEF c
<1>15. TypeOK'
  BY <1>0, <1>10, <1>11, <1>12, <1>13, <1>14, Types, TypesNext DEF display
<1>16. RowsExist' /\ SendingInHand'
  <2>1. res[p].state # "none" /\ at[a].pc \in OnIntent
    BY DEF IInv, RowsExist, OnIntent, Settling
  <2>2. intent'[p].state # "none" /\ res'[p].state # "none"
    BY <1>7, <1>8, <1>10, <1>13, <2>1
  <2>3. QED
    BY <1>10, <1>11, <1>13, <1>14, <1>15, <2>1, <2>2, PapersStay
<1>17. OrdersAre' /\ SubmissionHolds' /\ OneEngaged'
  <2>1. \A q \in Proposals : intent[q].invoked => intent'[q].invoked
    BY <1>10
  <2>2. Engaged(p) => s = "partially_filled" /\ res[p].state = "active"
    BY <1>6, <1>7, <1>9 DEF IInv, OneEngaged, InForce
  <2>3. \A q \in Proposals : Engaged(q) => InForce(q)'
    <3>1. Engaged(p) => InForce(p)'
      BY <1>7, <1>8, <1>10, <1>13, <2>2 DEF InForce
    <3>2. \A q \in Proposals \ { p } : Engaged(q) => InForce(q)'
      BY <1>10, <1>13 DEF IInv, OneEngaged, InForce
    <3>3. QED
      BY <3>1, <3>2
  <2>4. \A q \in Proposals : Engaged(q) => res'[q].units >= Quantity - order[q].filled
    <3>1. Engaged(p) => res'[p].units >= Quantity - order[p].filled
      BY <1>0, <1>1, <1>3, <1>8, <1>13, <2>2
    <3>2. \A q \in Proposals \ { p } : Engaged(q) => res'[q].units >= Quantity - order[q].filled
      BY <1>0, <1>13, CryptoLaneAssumption DEF IInv, OneEngaged, Engaged, SubmissionHolds, OrdersAre, In
    <3>3. QED
      BY <3>1, <3>2
  <2>5. at'[a].pc \notin Executing
    BY <1>14 DEF Executing
  <2>6. \A q \in Proposals : order[q].state = "none" /\ intent[q].invoked => res'[q] = res[q]
    BY <1>6, <1>13
  <2>7. QED
    BY <1>14, <2>1, <2>3, <2>4, <2>5, <2>6, HoldsStay
<1>18. SeenIsPast'
  BY <1>14 DEF IInv, SeenIsPast, Alone, Settling
<1>19. BookedWithinBroker'
  <2>1. \A q \in Proposals : fills'[q] <= order'[q].filled
    BY <1>3, <1>12 DEF IInv, BookedWithinBroker
  <2> DEFINE f == [q \in Proposals |-> signed(q, fills[q])]
             g == [q \in Proposals |-> signed(q, fills[q])']
  <2>2. \A q \in Proposals \ { p } : g[q] = f[q]
    BY <1>11, <1>12 DEF signed
  <2>3. \A q \in Proposals : f[q] \in Int /\ g[q] \in Int
    BY <1>0, <1>12 DEF signed
  <2>4. g[p] - f[p] = IF prop[p].side = "buy" THEN c - fills[p] ELSE fills[p] - c
    BY <1>1, <1>11, <1>12 DEF signed
  <2>5. Lots = total(f, Proposals) /\ Lots' = total(g, Proposals)
    BY SummedIsTotal DEF Lots
  <2> HIDE DEF f, g
  <2>6. IsFiniteSet(Proposals)
    BY CryptoLaneAssumption
  <2>7. total(g, Proposals) = total(f, Proposals) + (g[p] - f[p]) /\ total(f, Proposals) \in Int
    BY <2>2, <2>3, <2>6, TotalChanged, TotalInt
  <2>8. prop[p].side \in { "buy", "sell" } /\ Lots >= 0
    BY <1>0 DEF Proposal, IInv, BookedWithinBroker
  <2>9. Lots' >= 0
    <3>1. CASE prop[p].side = "buy"
      BY <1>1, <1>3, <2>4, <2>5, <2>7, <2>8, <3>1
    <3>2. CASE prop[p].side = "sell"
      <4>1. Lots >= c - fills[p] /\ g[p] - f[p] = fills[p] - c
        BY <1>2, <2>4, <3>2 DEF c
      <4>2. QED
        BY <1>1, <2>5, <2>7, <4>1
    <3>3. QED
      BY <2>8, <3>1, <3>2
  <2>10. QED
    BY <2>1, <2>9 DEF BookedWithinBroker
<1>20. \A q \in Proposals \ { p } : (Finishing(q, Ended) => Finishing(q, Ended)') /\ (Partly(q) => Partly(q)')
  BY <1>12, <1>14 DEF Finishing, Partly, In, Alone
<1>21. EndsBooked'
  <2>1. s = "partially_filled" => order'[p].filled > 0
    BY <1>1, <1>3
  <2>2. s = "filled" => fills'[p] = order'[p].filled /\ order'[p].state = "filled"
    BY <1>7, <1>9, <1>12
  <2>3. QED
    BY <1>7, <1>10, <1>12, <1>20, <2>1, <2>2 DEF IInv, EndsBooked
<1>22. WithdrawsTo'
  BY <1>14 DEF IInv, WithdrawsTo, Alone, Withdrawing
<1>23. PartsBooked'
  <2>1. s = "partially_filled" => Partly(p)'
    <3>1. s = "partially_filled" => fills'[p] \in 1..Quantity - 1
      <4>1. s = "partially_filled" => c # Quantity
        BY <1>7
      <4>2. c \in 1..Quantity
        BY <1>0, <1>1, <1>3 DEF c
      <4>3. QED
        BY <1>0, <1>12, <4>1, <4>2
    <3>2. QED
      BY <3>1 DEF Partly
  <2>2. ASSUME crashes = 0, NEW q \in Proposals, intent'[q].state = "partially_filled" PROVE Partly(q)'
    <3>1. CASE q = p
      BY <1>10, <2>1, <2>2, <3>1
    <3>2. CASE q # p
      BY <1>10, <1>20, <2>2, <3>2 DEF IInv, PartsBooked
    <3>3. QED
      BY <3>1, <3>2
  <2>3. ASSUME crashes = 0, NEW b \in Actors, NEW q \in Proposals,
               In(b, Withdrawing, q)', at'[b].was = "partially_filled"
        PROVE  /\ intent'[q].state \in ACTIVE_INTENT_STATES => Partly(q)'
               /\ \A e \in Actors : In(e, { "answer" }, q)' => fills'[q] \in 1..Quantity - 1
               /\ \A e \in Actors : In(e, { "settle" }, q)' /\ at'[e].seen.filled = 0 => fills'[q] > 0
    <3>1. b # a /\ In(b, Withdrawing, q) /\ at[b].was = "partially_filled"
      BY <1>14, <2>3 DEF In, Alone, Withdrawing
    <3>2. ASSUME NEW e \in Actors, In(e, { "answer", "settle" }, q)' PROVE FALSE
      <4>1. e # a /\ e # b
        BY <1>14, <2>3, <3>2 DEF In, Withdrawing
      <4>2. QED
        BY <3>1, <4>1 DEF Actors
    <3>3. CASE q = p
      <4>1. intent'[q].state \in ACTIVE_INTENT_STATES => s = "partially_filled"
        BY <1>7, <1>10, <3>3 DEF ACTIVE_INTENT_STATES
      <4>2. QED
        BY <2>1, <3>2, <3>3, <4>1 DEF In
    <3>4. CASE q # p
      <4>1. intent[q].state \in ACTIVE_INTENT_STATES => Partly(q)
        BY <2>3, <3>1 DEF IInv, PartsBooked
      <4>2. QED
        BY <1>10, <1>20, <3>2, <3>4, <4>1 DEF In
    <3>5. QED
      BY <3>3, <3>4
  <2>4. QED
    BY <2>2, <2>3 DEF PartsBooked
<1>24. QED
  BY <1>15, <1>16, <1>17, <1>18, <1>19, <1>21, <1>22, <1>23 DEF IInv

\* What was seen is booked, or left to review.
LEMMA BookKeeps ==
  ASSUME IInv, NEW a \in Actors, NEW p \in Proposals, Book(a, p) PROVE IInv'
<1>0. TypeOK /\ faults \in 0..MaxFaults
  BY Types DEF IInv
<1>1. /\ at[a].pc = "book" /\ at[a].p = p
      /\ UNCHANGED << display, approval, order, late, faults, crashes >>
  BY DEF Book, At, outside
<1>2. CASE fill_accepted(a, p)
  BY <1>1, <1>2, FillBooked DEF Book
<1>3. CASE ~fill_accepted(a, p)
  <2>1. Goto(a, "unsure") /\ UNCHANGED << prop, intent, res, fills >>
    BY <1>3 DEF Book
  <2>2. at[a].pc \in OnIntent
    BY <1>1 DEF OnIntent, Settling
  <2>3. Carried(a)
    BY <1>0, <1>1, <2>1, GoMoves DEF Carried, Labels
  <2>4. QED
    BY <1>0, <1>1, <2>1, <2>2, <2>3, NothingWritten
<1>4. QED
  BY <1>2, <1>3

(***************************************************************************)
(* The broker.                                                             *)
(***************************************************************************)

\* A live order fills up or comes to its end.
LEMMA OrderMoves ==
  ASSUME IInv, NEW p \in Proposals, Live(p), NEW o \in Order, order' = [order EXCEPT ![p] = o],
         o.state \in { "open", "filled", "cancelled" }, o.filled >= order[p].filled,
         o.state = "filled" <=> o.filled = Quantity,
         UNCHANGED << prop, display, approval, ledger, late, at, faults, crashes >>
  PROVE  IInv'
<1>0. TypeOK /\ order \in [Proposals -> Order] /\ at \in [Actors -> Place]
      /\ fills \in [Proposals -> 0..Quantity] /\ res \in [Proposals -> Reservation] /\ Quantity \in Nat \ { 0 }
  BY Types, CryptoLaneAssumption DEF IInv
<1>1. UNCHANGED << prop, outbox, shown, approval, intent, res, fills, late, at, faults, crashes >>
  BY DEF display, ledger
<1>2. /\ order' \in [Proposals -> Order] /\ order'[p] = o
      /\ \A q \in Proposals \ { p } : order'[q] = order[q]
  BY <1>0
<1>3. /\ order[p].state \in { "flight", "open" } /\ InForce(p)
      /\ order[p].filled \in 0..Quantity /\ o.filled \in 0..Quantity
  BY <1>0 DEF IInv, OneEngaged, Engaged, Live, Order
<1>4. \A q \in Proposals : order[q].filled <= order'[q].filled
                            /\ order[q].filled \in 0..Quantity /\ order'[q].filled \in 0..Quantity
  BY <1>0, <1>2, <1>3 DEF Order
<1>5. \A b \in Actors : at[b].p \in Proposals
  BY <1>0, PlaceOf
<1>6. TypeOK'
  BY <1>0, <1>1, <1>2, Types, TypesNext
<1>7. RowsExist' /\ SendingInHand'
  BY <1>1 DEF IInv, RowsExist, SendingInHand, In
<1>8. OrdersAre'
  BY <1>1, <1>2, <1>3 DEF IInv, OrdersAre
<1>9. SubmissionHolds'
  <2>1. \A b \in Actors : order[at[b].p].state = "none" => order'[at[b].p] = order[at[b].p]
    BY <1>2, <1>3, <1>5
  <2>2. QED
    BY <1>1, <2>1 DEF IInv, SubmissionHolds, InForce
<1>10. OneEngaged'
  <2>1. \A q \in Proposals : (Live(q)' => Live(q)) /\ (Engaged(q)' => Engaged(q)) /\ (InForce(q)' <=> InForce(q))
    BY <1>1, <1>2 DEF Engaged, Live, In, InForce
  <2>2. \A q \in Proposals : Live(q)' => res'[q].units >= Quantity - order'[q].filled
    <3>1. SUFFICES ASSUME NEW q \in Proposals, Live(q)' PROVE res'[q].units >= Quantity - order'[q].filled
      OBVIOUS
    <3>2. res[q].units >= Quantity - order[q].filled /\ res[q].units \in 0..Quantity
      BY <1>0, <2>1, <3>1 DEF IInv, OneEngaged, Reservation
    <3>3. order[q].filled <= order'[q].filled
          /\ order[q].filled \in 0..Quantity /\ order'[q].filled \in 0..Quantity
      BY <1>4
    <3>4. QED
      BY <1>0, <1>1, <3>2, <3>3
  <2>3. QED
    BY <2>1, <2>2 DEF IInv, OneEngaged
<1>11. SeenIsPast'
  <2>1. SUFFICES ASSUME NEW b \in Actors, at[b].pc \in Settling
        PROVE  LET seen == at[b].seen w == order'[at[b].p] IN
               /\ w.state \notin { "none", "flight" }
               /\ seen.status # "none"
               /\ seen.filled <= w.filled
               /\ seen.status \in Ended => seen.status = w.state /\ seen.filled = w.filled
               /\ seen.status = "accepted" => seen.filled = 0
               /\ seen.status = "partially_filled" => seen.filled \in 1..Quantity - 1
               /\ at[b].pc = "book" => at[b].total < seen.filled
    BY <1>1 DEF SeenIsPast
  <2>2. CASE at[b].p = p
    <3>1. /\ at[b].seen.status # "none" /\ at[b].seen.filled <= order[p].filled
          /\ at[b].seen.status \notin Ended
          /\ at[b].seen.status = "accepted" => at[b].seen.filled = 0
          /\ at[b].seen.status = "partially_filled" => at[b].seen.filled \in 1..Quantity - 1
          /\ at[b].pc = "book" => at[b].total < at[b].seen.filled
      BY <1>3, <2>1, <2>2 DEF IInv, SeenIsPast, Ended
    <3>2. at[b].seen.filled \in 0..Quantity
      BY <1>0 DEF Place, Report
    <3>3. at[b].seen.filled <= o.filled
      BY <1>3, <3>1, <3>2
    <3>4. QED
      BY <1>2, <2>2, <3>1, <3>3
  <2>3. CASE at[b].p # p
    BY <1>2, <1>5, <2>1, <2>3 DEF IInv, SeenIsPast
  <2>4. QED
    BY <2>2, <2>3
<1>12. BookedWithinBroker'
  BY <1>0, <1>1, <1>2, <1>4, BooksStay
<1>13. EndsBooked'
  <2>1. \A q \in Proposals : Finishing(q, Ended)' <=> Finishing(q, Ended)
    BY <1>1 DEF Finishing, In
  <2>2. intent[p].state \notin TERMINAL_INTENT_STATES /\ intent[p].state # "filled"
    BY <1>3 DEF InForce, TERMINAL_INTENT_STATES, ACTIVE_INTENT_STATES, AMBIGUOUS_INTENT_STATES
  <2>3. \A q \in Proposals : order[q].filled > 0 => order'[q].filled > 0
    BY <1>4
  <2>4. QED
    BY <1>1, <1>2, <2>1, <2>2, <2>3 DEF IInv, EndsBooked
<1>14. WithdrawsTo'
  <2>1. \A b \in Actors : order[at[b].p].filled > 0 => order'[at[b].p].filled > 0
    BY <1>4, <1>5
  <2>2. QED
    BY <1>1, <2>1 DEF IInv, WithdrawsTo
<1>15. PartsBooked'
  <2>1. \A q \in Proposals : Partly(q)' <=> Partly(q)
    BY <1>1 DEF Partly, In
  <2>2. QED
    BY <1>1, <2>1 DEF IInv, PartsBooked, In
<1>16. QED
  BY <1>6, <1>7, <1>8, <1>9, <1>10, <1>11, <1>12, <1>13, <1>14, <1>15 DEF IInv

\* Whatever the broker does with an order, it does with a live one.
LEMMA BrokerKeeps == ASSUME IInv, Broker PROVE IInv'
<1>1. PICK p \in Proposals : Arrive(p) \/ Fill(p) \/ BrokerCancels(p)
  BY DEF Broker
<1>2. UNCHANGED << prop, display, approval, ledger, late, at, faults, crashes >>
  BY DEF Broker
<1>3. /\ order \in [Proposals -> Order] /\ order[p] \in Order /\ order[p].filled \in 0..Quantity
      /\ Quantity \in Nat \ { 0 }
  BY Types, CryptoLaneAssumption DEF IInv, Order
<1>4. /\ order[p].state \in { "none", "flight", "rejected" } => order[p].filled = 0
      /\ order[p].state = "filled" <=> order[p].filled = Quantity
  BY DEF IInv, OrdersAre
<1>5. ASSUME NEW t \in { "open", "cancelled" }, order[p].state \in { "flight", "open" },
             order' = [order EXCEPT ![p].state = t]
      PROVE  IInv'
  <2> DEFINE o == [order[p] EXCEPT !.state = t]
  <2>1. order' = [order EXCEPT ![p] = o]
    BY <1>5
  <2>2. o \in Order /\ o.state = t /\ o.filled = order[p].filled
    BY <1>3, <1>5 DEF Order, Ended
  <2> HIDE DEF o
  <2>3. o.filled # Quantity
    BY <1>4, <1>5, <2>2
  <2>4. Live(p) /\ o.filled >= order[p].filled
    BY <1>3, <1>5, <2>2 DEF Live
  <2>5. QED
    BY <1>2, <1>5, <2>1, <2>2, <2>3, <2>4, OrderMoves
<1>6. CASE Arrive(p)
  BY <1>5, <1>6 DEF Arrive
<1>7. CASE BrokerCancels(p)
  BY <1>5, <1>7 DEF BrokerCancels
<1>8. CASE Fill(p)
  <2> DEFINE n == order[p].filled + 1
             o == [state |-> IF n = Quantity THEN "filled" ELSE "open", filled |-> n]
  <2>1. order[p].state = "open" /\ order' = [order EXCEPT ![p] = o]
    BY <1>8 DEF Fill
  <2>2. n \in 0..Quantity /\ n >= order[p].filled
    BY <1>3, <1>4, <2>1
  <2>3. /\ o \in Order /\ o.filled = n /\ o.state \in { "open", "filled" }
        /\ o.state = "filled" <=> n = Quantity
    BY <2>2 DEF Order, Ended
  <2> HIDE DEF o, n
  <2>4. Live(p)
    BY <2>1 DEF Live
  <2>5. QED
    BY <1>2, <2>1, <2>2, <2>3, <2>4, OrderMoves
<1>9. QED
  BY <1>1, <1>6, <1>7, <1>8

(***************************************************************************)
(* The theorems.                                                           *)
(***************************************************************************)

\* Before anything has happened.
LEMMA InitHolds == Init => IInv
<1>1. SUFFICES ASSUME Init PROVE IInv
  OBVIOUS
<1>2. Quantity \in Nat \ { 0 } /\ MaxFaults \in Nat /\ IsFiniteSet(Proposals)
  BY CryptoLaneAssumption
<1>3. Idle \in Place /\ Idle.pc = "idle"
  BY IdleTyped
<1>4. TypeOK
  <2>1. /\ prop \in [Proposals -> Proposal] /\ late \in [Proposals -> BOOLEAN] /\ shown \in [Proposals -> BOOLEAN]
        /\ outbox \in [Proposals -> { "none", "queued", "sending", "sent", "failed" }]
        /\ approval \in [Proposals -> { "none", "active", "consumed", "expired" }]
    BY <1>1 DEF Init, Proposal
  <2>2. /\ intent \in [Proposals -> Intent] /\ res \in [Proposals -> Reservation]
        /\ order \in [Proposals -> Order]
    BY <1>1, <1>2 DEF Init, NoIntent, Intent, Reservation, Order
  <2>3. at \in [Actors -> Place]
    BY <1>1, <1>3 DEF Init
  <2>4. fills \in [Proposals -> 0..Quantity] /\ faults \in 0..MaxFaults /\ crashes \in 0..MaxFaults
    BY <1>1, <1>2 DEF Init
  <2>5. QED
    BY <2>1, <2>2, <2>3, <2>4, Types
<1>5. \A a \in Actors : at[a].pc = "idle"
  BY <1>1, <1>3 DEF Init
<1>6. \A p \in Proposals : /\ approval[p] = "none" /\ outbox[p] = "none" /\ fills[p] = 0
                           /\ intent[p].state = "none" /\ intent[p].invoked = FALSE
                           /\ order[p].state = "none" /\ order[p].filled = 0
                           /\ prop[p].side = "buy"
  BY <1>1 DEF Init, NoIntent
<1>7. RowsExist /\ SendingInHand /\ WithdrawsTo
  BY <1>5, <1>6 DEF RowsExist, SendingInHand, WithdrawsTo, OnIntent, Executing, Withdrawing, Settling
<1>8. OrdersAre /\ OneEngaged
  BY <1>2, <1>5, <1>6 DEF OrdersAre, OneEngaged, Engaged, Live, In
<1>9. SubmissionHolds /\ SeenIsPast
  BY <1>5 DEF SubmissionHolds, SeenIsPast, Executing, Settling
<1>10. BookedWithinBroker
  <2> DEFINE f == [p \in Proposals |-> signed(p, fills[p])]
  <2>1. \A p \in Proposals : f[p] = 0
    BY <1>6 DEF signed
  <2>2. Lots = total(f, Proposals)
    BY SummedIsTotal DEF Lots
  <2> HIDE DEF f
  <2>3. Lots = 0
    BY <1>2, <2>1, <2>2, TotalZero
  <2>4. QED
    BY <1>6, <2>3 DEF BookedWithinBroker
<1>11. EndsBooked /\ PartsBooked
  BY <1>5, <1>6 DEF EndsBooked, PartsBooked, In, Withdrawing, TERMINAL_INTENT_STATES
<1>12. QED
  BY <1>4, <1>7, <1>8, <1>9, <1>10, <1>11 DEF IInv

\* Nothing happens.
LEMMA StutterKeeps == ASSUME IInv, UNCHANGED vars PROVE IInv'
<1>1. UNCHANGED << prop, late, outbox, shown, approval, intent, res, fills, order, at, faults, crashes >>
  BY DEF vars
<1>2. TypeOK'
  BY <1>1 DEF IInv, TypeOK
<1>3. RowsExist' /\ SendingInHand' /\ WithdrawsTo'
  BY <1>1 DEF IInv, RowsExist, SendingInHand, WithdrawsTo, In
<1>4. OrdersAre' /\ SubmissionHolds'
  BY <1>1 DEF IInv, OrdersAre, SubmissionHolds, InForce
<1>5. OneEngaged' /\ SeenIsPast'
  BY <1>1 DEF IInv, OneEngaged, Engaged, Live, SeenIsPast, In, InForce
<1>6. EndsBooked' /\ PartsBooked'
  BY <1>1 DEF IInv, EndsBooked, Finishing, PartsBooked, Partly, In
<1>7. BookedWithinBroker'
  <2>1. \A q \in Proposals : order[q] \in Order /\ order[q].filled <= order'[q].filled
    BY <1>1, Types DEF IInv, Order
  <2>2. QED
    BY <1>1, <2>1, BooksStay
<1>8. QED
  BY <1>2, <1>3, <1>4, <1>5, <1>6, <1>7 DEF IInv

\* Every step of either process, of the broker and of the clock.
LEMMA NextKeeps == IInv /\ [Next]_vars => IInv'
<1>1. SUFFICES ASSUME IInv, [Next]_vars PROVE IInv'
  OBVIOUS
<1>2. ASSUME NEW p \in Proposals, CreateProposal(p) \/ Approve(p) \/ Reject(p) \/ Expires(p) PROVE IInv'
  BY <1>1, <1>2, CreateProposalKeeps, ApproveKeeps, RejectKeeps, ExpiresKeeps
<1>3. ASSUME NEW a \in Actors, NEW p \in Proposals, Execute(a, p) PROVE IInv'
  BY <1>1, <1>3, AuthorizeKeeps, CreateIntentKeeps, ReloadKeeps, ClaimKeeps, SubmitKeeps, AnswerKeeps DEF Execute
<1>4. ASSUME NEW a \in Actors, NEW p \in Proposals, Recover(a, p) PROVE IInv'
  BY <1>1, <1>4, CancelIntentKeeps, CancelCallKeeps, CancelWithdrawnKeeps, LookupKeeps, UnsureKeeps,
     SettleKeeps, TotalsKeeps, BookKeeps DEF Recover
<1>5. ASSUME NEW a \in Actors, NEW p \in Proposals, Deliver(a, p) \/ Sweep(a, p) PROVE IInv'
  BY <1>1, <1>5, DeliverKeeps, SweepKeeps
<1>6. ASSUME NEW a \in Actors, RecoverOutbox(a) \/ ExpirePending(a) \/ Crash(a) PROVE IInv'
  BY <1>1, <1>6, RecoverOutboxKeeps, ExpirePendingKeeps, CrashKeeps
<1>7. CASE Broker
  BY <1>1, <1>7, BrokerKeeps
<1>8. CASE UNCHANGED vars
  BY <1>1, <1>8, StutterKeeps
<1>9. QED
  BY <1>1, <1>2, <1>3, <1>4, <1>5, <1>6, <1>7, <1>8 DEF Next

\* The inductive invariant holds in every state of the lane.
THEOREM IInvHolds == Spec => []IInv
BY InitHolds, NextKeeps, PTL DEF Spec

\* Every variable keeps its type: a reservation and a booked fill stay within
\* what was requested, and a process is at a known place.
THEOREM LaneIsTyped == Spec => []TypeOK
<1>1. IInv => TypeOK
  BY DEF IInv
<1>2. QED
  BY <1>1, IInvHolds, PTL

\* An order that can still trade keeps a reservation for what is left of it:
\* no sweep, stale answer, withdrawal or crash takes it away.
THEOREM OrdersAreReserved == Spec => []LiveOrderIsReserved
<1>1. IInv => LiveOrderIsReserved
  BY DEF IInv, OneEngaged, Engaged, Live, InForce, LiveOrderIsReserved
<1>2. QED
  BY <1>1, IInvHolds, PTL

\* At most one order of the symbol can trade at a time, although two intents
\* may hold reservations and both processes may execute.
THEOREM OneOrderLives == Spec => []OneLiveOrder
<1>1. IInv => OneLiveOrder
  BY DEF IInv, OneEngaged, Engaged, Live, OneLiveOrder
<1>2. QED
  BY <1>1, IInvHolds, PTL

\* No reconciliation books more than the broker has filled, nor sells lots
\* that are not there.
THEOREM BooksWithinBroker == Spec => []BookedWithinBroker
<1>1. IInv => BookedWithinBroker
  BY DEF IInv
<1>2. QED
  BY <1>1, IInvHolds, PTL

\* When both processes are at rest and none has crashed, an intent recorded as
\* ended has booked all that the broker filled.
THEOREM EndsAreBooked == Spec => []EndedIntentIsBooked
<1>1. IInv => EndedIntentIsBooked
  BY DEF IInv, EndsBooked, Finishing, In, EndedIntentIsBooked, Rest, At
<1>2. QED
  BY <1>1, IInvHolds, PTL

\* What the report always finds in order when both processes are at rest.
LEMMA RestIsClean ==
  ASSUME IInv, Rest, NEW p \in Proposals
  PROVE  /\ approval[p] # "none" => prop[p].status # "none"
         /\ intent[p].state # "none" => res[p].state # "none"
         /\ outbox[p] # "sending"
         /\ fills[p] <= Quantity
         /\ intent[p].state = "filled" => fills[p] = Quantity
         /\ intent[p].state = "partially_filled" => fills[p] \in 1..Quantity - 1
         /\ Lots >= 0
<1>1. crashes = 0 /\ \A a \in Actors : at[a].pc = "idle"
  BY DEF Rest, At
<1>2. fills[p] \in 0..Quantity /\ Quantity \in Nat
  BY Types, CryptoLaneAssumption DEF IInv
<1>3. intent[p].state \in TERMINAL_INTENT_STATES => fills[p] = order[p].filled
  BY <1>1 DEF IInv, EndsBooked, Finishing, In
<1>4. intent[p].state = "filled" => fills[p] = Quantity
  BY <1>3 DEF IInv, EndsBooked, OrdersAre, TERMINAL_INTENT_STATES
<1>5. intent[p].state = "partially_filled" => fills[p] \in 1..Quantity - 1
  BY <1>1 DEF IInv, PartsBooked, Partly, In
<1>6. outbox[p] # "sending"
  BY <1>1 DEF IInv, SendingInHand, In
<1>7. QED
  BY <1>2, <1>4, <1>5, <1>6 DEF IInv, RowsExist, BookedWithinBroker

\* While neither process is at work and none has crashed, the integrity report
\* finds nothing but what waits for a review or for its expiry, and what comes
\* of two writers of an intent that overtake each other.
THEOREM ReportIsClean == Spec => []IntegrityHolds
<1>1. ASSUME IInv, Rest, NEW p \in Proposals,
             NEW c \in DOMAIN row_checks(p), c \notin Waiting \cup Overtaken
      PROVE  row_checks(p)[c]
  <2>1. c \in { "orphan_approvals", "intents_without_reservation", "telegram_outbox_ambiguous_sending" }
    BY <1>1 DEF row_checks, Waiting, Overtaken
  <2>2. CASE c = "orphan_approvals"
    BY <1>1, <2>2, RestIsClean DEF row_checks
  <2>3. CASE c = "intents_without_reservation"
    BY <1>1, <2>3, RestIsClean DEF row_checks
  <2>4. CASE c = "telegram_outbox_ambiguous_sending"
    BY <1>1, <2>4, RestIsClean DEF row_checks
  <2>5. QED
    BY <2>1, <2>2, <2>3, <2>4
<1>2. ASSUME IInv, Rest, NEW p \in Proposals, NEW c \in DOMAIN quantity_checks(p)
      PROVE  quantity_checks(p)[c]
  <2>1. c \in { "fills_exceed_quantity", "filled_quantity_state_mismatch",
                "partial_quantity_state_mismatch", "lot_quantity_invalid" }
    BY <1>2 DEF quantity_checks
  <2>2. CASE c = "fills_exceed_quantity"
    BY <1>2, <2>2, RestIsClean DEF quantity_checks
  <2>3. CASE c = "filled_quantity_state_mismatch"
    BY <1>2, <2>3, RestIsClean DEF quantity_checks
  <2>4. CASE c = "partial_quantity_state_mismatch"
    BY <1>2, <2>4, RestIsClean DEF quantity_checks
  <2>5. CASE c = "lot_quantity_invalid"
    BY <1>2, <2>5, RestIsClean DEF quantity_checks
  <2>6. QED
    BY <2>1, <2>2, <2>3, <2>4, <2>5
<1>3. IInv => IntegrityHolds
  <2>1. SUFFICES ASSUME IInv, Rest, NEW c \in integrity_report, c \notin Waiting \cup Overtaken PROVE FALSE
    BY DEF IntegrityHolds
  <2>2. PICK p \in Proposals :
          \/ c \in DOMAIN row_checks(p) /\ ~row_checks(p)[c]
          \/ c \in DOMAIN quantity_checks(p) /\ ~quantity_checks(p)[c]
    BY <2>1 DEF integrity_report
  <2>3. QED
    BY <1>1, <1>2, <2>1, <2>2
<1>4. QED
  BY <1>3, IInvHolds, PTL
=============================================================================
