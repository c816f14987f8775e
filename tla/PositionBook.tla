---------------------------- MODULE PositionBook ----------------------------
(***************************************************************************)
(* One symbol as the store sees it beside what the broker holds: orders    *)
(* and their fills (a fill is booked with its lots and its take-profit     *)
(* milestone in one transaction of record_fill), the lifecycles that the   *)
(* reconciler opens and closes from a snapshot of positions it took        *)
(* before, and the lots it adds for shares that came from outside.         *)
(* app/position_lifecycle.py, app/profit_milestones.py.                    *)
(***************************************************************************)
EXTENDS LotLedger

CONSTANTS
  Orders,
  KindOf,       \* "entry" buys; "take_profit" and "exit" sell
  QtyOf,        \* shares of an entry
  Fee,          \* buying fee of a fill
  MaxTrades,    \* bounds what the operator trades at the broker directly
  MaxLives      \* bounds lifecycles

ASSUME KindAssumption == KindOf \in [Orders -> { "entry", "take_profit", "exit" }]
ASSUME BoundsAssumption ==
  QtyOf \in [Orders -> Nat \ {0}] /\ Fee \in Nat /\ MaxTrades \in Nat /\ MaxLives \in Nat

VARIABLES
  held,     \* what the broker holds
  trades,   \* outside trades so far
  now,      \* counts closings and outside lots: the times that are compared
  order,    \* order_intents with what the broker filled
  lots,     \* position_lots
  lives,    \* position_lifecycles, oldest first
  ms,       \* take_profit_milestones of level 1, by lifecycle
  snap,     \* the positions the reconciler has read, -1 before
  seen,     \* what the orders had filled when they were read
  clean     \* the store could tell its own shares from the operator's so far:
            \* a snapshot was used when the fills it shows were booked, a sell
            \* was booked against lots that were there, and the operator sold
            \* no share of the store's orders

vars == << held, trades, now, order, lots, lives, ms, snap, seen, clean >>

Buys == { i \in Orders : KindOf[i] = "entry" }
Sells == Orders \ Buys

Qtys == 0..(MapThenSumSet(LAMBDA i : QtyOf[i], Buys) + MaxTrades)
LifeIds == 0..MaxLives

TypeOK ==
  /\ held \in Qtys /\ trades \in 0..MaxTrades /\ now \in Nat
  /\ order \in [Orders -> [state : { "none", "open", "filled", "cancelled" },
                           qty : Qtys, remote : Qtys, booked : Qtys,
                           life : LifeIds, created : Nat, at : Nat]]
  /\ lots \in Seq([at : Nat, ext : BOOLEAN, life : LifeIds, orig : Qtys \ {0},
                   rem : Qtys, fee : Nat, paid : Nat])
  /\ lives \in Seq([state : { "active", "closed" }, closed : Nat,
                    opening : Qtys, frozen : BOOLEAN, ext : BOOLEAN])
  /\ ms \in [1..MaxLives -> [target : Qtys, filled : Qtys]]
  /\ seen \in Int /\ clean \in BOOLEAN
  /\ snap \in Qtys \cup {-1}

Init ==
  /\ held = 0 /\ trades = 0 /\ now = 0
  /\ order = [i \in Orders |-> [state |-> "none", qty |-> 0, remote |-> 0,
                                booked |-> 0, life |-> 0, created |-> 0, at |-> 0]]
  /\ lots = << >> /\ lives = << >>
  /\ ms = [l \in 1..MaxLives |-> [target |-> 0, filled |-> 0]]
  /\ clean = TRUE /\ snap = -1 /\ seen = 0

ActiveLife == IF \E l \in DOMAIN lives : lives[l].state = "active"
              THEN CHOOSE l \in DOMAIN lives : lives[l].state = "active" ELSE 0

\* The time the last lifecycle was closed, -1 when none was.
boundary(ls) ==
  Max({ -1 } \cup { ls[l].closed : l \in { k \in DOMAIN ls : ls[k].state = "closed" } })

(***************************************************************************)
(* Orders and the broker.                                                  *)
(***************************************************************************)

\* Mutant: what was filled before is not taken off the target.
remaining_unfilled(m) == m.target

\* max(0, target - filled)
remaining(m) == Max({ 0, m.target - m.filled })

\* bind_take_profit_intent: the first one sets the target of the level.
binds(l, q) == ms[l].target = 0 \/ (ms[l].filled < ms[l].target /\ q <= remaining(ms[l]))

Total(f(_), S) == MapThenSumSet(f, S)

\* What the orders of the store have added to the position, as the broker and
\* as the store count it.
FilledQty == Total(LAMBDA i : order[i].remote, Buys) - Total(LAMBDA i : order[i].remote, Sells)
BookedQty == Total(LAMBDA i : order[i].booked, Buys) - Total(LAMBDA i : order[i].booked, Sells)

Open(S) == { i \in S : order[i].state = "open" }

\* create_intent, after the last look at the position.
CreateBuy(i) ==
  /\ i \in Buys /\ order[i].state = "none"
  /\ held = 0 /\ Open(Buys) = {}
  /\ order' = [order EXCEPT ![i].state = "open", ![i].qty = QtyOf[i],
                            ![i].created = now]
  /\ UNCHANGED << held, trades, now, lots, lives, ms, snap, seen, clean >>

CreateSell(i, q) ==
  /\ i \in Sells /\ order[i].state = "none"
  /\ q \in 1..held /\ Open(Sells) = {} /\ ActiveLife # 0
  /\ IF KindOf[i] = "take_profit"
       THEN /\ binds(ActiveLife, q)
            /\ ms' = [ms EXCEPT ![ActiveLife].target = IF @ = 0 THEN q ELSE @]
       ELSE UNCHANGED ms
  /\ order' = [order EXCEPT ![i].state = "open", ![i].qty = q, ![i].life = ActiveLife]
  /\ UNCHANGED << held, trades, now, lots, lives, snap, seen, clean >>

Fill(i) ==
  /\ order[i].state = "open" /\ order[i].remote < order[i].qty
  /\ i \in Sells => held > 0
  /\ held' = held + (IF i \in Buys THEN 1 ELSE -1)
  /\ order' = [order EXCEPT ![i].remote = @ + 1, ![i].at = IF i \in Buys THEN now ELSE 0]
  /\ UNCHANGED << trades, now, lots, lives, ms, snap, seen, clean >>

\* The order ends at the broker and the store learns it, its fills first;
\* the milestone keeps its quantity.
Finish(i) ==
  /\ order[i].state = "open" /\ order[i].booked = order[i].remote
  /\ order' = [order EXCEPT ![i].state =
                 IF order[i].remote = order[i].qty THEN "filled" ELSE "cancelled"]
  /\ UNCHANGED << held, trades, now, lots, lives, ms, snap, seen, clean >>

\* Filled and not booked.
Unbooked(S) == Total(LAMBDA i : order[i].remote - order[i].booked, S)

\* The shares the store answers for: the open lots of its own orders, and what
\* they have bought since.
own_shares == Quantity(lots, LocalLots(lots)) + Unbooked(Buys)

\* No open lot stands for shares that have already gone.
lots_are_there == Quantity(lots, OpenLots(lots)) + Unbooked(Buys) <= held + Unbooked(Sells)

\* The operator buys or sells the same symbol at the broker.
Trade(d) ==
  /\ trades < MaxTrades /\ held + d >= 0
  /\ trades' = trades + 1 /\ held' = held + d
  /\ clean' = (clean /\ (d = -1 => held > own_shares))
  /\ UNCHANGED << now, order, lots, lives, ms, snap, seen >>

(***************************************************************************)
(* record_fill: the new cumulative quantity with its effects.              *)
(***************************************************************************)

\* Mutant: the milestone is advanced by the cumulative quantity.
milestone_filled_cumulative(m, i) ==
  Min({ m.target, m.filled + order[i].remote })

\* apply_take_profit_fill: by the delta of this fill.
milestone_filled(m, i) ==
  Min({ m.target, m.filled + order[i].remote - order[i].booked })

MilestoneOf(i) == IF KindOf[i] = "take_profit" THEN order[i].life ELSE 0

BookFill(i) ==
  LET q == order[i].remote - order[i].booked
      m == MilestoneOf(i)
  IN /\ q > 0
     /\ order' = [order EXCEPT ![i].booked = order[i].remote, ![i].at = 0]
     /\ IF i \in Buys
          THEN /\ lots' = bought(lots, [at |-> 2 * order[i].at, ext |-> FALSE,
                                        life |-> order[i].life, orig |-> q,
                                        rem |-> q, fee |-> Fee, paid |-> 0])
               /\ UNCHANGED << ms, clean >>
          ELSE /\ lots' = settled(sold(lots, q))
               /\ clean' = (clean /\ fully_based(lots, q) /\ lots_are_there)
               /\ IF m = 0 THEN UNCHANGED ms
                  ELSE ms' = [ms EXCEPT ![m].filled = milestone_filled(ms[m], i)]
     /\ UNCHANGED << held, trades, now, lives, snap, seen >>

(***************************************************************************)
(* The reconciler: positions are read, and then everything below is one    *)
(* transaction.                                                            *)
(***************************************************************************)
ReadPositions ==
  /\ snap' = held /\ seen' = IF clean THEN FilledQty ELSE 0
  /\ UNCHANGED << held, trades, now, order, lots, lives, ms, clean >>

Closed(ls, l) ==
  [ls EXCEPT ![l].state = "closed", ![l].closed = now]

Opened(ls, q) ==
  Append(ls, [state |-> "active", closed |-> 0, opening |-> q,
              frozen |-> FALSE, ext |-> FALSE])

\* bind_filled_entry_intents: filled entries made after the last closing.
bound(l, ls) ==
  [i \in Orders |->
     IF i \in Buys /\ order[i].life = 0 /\ order[i].booked > 0
          /\ order[i].created > boundary(ls)
       THEN [order[i] EXCEPT !.life = l] ELSE order[i]]

\* refresh_opening_quantity: it grows with the fills of the first entry of the
\* lifecycle and is frozen when that order has ended.
refreshed(life, l, os) ==
  LET E == { i \in Buys : os[i].life = l /\ os[i].booked > 0 }
      e == CHOOSE i \in E : \A j \in E : os[i].created <= os[j].created
  IN IF E = {} \/ life.frozen THEN life
     ELSE [life EXCEPT !.opening = Max({ @, os[e].booked }),
                       !.frozen = os[e].state \in { "filled", "cancelled" }]

\* Lots without a lifecycle join the one that is opened now.
joined(ls, l) ==
  [k \in DOMAIN lots |->
     IF lots[k].life = 0 /\ lots[k].at > 2 * boundary(ls)
       THEN [lots[k] EXCEPT !.life = l] ELSE lots[k]]

local_entry(l, os) == \E i \in Buys : os[i].life = l /\ os[i].booked > 0

\* Mutant: lots of the own orders count as shares from outside too.
target_external_all(q, local) == q

target_external(q, local) == Max({ 0, q - local })

\* Open lots of own orders without a bound entry are not touched, nor is an
\* entry without any lot.
ambiguous(L, l, os, q) ==
  LET local == Quantity(L, LocalLots(L))
  IN \/ ~ local_entry(l, os) /\ local > 0
     \/ local_entry(l, os) /\ OpenLots(L) = {} /\ q > 0

\* _absorb_external_equities_in_transaction
absorbed(L, l, os, q) ==
  LET external == Quantity(L, ExternalLots(L))
      target == target_external(q, Quantity(L, LocalLots(L)))
  IN CASE (q = 0 /\ external = 0) \/ ambiguous(L, l, os, q) -> L
       [] target < external -> reduced(L, external - target)
       [] target > external /\ l # 0 ->
            bought(L, [at |-> 2 * now + 1, ext |-> TRUE, life |-> l,
                       orig |-> target - external, rem |-> target - external,
                       fee |-> 0, paid |-> 0])
       [] OTHER -> L

Reconcile ==
  /\ snap # -1
  /\ LET a == ActiveLife
         closes == a # 0 /\ snap = 0
         opens == a = 0 /\ snap > 0
         ls == IF closes THEN Closed(lives, a) ELSE IF opens THEN Opened(lives, snap) ELSE lives
         l == IF closes THEN 0 ELSE IF opens THEN Len(ls) ELSE a
         os == IF l = 0 \/ snap = 0 THEN order ELSE bound(l, ls)
         L == IF opens THEN joined(ls, l) ELSE lots
     IN /\ opens => Len(lives) < MaxLives
        /\ order' = os
        /\ lots' = settled(absorbed(L, l, os, snap))
        /\ lives' = IF l = 0 THEN ls
                    ELSE [ls EXCEPT ![l] =
                            [refreshed(@, l, os) EXCEPT !.ext =
                               @ \/ (~ local_entry(l, os)
                                       /\ ~ ambiguous(L, l, os, snap))]]
        /\ now' = IF closes \/ lots' # lots THEN now + 1 ELSE now
  /\ snap' = -1 /\ seen' = 0
  /\ clean' = (clean /\ seen = BookedQty)
  /\ UNCHANGED << held, trades, ms >>

Next ==
  \/ \E i \in Orders :
       \/ CreateBuy(i) \/ Fill(i) \/ Finish(i) \/ BookFill(i)
       \/ \E q \in Qtys : CreateSell(i, q)
  \/ \E d \in { -1, 1 } : Trade(d)
  \/ ReadPositions \/ Reconcile

Spec == Init /\ [][Next]_vars

(***************************************************************************)
(* Properties                                                              *)
(***************************************************************************)

\* A lot that has been sold has passed on its whole buying fee, in however many
\* sells, so realized profit is neither too high nor too low by a rest of it.
FeesFullyAllocated ==
  \A k \in DOMAIN lots :
    /\ lots[k].paid <= lots[k].fee
    /\ lots[k].rem = 0 => lots[k].paid = lots[k].fee

\* However a level is sold, by one order or by several that end early, the
\* sells of one lifecycle take no more than the target it was opened with.
TakeProfitWithinTarget ==
  \A l \in 1..MaxLives :
    Total(LAMBDA i : order[i].booked, { i \in Sells : MilestoneOf(i) = l })
      = ms[l].filled

\* Nothing is under way, and another look at the broker would change nothing.
Settled ==
  LET l == ActiveLife
  IN /\ \A i \in Orders : order[i].state # "open"
     /\ (l # 0) = (held > 0)
     /\ l # 0 => bound(l, lives) = order
     /\ absorbed(lots, l, order, held) = lots

\* The open lots come to what the broker holds, with the shares bought outside
\* counted once and never twice, unless the reconciler has refused the symbol
\* or could not tell whose shares it saw (clean).
BooksFollowBroker ==
  clean /\ Settled
      /\ ~ ambiguous(lots, ActiveLife, order, held)
    => Quantity(lots, OpenLots(lots)) = held
=============================================================================
