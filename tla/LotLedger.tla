------------------------------ MODULE LotLedger ------------------------------
(***************************************************************************)
(* The FIFO lots of one symbol (app/lot_ledger.py).  A lot has the time it *)
(* was opened, where it comes from, the lifecycle it belongs to, its       *)
(* quantity and what is left of it, and of its buying fee the part that    *)
(* sells have taken over.  Quantities and fees are whole numbers; a share  *)
(* of a fee is rounded down, as a decimal quotient is cut at its precision.*)
(***************************************************************************)
EXTENDS Integers, Sequences, FiniteSets, FiniteSetsExt

Earlier(lots, j, k) ==
  \/ lots[j].at < lots[k].at
  \/ lots[j].at = lots[k].at /\ j < k

OpenLots(lots) == { k \in DOMAIN lots : lots[k].rem > 0 }

Quantity(lots, S) == MapThenSumSet(LAMBDA k : lots[k].rem, S)

ExternalLots(lots) == { k \in OpenLots(lots) : lots[k].ext }

LocalLots(lots) == { k \in OpenLots(lots) : ~ lots[k].ext }

\* Mutant: every lot is asked for the whole sell.
taken_whole(lots, S, q, k) == IF k \in S THEN q ELSE 0

\* What a sell of q takes from lot k when the lots S stand in line.
taken(lots, S, q, k) ==
  LET before == Quantity(lots, { j \in S : Earlier(lots, j, k) })
  IN IF k \in S THEN Max({ 0, Min({ lots[k].rem, q - before }) }) ELSE 0

\* Rows of which nothing is left, neither quantity nor fee, say no more.
settled(lots) == SelectSeq(lots, LAMBDA lot : lot.rem # 0 \/ lot.paid # lot.fee)

\* A buy opens a lot; its fee is what the fill carries.
bought(lots, lot) == Append(lots, lot)

\* Mutant: the last sell of a lot takes its share of the fee as well.
buy_fee_proportional(lot, q) ==
  Min({ lot.fee - lot.paid, (lot.fee * q) \div lot.orig })

\* The last sell of a lot takes what the earlier ones left of the fee.
buy_fee(lot, q) ==
  IF q = lot.rem THEN lot.fee - lot.paid
  ELSE Min({ lot.fee - lot.paid, (lot.fee * q) \div lot.orig })

\* FIFO over every open lot of the symbol, whatever its lifecycle.
sold(lots, q) ==
  LET t(k) == taken(lots, OpenLots(lots), q, k)
  IN [k \in DOMAIN lots |->
        IF t(k) = 0 THEN lots[k]
        ELSE [lots[k] EXCEPT !.rem = @ - t(k), !.paid = @ + buy_fee(lots[k], t(k))]]

\* A sell of more than the open lots hold has no full basis: its profit stays
\* unknown, and so does the sum of all profits.
fully_based(lots, q) == Quantity(lots, OpenLots(lots)) >= q

\* Shares that left by another way come off the outside lots alone.
reduced(lots, q) ==
  [k \in DOMAIN lots |->
     [lots[k] EXCEPT !.rem = @ - taken(lots, ExternalLots(lots), q, k)]]
=============================================================================
