-------------------------- MODULE MarketScanProofs --------------------------
(***************************************************************************)
(* Theorems about MarketScan, for every set of symbols, every bound and    *)
(* every portfolio: the type invariant, that open sell orders stay within  *)
(* the holding, that one entry of a symbol waits at a time, that every     *)
(* waiting proposal can be answered, that a buy yields to the exits that   *)
(* were there before it, and that a blocker ends with its exits.           *)
(*                                                                         *)
(* The inductive invariant says what a scan and an executing process may   *)
(* rely on although others move in between: an executing proposal belongs  *)
(* to its actor alone, an intent holds its slot until its order has ended, *)
(* what the last look at the context found still holds when the order      *)
(* leaves, a candidate entry has no pending rival, and a proposal that     *)
(* nobody was shown is in the hands of the scan.                           *)
(***************************************************************************)
EXTENDS MarketScan, SetTheorems

\* An order is of a row that was written; an open one has something left.  What
\* waits has no open order and asks for something.
OrderSound ==
  \A i \in Ids : /\ proposals[i].order # "none" => proposals[i].status # "none"
                 /\ Live(i) => proposals[i].left >= 1
                 /\ Pending(i) => /\ proposals[i].order \in { "none", "reserved" }
                                  /\ proposals[i].qty >= 1

\* One active order of a symbol and side, and a sale within the holding.
SlotExclusive ==
  \A i, j \in Ids :
    /\ Active(i) /\ Active(j)
    /\ proposals[i].sym = proposals[j].sym /\ proposals[i].side = proposals[j].side
    => i = j

SellCovered ==
  \A i \in Ids : Live(i) /\ proposals[i].side = "sell" =>
    proposals[i].left <= held[proposals[i].sym]

\* The proposal an actor executes has no order yet, or an intent from the
\* actor's own hand, and is nobody else's: the listener's was approved, the
\* scanner's is its own in autonomous mode.
Reserved(a) == exec[a].step \in { "verify", "submit" }

Executing(a) ==
  LET q == proposals[exec[a].id] IN
  /\ exec[a].id \in Ids /\ q.qty >= 1
  /\ q.order = IF Reserved(a) THEN "reserved" ELSE "none"
  /\ Reserved(a) => q.left = q.qty
  /\ a = "listener" => q.status = "approved" /\ (mode = "autonomous" => q.side = "sell")
  /\ a = "scanner" => /\ q.status = "pending" /\ q.surface = "self"
                      /\ mode = "autonomous" /\ At("offer")

ExecSound == \A a \in Actors : exec[a].step = "none" \/ Executing(a)
ExecIdle == \A a \in Actors : exec[a].step = "none" => exec[a] = NoExec

\* An intent without its order is in the hands of an actor.
IntentsHeld ==
  \A i \in Ids : proposals[i].order = "reserved" =>
    \E a \in Actors : exec[a].id = i /\ Reserved(a)

\* What an actor recorded of the exits before it: a row of the blocker that is
\* still active, and proposals that had been given an intent.
OlderSound ==
  \A a \in Actors : /\ older[a].row => blocker # {}
                    /\ \A j \in older[a].sells : proposals[j].order # "none"

\* What the last look at the context found, as far as it still holds when the
\* order leaves.
ContextHolds(a) ==
  LET q == proposals[exec[a].id] IN
  IF q.side = "sell" THEN q.qty <= held[q.sym]
  ELSE ~ older[a].row /\ older[a].sells \cap active_sells = {}

SubmitSound == \A a \in Actors : exec[a].step = "submit" => ContextHolds(a)

\* An entry of the scan has no pending rival, and pending entries have none.
EnterUnpending ==
  \A s \in Symbols : scan.does[s] = "enter" => \A i \in Of(s, "buy") : ~ Pending(i)

EntriesUnique ==
  \A i, j \in Ids :
    /\ Pending(i) /\ Pending(j) /\ proposals[i].side = "buy" /\ proposals[j].side = "buy"
    /\ proposals[i].sym = proposals[j].sym
    => i = j

\* What the scan holds back for its group and batch.
ScanSound ==
  /\ \A s \in Symbols : scan.does[s] \in { "exit", "emergency", "unpriced" } => scan.held[s] >= 1
  /\ scan.group # {} => At("offer")
  /\ scan.batch # {} => At("offer") \/ At("batch")
  /\ scan.batch # {} => mode = "batch"
  /\ \A i \in scan.group : proposals[i].status # "none" /\ proposals[i].side = "sell"

\* Entries are never shown in autonomous mode.
AutonomousShowsSells ==
  mode = "autonomous" => \A i \in Ids : Pending(i) /\ answerable(i) => proposals[i].side = "sell"

\* What waits is shown, or will be at the end of the scan.
ShownOrKept ==
  faults = 0 /\ mode # "autonomous" =>
    \A i \in Ids : Pending(i) => answerable(i) \/ i \in scan.group \cup scan.batch

IInv ==
  /\ TypeOK /\ OrderSound /\ SlotExclusive /\ SellCovered /\ ExecSound /\ ExecIdle
  /\ IntentsHeld /\ OlderSound /\ SubmitSound
  /\ EnterUnpending /\ EntriesUnique /\ ScanSound /\ AutonomousShowsSells /\ ShownOrKept

(***************************************************************************)
(* Rows.                                                                   *)
(***************************************************************************)
Rows == proposals \in [Ids -> Proposal]

\* Without a new order, a fill or a new proposal: orders and what waits only
\* end.
Gentle ==
  /\ UNCHANGED << mode, held >>
  /\ \A i \in Ids :
       /\ proposals'[i].sym = proposals[i].sym /\ proposals'[i].side = proposals[i].side
       /\ proposals'[i].order = "none" <=> proposals[i].order = "none"
       /\ proposals'[i].order \in { "reserved", "live" } =>
            /\ proposals'[i].order = proposals[i].order
            /\ Live(i) => proposals'[i].left = proposals[i].left
       /\ proposals'[i].status = "pending" =>
            /\ Pending(i) /\ proposals'[i].order = proposals[i].order
            /\ proposals'[i].qty = proposals[i].qty
       /\ proposals[i].status # "none" => proposals'[i].status # "none"

\* Rows that are what they were.
LEMMA SameRows == ASSUME UNCHANGED << mode, held, proposals >> PROVE Gentle
BY DEF Gentle, Live, Pending

\* set_status ends rows, or approves them.
LEMMA EndedRow ==
  ASSUME NEW q \in Proposal, NEW st \in { "filled", "blocked", "closed" }
  PROVE  /\ ended(q, st) \in Proposal
         /\ ended(q, st).sym = q.sym /\ ended(q, st).side = q.side
         /\ ended(q, st).order = q.order /\ ended(q, st).status = st
<1>1. 0 \in 0..MaxHeld
  BY BoundsAssumption
<1>2. ended(q, st) \in Proposal
  BY <1>1 DEF ended, Proposal
<1>3. ended(q, st).sym = q.sym /\ ended(q, st).side = q.side
  BY DEF ended, Proposal
<1>4. ended(q, st).order = q.order /\ ended(q, st).status = st
  BY DEF ended, Proposal
<1>5. QED
  BY <1>2, <1>3, <1>4

\* So are the rows of a set that ends.
LEMMA EndedRows ==
  ASSUME Rows, OrderSound, NEW I, NEW st \in { "filled", "blocked", "closed" },
         \A i \in I : ~ Live(i), proposals' = set_status(I, st), UNCHANGED << mode, held >>
  PROVE  /\ Rows' /\ Gentle
         /\ \A i \in Ids : i \notin I => proposals'[i] = proposals[i]
         /\ \A i \in Ids : proposals'[i].status = "pending" => proposals'[i] = proposals[i]
<1>1. \A i \in Ids : proposals'[i] = IF i \notin I THEN proposals[i] ELSE ended(proposals[i], st)
  BY DEF set_status
<1>2. \A i \in Ids : proposals[i] \in Proposal
  BY DEF Rows
<1>3. Rows'
  BY <1>1, <1>2, EndedRow DEF Rows, set_status
<1>4. \A i \in Ids : i \in I =>
        /\ proposals'[i].sym = proposals[i].sym /\ proposals'[i].side = proposals[i].side
        /\ proposals'[i].order = proposals[i].order /\ proposals'[i].status = st
  BY <1>1, <1>2, EndedRow
<1>5. Gentle
  BY <1>1, <1>4 DEF Gentle, Live, Pending
<1>6. QED
  BY <1>1, <1>3, <1>4, <1>5

\* A surface changes nothing else.
LEMMA ShownRows ==
  ASSUME Rows, NEW I, NEW surface \in { "message", "batch", "group" },
         proposals' = shown_as(I, surface), UNCHANGED << mode, held >>
  PROVE  /\ Rows' /\ Gentle
         /\ \A i \in Ids : i \notin I => proposals'[i] = proposals[i]
         /\ \A i \in Ids : /\ proposals'[i].status = proposals[i].status
                           /\ proposals'[i].order = proposals[i].order
                           /\ proposals'[i].qty = proposals[i].qty
                           /\ proposals'[i].left = proposals[i].left
                           /\ proposals'[i].side = proposals[i].side
                           /\ i \in I => proposals'[i].surface = surface
<1>1. \A i \in Ids : proposals'[i] = IF i \in I THEN [proposals[i] EXCEPT !.surface = surface]
                                     ELSE proposals[i]
  BY DEF shown_as
<1>2. \A i \in Ids : proposals[i] \in Proposal
  BY DEF Rows
<1>3. \A q \in Proposal :
        /\ [q EXCEPT !.surface = surface] \in Proposal
        /\ [q EXCEPT !.surface = surface].sym = q.sym
        /\ [q EXCEPT !.surface = surface].side = q.side
        /\ [q EXCEPT !.surface = surface].order = q.order
        /\ [q EXCEPT !.surface = surface].left = q.left
        /\ [q EXCEPT !.surface = surface].qty = q.qty
        /\ [q EXCEPT !.surface = surface].status = q.status
        /\ [q EXCEPT !.surface = surface].surface = surface
  BY DEF Proposal
<1>4. Rows'
  BY <1>1, <1>2, <1>3 DEF Rows, shown_as
<1>5. \A i \in Ids : /\ proposals'[i].sym = proposals[i].sym /\ proposals'[i].side = proposals[i].side
                     /\ proposals'[i].order = proposals[i].order
                     /\ proposals'[i].left = proposals[i].left
                     /\ proposals'[i].qty = proposals[i].qty
                     /\ proposals'[i].status = proposals[i].status
                     /\ i \in I => proposals'[i].surface = surface
  <2> SUFFICES ASSUME NEW i \in Ids
      PROVE  /\ proposals'[i].sym = proposals[i].sym /\ proposals'[i].side = proposals[i].side
             /\ proposals'[i].order = proposals[i].order
             /\ proposals'[i].left = proposals[i].left
             /\ proposals'[i].qty = proposals[i].qty
             /\ proposals'[i].status = proposals[i].status
             /\ i \in I => proposals'[i].surface = surface
    OBVIOUS
  <2>1. CASE i \in I
    <3> DEFINE q == proposals[i]
    <3>1. proposals'[i] = [q EXCEPT !.surface = surface] /\ q \in Proposal
      BY <1>1, <1>2, <2>1
    <3> HIDE DEF q
    <3>2. /\ proposals'[i].sym = q.sym /\ proposals'[i].side = q.side
          /\ proposals'[i].order = q.order /\ proposals'[i].left = q.left
          /\ proposals'[i].qty = q.qty /\ proposals'[i].status = q.status
          /\ proposals'[i].surface = surface
      BY <1>3, <3>1
    <3>3. QED
      BY <3>2 DEF q
  <2>2. CASE i \notin I
    BY <1>1, <2>2
  <2>3. QED
    BY <2>1, <2>2
<1>6. Gentle
  BY <1>5 DEF Gentle, Live, Pending
<1>7. QED
  BY <1>1, <1>4, <1>5, <1>6

\* Gentle steps keep what is said about rows alone.
LEMMA GentleKeeps ==
  ASSUME Gentle, OrderSound, SlotExclusive, SellCovered, EntriesUnique
  PROVE  OrderSound' /\ SlotExclusive' /\ SellCovered' /\ EntriesUnique'
<1>1. OrderSound'
  BY DEF Gentle, OrderSound, Live, Pending
<1>2. SlotExclusive'
  BY DEF Gentle, SlotExclusive, Active
<1>3. SellCovered'
  BY DEF Gentle, SellCovered, Live
<1>4. EntriesUnique'
  BY DEF Gentle, EntriesUnique, Pending
<1>5. QED
  BY <1>1, <1>2, <1>3, <1>4

\* No new candidate appears in the scan.
LEMMA CandidatesKept ==
  ASSUME Gentle, EnterUnpending, \A s \in Symbols : scan'.does[s] = "enter" => scan.does[s] = "enter"
  PROVE  EnterUnpending'
BY DEF Gentle, EnterUnpending, Of, Pending

(***************************************************************************)
(* The blocker, and what was there before an intent.                       *)
(***************************************************************************)

\* Nobody records an exit, and what is recorded of the blocker stays true.
BlockersKept ==
  /\ blocker' \in SUBSET Symbols
  /\ older' \in [Actors -> [sells : SUBSET Ids, row : BOOLEAN]]
  /\ \A a \in Actors : /\ older'[a].sells \subseteq older[a].sells
                       /\ older'[a].row => older[a].row /\ blocker' # {}

\* Rows with an order keep what they are about, and their order only ends.
OrdersAge ==
  \A i \in Ids : proposals[i].order # "none" =>
    /\ proposals'[i].sym = proposals[i].sym /\ proposals'[i].side = proposals[i].side
    /\ proposals'[i].order # "none"
    /\ proposals'[i].order \in { "reserved", "live" } => Active(i)

\* So they do in a gentle step.
LEMMA GentleAges == Gentle => OrdersAge
BY DEF Gentle, OrdersAge, Active

\* A step that leaves the blocker and the records alone.
LEMMA BlockersUnchanged ==
  ASSUME TypeOK, OlderSound, UNCHANGED blockers
  PROVE  BlockersKept
BY DEF TypeOK, OlderSound, BlockersKept, blockers

\* A row of the blocker is added, or all of them are cleared together with the
\* record of them.
LEMMA ObservedKept ==
  ASSUME TypeOK, OlderSound, NEW r, r.sells \subseteq Symbols, r.held \subseteq Symbols,
         NEW exits \in SUBSET Symbols, observe(r, exits)
  PROVE  BlockersKept
<1>1. sources(r, exits) \subseteq Symbols
  <2>1. proposals \in [Ids -> Proposal]
    BY DEF TypeOK
  <2>2. /\ intent_sources \subseteq Symbols /\ proposal_sources(r) \subseteq Symbols
        /\ decision_sources(r, exits) \subseteq Symbols /\ order_sources(r) \subseteq Symbols
    BY <2>1 DEF intent_sources, active_sells, proposal_sources, decision_sources, order_sources,
       Proposal
  <2>3. QED
    BY <2>2 DEF sources
<1>2. blocker \in SUBSET Symbols /\ older \in [Actors -> [sells : SUBSET Ids, row : BOOLEAN]]
  BY DEF TypeOK
<1>3. CASE (\E s \in sources(r, exits) : blocker' = blocker \cup { s }) /\ UNCHANGED older
  BY <1>1, <1>2, <1>3 DEF BlockersKept
<1>4. CASE blocker' = clear_absent(r) /\ older' = [a \in Actors |-> [older[a] EXCEPT !.row = FALSE]]
  <2>1. blocker' = {}
    BY <1>4 DEF clear_absent
  <2>2. \A a \in Actors : /\ older'[a] \in [sells : SUBSET Ids, row : BOOLEAN]
                         /\ older'[a].sells = older[a].sells /\ older'[a].row = FALSE
    <3> SUFFICES ASSUME NEW a \in Actors
        PROVE  /\ older'[a] \in [sells : SUBSET Ids, row : BOOLEAN]
               /\ older'[a].sells = older[a].sells /\ older'[a].row = FALSE
      OBVIOUS
    <3> DEFINE o == older[a]
    <3>1. o \in [sells : SUBSET Ids, row : BOOLEAN] /\ older'[a] = [o EXCEPT !.row = FALSE]
      BY <1>2, <1>4
    <3> HIDE DEF o
    <3>2. older'[a] \in [sells : SUBSET Ids, row : BOOLEAN] /\ older'[a].sells = o.sells
          /\ older'[a].row = FALSE
      BY <3>1
    <3>3. QED
      BY <3>2 DEF o
  <2>3. older' \in [Actors -> [sells : SUBSET Ids, row : BOOLEAN]]
    BY <1>4, <2>2
  <2>4. QED
    BY <2>1, <2>2, <2>3 DEF BlockersKept
<1>5. QED
  BY <1>3, <1>4 DEF observe

\* What was recorded stays sound while orders only end.
LEMMA OlderKept ==
  ASSUME TypeOK, OlderSound, BlockersKept, OrdersAge
  PROVE  OlderSound'
BY DEF TypeOK, OlderSound, BlockersKept, OrdersAge

\* Whoever holds an intent still holds it.
LEMMA IntentsKept ==
  ASSUME IntentsHeld,
         \A i \in Ids : proposals'[i].order = "reserved" =>
           /\ proposals[i].order = "reserved"
           /\ \A a \in Actors : exec[a].id = i /\ Reserved(a) => exec'[a] = exec[a]
  PROVE  IntentsHeld'
<1> SUFFICES ASSUME NEW i \in Ids, proposals'[i].order = "reserved"
    PROVE  \E a \in Actors : exec'[a].id = i /\ Reserved(a)'
  BY DEF IntentsHeld
<1>1. PICK a \in Actors : exec[a].id = i /\ Reserved(a)
  BY DEF IntentsHeld
<1>2. exec'[a] = exec[a]
  BY <1>1
<1>3. QED
  BY <1>1, <1>2 DEF Reserved

\* What was found before an order leaves holds on while nobody else sells of
\* the same holding.
LEMMA SubmitKept ==
  ASSUME IInv, BlockersKept, OrdersAge,
         \A a \in Actors : exec'[a].step = "submit" =>
           /\ exec'[a].id = exec[a].id /\ Reserved(a) /\ ContextHolds(a)
           /\ proposals'[exec[a].id].qty = proposals[exec[a].id].qty
           /\ proposals[exec[a].id].side = "sell" =>
                proposals[exec[a].id].qty <= held'[proposals[exec[a].id].sym]
  PROVE  SubmitSound'
<1> SUFFICES ASSUME NEW a \in Actors, exec'[a].step = "submit" PROVE ContextHolds(a)'
  BY DEF SubmitSound
<1> DEFINE i == exec[a].id
<1>1. /\ exec'[a].id = i /\ Reserved(a) /\ ContextHolds(a)
      /\ proposals'[i].qty = proposals[i].qty
      /\ proposals[i].side = "sell" => proposals[i].qty <= held'[proposals[i].sym]
  OBVIOUS
<1>2. i \in Ids /\ proposals[i].order = "reserved"
  BY <1>1 DEF IInv, ExecSound, Executing, Reserved
<1>3. proposals'[i].sym = proposals[i].sym /\ proposals'[i].side = proposals[i].side
  BY <1>2 DEF OrdersAge
<1>4. CASE proposals[i].side = "sell"
  BY <1>1, <1>3, <1>4 DEF ContextHolds
<1>5. CASE proposals[i].side # "sell"
  <2>1. ~ older'[a].row /\ older'[a].sells \subseteq older[a].sells
    BY <1>1, <1>5 DEF BlockersKept, ContextHolds
  <2>2. ASSUME NEW j \in older'[a].sells, j \in active_sells' PROVE FALSE
    <3>1. j \in Ids /\ proposals'[j].side = "sell" /\ proposals'[j].order \in { "reserved", "live" }
      BY <2>2 DEF active_sells, Active
    <3>2. proposals[j].order # "none"
      BY <2>1, <2>2 DEF IInv, OlderSound
    <3>3. j \in active_sells
      BY <3>1, <3>2 DEF OrdersAge, active_sells
    <3>4. QED
      BY <1>1, <1>5, <2>1, <2>2, <3>3 DEF ContextHolds
  <2>3. QED
    BY <1>1, <1>3, <1>5, <2>1, <2>2 DEF ContextHolds
<1>6. QED
  BY <1>4, <1>5

\* The proposals in execution are left alone, and the scanner stays where it
\* executes.
LEMMA ExecutionKept ==
  ASSUME IInv, Gentle, BlockersKept, UNCHANGED exec,
         exec["scanner"].step # "none" => scan'.pc = "offer",
         \A a \in Actors : exec[a].step # "none" =>
           /\ proposals'[exec[a].id].order = proposals[exec[a].id].order
           /\ proposals'[exec[a].id].qty = proposals[exec[a].id].qty
           /\ proposals'[exec[a].id].side = proposals[exec[a].id].side
           /\ proposals'[exec[a].id].left = proposals[exec[a].id].left
           /\ proposals'[exec[a].id].status = proposals[exec[a].id].status
           /\ a = "scanner" => proposals'[exec[a].id].surface = proposals[exec[a].id].surface
  PROVE  ExecSound' /\ ExecIdle' /\ IntentsHeld' /\ OlderSound' /\ SubmitSound'
<1>1. ExecSound /\ ExecIdle /\ IntentsHeld /\ SubmitSound /\ OlderSound /\ TypeOK
  BY DEF IInv
<1>2. UNCHANGED << mode, held >>
  BY DEF Gentle
<1>3. ExecSound' /\ ExecIdle'
  BY <1>1, <1>2 DEF ExecSound, ExecIdle, Executing, Reserved, At, Actors
<1>4. IntentsHeld'
  BY <1>1 DEF IntentsHeld, Gentle, Reserved
<1>5. OlderSound'
  BY <1>1, GentleAges, OlderKept
<1>6. SubmitSound'
  <2>1. \A a \in Actors : exec'[a].step = "submit" =>
           /\ exec'[a].id = exec[a].id /\ Reserved(a) /\ ContextHolds(a)
           /\ proposals'[exec[a].id].qty = proposals[exec[a].id].qty
           /\ proposals[exec[a].id].side = "sell" =>
                proposals[exec[a].id].qty <= held'[proposals[exec[a].id].sym]
    BY <1>1, <1>2 DEF SubmitSound, ContextHolds, Reserved
  <2>2. QED
    BY <2>1, GentleAges, SubmitKept
<1>7. QED
  BY <1>3, <1>4, <1>5, <1>6

(***************************************************************************)
(* Faults, and the reads of the broker.                                    *)
(***************************************************************************)

\* Faults are counted.
LEMMA FaultCounted ==
  ASSUME TypeOK, Fault \/ UNCHANGED faults
  PROVE  faults' \in 0..MaxFaults /\ (faults' = 0 => faults = 0 /\ ~ Fault)
BY BoundsAssumption DEF TypeOK, Fault

\* The two reads.
LEMMA ReadTypes ==
  \A r \in { Read, EmptyRead } : r.sells \subseteq Symbols /\ r.held \subseteq Symbols
BY DEF Read, EmptyRead

(***************************************************************************)
(* The locals of the scan.                                                 *)
(***************************************************************************)
ScanRow ==
  [ pc : { "idle", "expire", "read", "decide", "gate", "offer", "group", "batch", "digest" },
    sleeping : BOOLEAN, held : [Symbols -> 0..MaxHeld], ordered : SUBSET Symbols,
    does : [Symbols -> Decisions],
    blocked : BOOLEAN, rotates : BOOLEAN, batch : SUBSET Ids, group : SUBSET Ids ]

\* The type of the locals, by its short name.
LEMMA ScanTyped == TypeOK => scan \in ScanRow
BY DEF TypeOK, ScanRow

\* The locals of a cycle that is over.
LEMMA IdleTyped ==
  /\ Idle \in ScanRow /\ Idle.pc = "idle" /\ Idle.group = {} /\ Idle.batch = {}
  /\ Idle.does = [s \in Symbols |-> "hold"]
<1>1. [s \in Symbols |-> 0] \in [Symbols -> 0..MaxHeld]
  BY BoundsAssumption
<1>2. [s \in Symbols |-> "hold"] \in [Symbols -> Decisions]
  BY DEF Decisions
<1>3. QED
  BY <1>1, <1>2 DEF Idle, ScanRow

\* Only the place of the scan changes.
LEMMA ScanMoves ==
  ASSUME scan \in ScanRow, NEW l \in { "expire", "read", "digest" }, Goto(l)
  PROVE  /\ scan' \in ScanRow /\ scan'.pc = l
         /\ scan'.does = scan.does /\ scan'.held = scan.held
         /\ scan'.group = scan.group /\ scan'.batch = scan.batch
BY DEF ScanRow, Goto

\* The scan is over: nothing is kept, and nothing was.
LEMMA ScanStops ==
  ASSUME scan' = Idle
  PROVE  /\ ScanSound' /\ \A s \in Symbols : scan'.does[s] # "enter"
         /\ scan' \in ScanRow
BY IdleTyped DEF ScanSound, At

(***************************************************************************)
(* A cycle, step by step.                                                  *)
(***************************************************************************)

\* The scanner takes its snapshot of the rows and of the broker.
LEMMA StartCycleKeeps ==
  ASSUME IInv, StartCycle
  PROVE  IInv'
<1> DEFINE I == { i \in Ids : /\ proposals[i].status \in { "approved", "submitted" }
                              /\ proposals[i].order = "done" /\ proposals[i].left = 0 }
<1> USE DEF IInv
<1>1. Rows /\ scan \in ScanRow
  BY ScanTyped DEF TypeOK, Rows
<1>2. /\ At("idle") /\ exec["scanner"].step = "none"
      /\ proposals' = set_status(I, "filled") /\ Goto("expire")
      /\ UNCHANGED << mode, rotation, held, blockers, exec, faults >>
  BY DEF StartCycle, NoExec
<1>3. \A i \in I : ~ Live(i) /\ proposals[i].order = "done"
  BY DEF Live
<1> HIDE DEF I
<1>4. /\ Rows' /\ Gentle
      /\ \A i \in Ids : i \notin I => proposals'[i] = proposals[i]
      /\ \A i \in Ids : proposals'[i].status = "pending" => proposals'[i] = proposals[i]
  BY <1>1, <1>2, <1>3, EndedRows
<1>5. /\ scan' \in ScanRow /\ scan'.pc = "expire" /\ scan'.does = scan.does
      /\ scan'.held = scan.held /\ scan'.group = {} /\ scan'.batch = {}
  BY <1>1, <1>2, ScanMoves DEF ScanSound, At
<1>6. TypeOK'
  BY <1>2, <1>4, <1>5 DEF TypeOK, Rows, ScanRow, blockers
<1>7. OrderSound' /\ SlotExclusive' /\ SellCovered' /\ EntriesUnique'
  BY <1>4, GentleKeeps
<1>8. ExecSound' /\ ExecIdle' /\ IntentsHeld' /\ OlderSound' /\ SubmitSound'
  <2>1. \A a \in Actors : exec[a].step # "none" => proposals'[exec[a].id] = proposals[exec[a].id]
    BY <1>3, <1>4 DEF ExecSound, Executing
  <2>2. QED
    BY <1>2, <1>4, <2>1, BlockersUnchanged, ExecutionKept
<1>9. EnterUnpending'
  BY <1>4, <1>5, CandidatesKept
<1>10. ScanSound'
  BY <1>5 DEF ScanSound
<1>11. AutonomousShowsSells'
  BY <1>2, <1>4 DEF AutonomousShowsSells, Pending, answerable
<1>12. ShownOrKept'
  BY <1>2, <1>4, <1>5 DEF ShownOrKept, Pending, answerable, ScanSound, At
<1>13. QED
  BY <1>6, <1>7, <1>8, <1>9, <1>10, <1>11, <1>12

\* What is past its time ends, and nobody executes it.
LEMMA ExpireKeeps ==
  ASSUME IInv, Expire
  PROVE  IInv'
<1> DEFINE I == { i \in Ids : due(i) }
<1> USE DEF IInv
<1>1. Rows /\ scan \in ScanRow
  BY ScanTyped DEF TypeOK, Rows
<1>2. /\ At("expire") /\ proposals' = set_status(I, "closed")
      /\ \E l \in { "expire", "read", "digest" } : Goto(l) /\ l # "expire"
      /\ UNCHANGED << mode, rotation, held, blockers, exec, faults >>
  BY DEF Expire
<1>3. \A i \in I : ~ Live(i) /\ Pending(i)
  BY DEF Live, due, OrderSound, Pending
<1> HIDE DEF I
<1>4. /\ Rows' /\ Gentle
      /\ \A i \in Ids : i \notin I => proposals'[i] = proposals[i]
      /\ \A i \in Ids : proposals'[i].status = "pending" => proposals'[i] = proposals[i]
  BY <1>1, <1>2, <1>3, EndedRows
<1>5. /\ scan' \in ScanRow /\ scan'.pc \in { "read", "digest" } /\ scan'.does = scan.does
      /\ scan'.held = scan.held /\ scan'.group = scan.group /\ scan'.batch = scan.batch
  BY <1>1, <1>2, ScanMoves
<1>6. TypeOK'
  BY <1>2, <1>4, <1>5 DEF TypeOK, Rows, ScanRow, blockers
<1>7. OrderSound' /\ SlotExclusive' /\ SellCovered' /\ EntriesUnique'
  BY <1>4, GentleKeeps
<1>8. exec["scanner"].step = "none" /\ scan.group = {} /\ scan.batch = {}
  BY <1>2 DEF ExecSound, Executing, At, Actors, ScanSound
<1>9. ExecSound' /\ ExecIdle' /\ IntentsHeld' /\ OlderSound' /\ SubmitSound'
  <2>1. \A a \in Actors : exec[a].step # "none" => proposals'[exec[a].id] = proposals[exec[a].id]
    BY <1>3, <1>4, <1>8 DEF ExecSound, Executing, Pending, Actors
  <2>2. QED
    BY <1>2, <1>4, <1>8, <2>1, BlockersUnchanged, ExecutionKept
<1>10. EnterUnpending'
  BY <1>4, <1>5, CandidatesKept
<1>11. ScanSound'
  BY <1>5, <1>8 DEF ScanSound
<1>12. AutonomousShowsSells'
  BY <1>2, <1>4 DEF AutonomousShowsSells, Pending, answerable
<1>13. ShownOrKept'
  BY <1>2, <1>4, <1>5 DEF ShownOrKept, Pending, answerable
<1>14. QED
  BY <1>6, <1>7, <1>9, <1>10, <1>11, <1>12, <1>13

\* The read empties what an earlier cycle decided.
LEMMA ReadBrokerKeeps ==
  ASSUME IInv, ReadBroker
  PROVE  IInv'
<1> USE DEF IInv
<1>1. /\ At("read") /\ UNCHANGED << mode, rotation, held, proposals, blockers, exec >>
      /\ Rows /\ Gentle
  BY SameRows DEF ReadBroker, TypeOK, Rows
<1>2. exec["scanner"].step = "none" /\ scan.group = {} /\ scan.batch = {}
  BY <1>1 DEF ExecSound, Executing, At, Actors, ScanSound
<1>3. /\ scan' \in ScanRow /\ scan'.group = {} /\ scan'.batch = {}
      /\ scan'.does = [s \in Symbols |-> "hold"]
  <2>1. CASE scan' = Idle
    BY <2>1, IdleTyped
  <2>2. CASE scan' # Idle
    <3>1. PICK asleep \in BOOLEAN :
            scan' = [Idle EXCEPT !.pc = "decide", !.sleeping = asleep, !.held = held,
                                 !.ordered = { s \in Symbols : \E i \in Ids :
                                                 proposals[i].sym = s /\ Live(i) }]
      BY <2>2 DEF ReadBroker
    <3>2. held \in [Symbols -> 0..MaxHeld]
      BY DEF TypeOK
    <3>3. QED
      BY <3>1, <3>2, IdleTyped DEF ScanRow
  <2>3. QED
    BY <2>1, <2>2
<1>4. faults' \in 0..MaxFaults /\ (faults' = 0 => faults = 0)
  BY FaultCounted DEF ReadBroker
<1>5. TypeOK'
  BY <1>1, <1>3, <1>4 DEF TypeOK, ScanRow, blockers
<1>6. OrderSound' /\ SlotExclusive' /\ SellCovered' /\ EntriesUnique'
  BY <1>1, GentleKeeps
<1>7. ExecSound' /\ ExecIdle' /\ IntentsHeld' /\ OlderSound' /\ SubmitSound'
  BY <1>1, <1>2, BlockersUnchanged, ExecutionKept
<1>8. EnterUnpending' /\ ScanSound'
  BY <1>3 DEF EnterUnpending, ScanSound
<1>9. AutonomousShowsSells'
  BY <1>1 DEF AutonomousShowsSells, Pending, answerable
<1>10. ShownOrKept'
  BY <1>1, <1>2, <1>3, <1>4 DEF ShownOrKept, Pending, answerable
<1>11. QED
  BY <1>5, <1>6, <1>7, <1>8, <1>9, <1>10

\* A step of the scan that touches no row, where nobody executes.
LEMMA ScanOnly ==
  ASSUME IInv, UNCHANGED << mode, rotation, held, proposals, exec >>,
         exec["scanner"].step = "none", Fault \/ UNCHANGED faults,
         BlockersKept, scan' \in ScanRow, ScanSound',
         \A s \in Symbols : scan'.does[s] = "enter" => \A i \in Of(s, "buy") : ~ Pending(i),
         faults' = 0 => scan.group \subseteq scan'.group /\ scan.batch \subseteq scan'.batch
  PROVE  IInv'
<1> USE DEF IInv
<1>1. faults' \in 0..MaxFaults /\ (faults' = 0 => faults = 0)
  BY FaultCounted
<1>2. TypeOK'
  BY <1>1 DEF TypeOK, ScanRow, BlockersKept
<1>3. OrderSound' /\ SlotExclusive' /\ SellCovered' /\ EntriesUnique'
  BY GentleKeeps, SameRows
<1>4. ExecSound' /\ ExecIdle' /\ IntentsHeld' /\ OlderSound' /\ SubmitSound'
  BY SameRows, ExecutionKept
<1>5. EnterUnpending'
  BY DEF EnterUnpending, Of, Pending
<1>6. AutonomousShowsSells'
  BY DEF AutonomousShowsSells, Pending, answerable
<1>7. ShownOrKept'
  BY <1>1 DEF ShownOrKept, Pending, answerable
<1>8. QED
  BY <1>2, <1>3, <1>4, <1>5, <1>6, <1>7

\* Where the scan is not offering, its executor is at rest.
LEMMA AtRest ==
  ASSUME ExecSound, ~ At("offer")
  PROVE  exec["scanner"].step = "none"
BY DEF ExecSound, Executing, Actors

\* An entry that has a pending rival is dropped; an exit has a holding.
LEMMA DecideKeeps ==
  ASSUME IInv, Decide
  PROVE  IInv'
<1>1. TypeOK /\ ScanSound /\ ExecSound /\ OlderSound /\ scan \in ScanRow
  BY ScanTyped DEF IInv
<1>2. PICK does \in [Symbols -> Decisions] :
        LET exits == { s \in Symbols : does[s] \in Exits }
            r == [held |-> { s \in Symbols : scan.held[s] > 0 },
                  sells |-> { s \in scan.ordered : LiveSells(s) # {} }]
        IN /\ \A s \in Symbols : does[s] \in decisions(s)
           /\ observe(r, exits)
           /\ scan' = [scan EXCEPT
                !.pc = "gate", !.ordered = {}, !.blocked = blocks(r, exits),
                !.held = [s \in Symbols |-> IF s \in exits THEN @[s] ELSE 0],
                !.does = [s \in Symbols |->
                            IF does[s] = "enter" /\ deduped(s) THEN "hold" ELSE does[s]]]
  BY DEF Decide
<1> DEFINE exits == { s \in Symbols : does[s] \in Exits }
           r == [held |-> { s \in Symbols : scan.held[s] > 0 },
                 sells |-> { s \in scan.ordered : LiveSells(s) # {} }]
           newheld == [s \in Symbols |-> IF s \in exits THEN scan.held[s] ELSE 0]
           newdoes == [s \in Symbols |-> IF does[s] = "enter" /\ deduped(s) THEN "hold" ELSE does[s]]
<1>3. BlockersKept
  <2>1. r.sells \subseteq Symbols /\ r.held \subseteq Symbols
    BY <1>1 DEF ScanRow
  <2>2. observe(r, exits) /\ exits \in SUBSET Symbols
    BY <1>2
  <2> HIDE DEF r, exits
  <2>3. QED
    BY <1>1, <2>1, <2>2, ObservedKept
<1>4. blocks(r, exits) \in BOOLEAN
  BY DEF blocks
<1>5. newheld \in [Symbols -> 0..MaxHeld] /\ newdoes \in [Symbols -> Decisions]
  BY <1>1, BoundsAssumption DEF ScanRow, Decisions
<1>6. scan' = [scan EXCEPT !.pc = "gate", !.ordered = {}, !.blocked = blocks(r, exits),
                           !.held = newheld, !.does = newdoes]
  BY <1>2
<1>7. \A s \in Symbols : newdoes[s] \in { "exit", "emergency", "unpriced" } => newheld[s] >= 1
  <2>1. SUFFICES ASSUME NEW s \in Symbols, newdoes[s] \in { "exit", "emergency", "unpriced" }
                 PROVE  newheld[s] >= 1
    OBVIOUS
  <2>2. does[s] \in { "exit", "emergency", "unpriced" } /\ does[s] \in decisions(s)
    BY <1>2, <2>1
  <2>3. scan.held[s] > 0 /\ scan.held[s] \in Nat
    BY <1>1, <2>2, BoundsAssumption DEF decisions, may_exit, may_enter, ScanRow
  <2>4. s \in exits
    BY <2>2 DEF Exits
  <2>5. QED
    BY <2>3, <2>4
<1>8. \A s \in Symbols : newdoes[s] = "enter" => \A i \in Of(s, "buy") : ~ Pending(i)
  BY DEF deduped
<1> HIDE DEF r, exits, newheld, newdoes
<1>9. /\ scan' \in ScanRow /\ scan'.does = newdoes /\ scan'.held = newheld
      /\ scan'.group = scan.group /\ scan'.batch = scan.batch
  BY <1>1, <1>4, <1>5, <1>6 DEF ScanRow
<1>10. At("decide") /\ UNCHANGED << mode, rotation, held, proposals, exec, faults >>
  BY DEF Decide
<1>11. ~ At("offer") /\ ~ At("batch")
  BY <1>10 DEF At
<1>12. ScanSound'
  BY <1>1, <1>7, <1>9, <1>11 DEF ScanSound
<1>13. \A s \in Symbols : scan'.does[s] = "enter" => \A i \in Of(s, "buy") : ~ Pending(i)
  BY <1>8, <1>9
<1>14. exec["scanner"].step = "none"
  BY <1>1, <1>11, AtRest
<1>15. QED
  BY <1>3, <1>9, <1>10, <1>12, <1>13, <1>14, ScanOnly

\* The loop only drops candidates.
LEMMA GateKeeps ==
  ASSUME IInv, Gate
  PROVE  IInv'
<1>1. /\ TypeOK /\ ScanSound /\ ExecSound /\ OlderSound /\ scan \in ScanRow
      /\ EnterUnpending
  BY ScanTyped DEF IInv
<1>2. PICK r \in { Read, EmptyRead }, passed \in BOOLEAN :
        /\ read_for_portfolio(r)
        /\ IF candidates = {} THEN UNCHANGED blockers ELSE observe(r, {})
        /\ scan' = [scan EXCEPT
             !.pc = "offer", !.sleeping = FALSE, !.blocked = FALSE,
             !.does = [s \in Symbols |-> IF allowed(s) THEN @[s] ELSE "hold"],
             !.rotates = /\ rotation /\ scan.blocked /\ candidates # {}
                         /\ passed \/ mode = "batch"]
  BY DEF Gate
<1> DEFINE newdoes == [s \in Symbols |-> IF allowed(s) THEN scan.does[s] ELSE "hold"]
           rotates == /\ rotation /\ scan.blocked /\ candidates # {}
                      /\ passed \/ mode = "batch"
<1>3. newdoes \in [Symbols -> Decisions] /\ rotates \in BOOLEAN
  BY <1>1 DEF ScanRow, Decisions
<1>4. scan' = [scan EXCEPT !.pc = "offer", !.sleeping = FALSE, !.blocked = FALSE,
                           !.does = newdoes, !.rotates = rotates]
  BY <1>2
<1>5. \A s \in Symbols : newdoes[s] # "hold" => newdoes[s] = scan.does[s]
  OBVIOUS
<1> HIDE DEF newdoes, rotates
<1>6. /\ scan' \in ScanRow /\ scan'.does = newdoes /\ scan'.held = scan.held
      /\ scan'.group = scan.group /\ scan'.batch = scan.batch
  BY <1>1, <1>3, <1>4 DEF ScanRow
<1>7. BlockersKept
  BY <1>1, <1>2, ReadTypes, ObservedKept, BlockersUnchanged
<1>8. /\ At("gate") /\ ~ At("offer") /\ ~ At("batch")
      /\ UNCHANGED << mode, rotation, held, proposals, exec >>
  BY DEF Gate, At
<1>9. Fault \/ UNCHANGED faults
  BY <1>2 DEF read_for_portfolio
<1>10. ScanSound'
  BY <1>1, <1>5, <1>6, <1>8 DEF ScanSound
<1>11. \A s \in Symbols : scan'.does[s] = "enter" => \A i \in Of(s, "buy") : ~ Pending(i)
  BY <1>1, <1>5, <1>6 DEF EnterUnpending
<1>12. exec["scanner"].step = "none"
  BY <1>1, <1>8, AtRest
<1>13. QED
  BY <1>6, <1>7, <1>8, <1>9, <1>10, <1>11, <1>12, ScanOnly

\* A symbol that has been dealt with.
LEMMA DoneWith ==
  ASSUME scan \in ScanRow, NEW s \in Symbols
  PROVE  /\ done_with(s) \in ScanRow
         /\ done_with(s).pc = scan.pc /\ done_with(s).group = scan.group
         /\ done_with(s).batch = scan.batch
         /\ \A t \in Symbols : /\ done_with(s).does[t] = IF t = s THEN "hold" ELSE scan.does[t]
                               /\ done_with(s).held[t] = IF t = s THEN 0 ELSE scan.held[t]
<1> DEFINE d == [scan.does EXCEPT ![s] = "hold"]
           h == [scan.held EXCEPT ![s] = 0]
<1>1. d \in [Symbols -> Decisions] /\ h \in [Symbols -> 0..MaxHeld]
  BY BoundsAssumption DEF ScanRow, Decisions
<1>2. \A t \in Symbols : /\ d[t] = IF t = s THEN "hold" ELSE scan.does[t]
                         /\ h[t] = IF t = s THEN 0 ELSE scan.held[t]
  BY DEF ScanRow
<1>3. done_with(s) = [scan EXCEPT !.does = d, !.held = h]
  BY DEF done_with, ScanRow
<1> HIDE DEF d, h
<1>4. QED
  BY <1>1, <1>2, <1>3 DEF ScanRow

\* A symbol is left out.
LEMMA PassOverKeeps ==
  ASSUME IInv, NEW s \in Symbols, PassOver(s)
  PROVE  IInv'
<1>1. TypeOK /\ ScanSound /\ OlderSound /\ scan \in ScanRow /\ EnterUnpending
  BY ScanTyped DEF IInv
<1>2. /\ At("offer") /\ exec["scanner"].step = "none" /\ scan' = done_with(s)
      /\ UNCHANGED << mode, rotation, held, proposals, exec >>
  BY DEF PassOver, NoExec
<1>3. PICK r \in { Read, EmptyRead } : read_for_portfolio(r) /\ (observe(r, {}) \/ UNCHANGED blockers)
  BY DEF PassOver
<1>4. BlockersKept
  BY <1>1, <1>3, ReadTypes, ObservedKept, BlockersUnchanged
<1>5. Fault \/ UNCHANGED faults
  BY <1>3 DEF read_for_portfolio
<1>6. ScanSound'
  BY <1>1, <1>2, DoneWith DEF ScanSound, At
<1>7. \A t \in Symbols : scan'.does[t] = "enter" => \A i \in Of(t, "buy") : ~ Pending(i)
  BY <1>1, <1>2, DoneWith DEF EnterUnpending
<1>8. /\ scan' \in ScanRow
      /\ scan.group \subseteq scan'.group /\ scan.batch \subseteq scan'.batch
  BY <1>1, <1>2, DoneWith
<1>9. QED
  BY <1>2, <1>4, <1>5, <1>6, <1>7, <1>8, ScanOnly

\* The end of a cycle, with nothing kept back.
LEMMA DigestKeeps ==
  ASSUME IInv, Digest
  PROVE  IInv'
<1>1. TypeOK /\ ScanSound /\ ExecSound /\ OlderSound
  BY DEF IInv
<1>2. /\ At("digest") /\ scan' = Idle /\ UNCHANGED << mode, rotation, held, proposals, exec >>
  BY DEF Digest
<1>3. Fault \/ UNCHANGED faults
  BY DEF Digest
<1>4. observe(Read, {}) \/ UNCHANGED blockers
  BY DEF Digest
<1>5. BlockersKept
  BY <1>1, <1>4, ReadTypes, ObservedKept, BlockersUnchanged
<1>6. exec["scanner"].step = "none" /\ scan.group = {} /\ scan.batch = {}
  BY <1>1, <1>2, AtRest DEF ScanSound, At
<1>7. QED
  BY <1>2, <1>3, <1>5, <1>6, ScanStops, ScanOnly

\* The exits kept for the group are shown, or a cycle of autonomous mode ends.
LEMMA SendGroupKeeps ==
  ASSUME IInv, SendGroup
  PROVE  IInv'
<1> USE DEF IInv
<1>1. Rows /\ scan \in ScanRow
  BY ScanTyped DEF TypeOK, Rows
<1>2. /\ At("offer") /\ exec["scanner"].step = "none"
      /\ scan' = [scan EXCEPT !.pc = "batch", !.group = {}, !.rotates = FALSE]
      /\ UNCHANGED << mode, rotation, held, blockers, exec, faults >>
  BY DEF SendGroup, NoExec
<1>3. /\ scan' \in ScanRow /\ scan'.pc = "batch" /\ scan'.does = scan.does
      /\ scan'.held = scan.held /\ scan'.group = {} /\ scan'.batch = scan.batch
  BY <1>1, <1>2 DEF ScanRow
<1>4. \/ UNCHANGED proposals /\ (scan.group = {} \/ mode = "autonomous")
      \/ proposals' = shown_as(scan.group, "group")
      \/ proposals' = shown_as(scan.group, "message") /\ mode # "autonomous"
  BY DEF SendGroup, fallback
<1>5. /\ Rows' /\ Gentle
      /\ \A i \in Ids : i \notin scan.group => proposals'[i] = proposals[i]
      /\ \A i \in Ids : /\ proposals'[i].status = proposals[i].status
                        /\ proposals'[i].order = proposals[i].order
                        /\ proposals'[i].qty = proposals[i].qty
                        /\ proposals'[i].left = proposals[i].left
                        /\ proposals'[i].side = proposals[i].side
      /\ mode # "autonomous" => \A i \in Ids : i \in scan.group => proposals'[i].surface \in { "group", "message" }
  <2>1. CASE UNCHANGED proposals /\ (scan.group = {} \/ mode = "autonomous")
    BY <1>1, <1>2, <2>1, SameRows DEF Rows
  <2>2. CASE proposals' = shown_as(scan.group, "group")
    BY <1>1, <1>2, <2>2, ShownRows
  <2>3. CASE proposals' = shown_as(scan.group, "message")
    BY <1>1, <1>2, <2>3, ShownRows
  <2>4. QED
    BY <1>4, <2>1, <2>2, <2>3
<1>6. TypeOK'
  BY <1>2, <1>3, <1>5 DEF TypeOK, Rows, ScanRow, blockers
<1>7. OrderSound' /\ SlotExclusive' /\ SellCovered' /\ EntriesUnique'
  BY <1>5, GentleKeeps
<1>8. ExecSound' /\ ExecIdle' /\ IntentsHeld' /\ OlderSound' /\ SubmitSound'
  <2>1. \A a \in Actors : exec[a].step # "none" => a # "scanner" /\ exec[a].id \in Ids
    BY <1>2 DEF ExecSound, Executing
  <2>2. QED
    BY <1>2, <1>5, <2>1, BlockersUnchanged, ExecutionKept
<1>9. EnterUnpending'
  BY <1>3, <1>5, CandidatesKept
<1>10. ScanSound'
  BY <1>2, <1>3 DEF ScanSound, At
<1>11. AutonomousShowsSells'
  <2>1. SUFFICES ASSUME mode = "autonomous", NEW i \in Ids, proposals'[i].status = "pending",
                        answerable(i)' PROVE proposals'[i].side = "sell"
    BY <1>2 DEF AutonomousShowsSells, Pending
  <2>2. CASE i \in scan.group
    BY <1>5, <2>2 DEF ScanSound
  <2>3. CASE i \notin scan.group
    BY <1>5, <2>1, <2>3 DEF AutonomousShowsSells, Pending, answerable
  <2>4. QED
    BY <2>2, <2>3
<1>12. ShownOrKept'
  BY <1>2, <1>3, <1>5 DEF ShownOrKept, Pending, answerable
<1>13. QED
  BY <1>6, <1>7, <1>8, <1>9, <1>10, <1>11, <1>12

\* The proposals kept for the batch are shown, or a fault is counted.
LEMMA SendBatchKeeps ==
  ASSUME IInv, SendBatch
  PROVE  IInv'
<1>1. /\ TypeOK /\ OrderSound /\ SlotExclusive /\ SellCovered /\ ExecSound /\ ExecIdle
      /\ EnterUnpending /\ EntriesUnique /\ ScanSound /\ AutonomousShowsSells /\ ShownOrKept
      /\ OlderSound /\ Rows /\ scan \in ScanRow
  BY ScanTyped DEF IInv, TypeOK, Rows
<1>2. At("batch") /\ UNCHANGED << mode, rotation, held, blockers, exec >>
  BY DEF SendBatch
<1>3. exec["scanner"].step = "none" /\ scan.group = {}
  BY <1>1, <1>2, AtRest DEF ScanSound, At
<1>4. CASE Fault /\ scan' = Idle /\ UNCHANGED proposals
  <2>1. faults' # 0
    BY <1>1, <1>4, FaultCounted
  <2>2. BlockersKept
    BY <1>1, <1>2, BlockersUnchanged
  <2>3. QED
    BY <1>2, <1>3, <1>4, <2>1, <2>2, ScanStops, ScanOnly
<1>5. ASSUME proposals' = shown_as(scan.batch, "batch"),
             scan' = [scan EXCEPT !.pc = "digest", !.batch = {}], UNCHANGED faults
      PROVE  IInv'
  <2>1. /\ scan' \in ScanRow /\ scan'.pc = "digest" /\ scan'.does = scan.does
        /\ scan'.held = scan.held /\ scan'.group = {} /\ scan'.batch = {}
    BY <1>1, <1>3, <1>5 DEF ScanRow
  <2>2. /\ Rows' /\ Gentle
        /\ \A i \in Ids : i \notin scan.batch => proposals'[i] = proposals[i]
        /\ \A i \in Ids : /\ proposals'[i].status = proposals[i].status
                          /\ proposals'[i].order = proposals[i].order
                          /\ proposals'[i].qty = proposals[i].qty
                          /\ proposals'[i].left = proposals[i].left
                          /\ proposals'[i].side = proposals[i].side
                          /\ i \in scan.batch => proposals'[i].surface = "batch"
    BY <1>1, <1>2, <1>5, ShownRows
  <2>3. TypeOK'
    BY <1>1, <1>2, <1>5, <2>1, <2>2 DEF TypeOK, Rows, ScanRow, blockers
  <2>4. OrderSound' /\ SlotExclusive' /\ SellCovered' /\ EntriesUnique'
    BY <1>1, <2>2, GentleKeeps
  <2>5. ExecSound' /\ ExecIdle' /\ IntentsHeld' /\ OlderSound' /\ SubmitSound'
    <3>1. \A a \in Actors : exec[a].step # "none" => a # "scanner" /\ exec[a].id \in Ids
      BY <1>1, <1>3 DEF ExecSound, Executing
    <3>2. QED
      BY <1>1, <1>2, <1>3, <2>2, <3>1, BlockersUnchanged, ExecutionKept
  <2>6. EnterUnpending'
    BY <1>1, <2>1, <2>2, CandidatesKept
  <2>7. ScanSound'
    BY <1>1, <2>1 DEF ScanSound
  <2>8. AutonomousShowsSells'
    BY <1>1, <1>2, <2>2 DEF AutonomousShowsSells, Pending, answerable, ScanSound
  <2>9. ShownOrKept'
    BY <1>1, <1>2, <1>3, <1>5, <2>2 DEF ShownOrKept, Pending, answerable
  <2>10. QED
    BY <2>3, <2>4, <2>5, <2>6, <2>7, <2>8, <2>9 DEF IInv
<1>6. QED
  BY <1>4, <1>5 DEF SendBatch

(***************************************************************************)
(* A proposal is made.                                                     *)
(***************************************************************************)

\* What an insertion writes.
new_row(s, n) ==
  [NoProposal EXCEPT !.sym = s, !.side = side_of(scan.does[s]), !.qty = n,
     !.urgent = scan.does[s] \in { "emergency", "unpriced" },
     !.status = IF scan.does[s] = "unpriced" THEN "blocked" ELSE "pending"]

\* A new row asks for something, and is an entry exactly for a candidate.
LEMMA NewRow ==
  ASSUME IInv, NEW s \in Symbols, At("offer"), next_out(s), NEW n \in quantity(s)
  PROVE  /\ new_row(s, n) \in Proposal /\ new_row(s, n).sym = s
         /\ new_row(s, n).order = "none" /\ new_row(s, n).qty >= 1
         /\ new_row(s, n).surface = "none"
         /\ new_row(s, n).status \in { "pending", "blocked" }
         /\ new_row(s, n).side = "buy" <=> scan.does[s] = "enter"
<1> DEFINE side == side_of(scan.does[s])
           urgent == scan.does[s] \in { "emergency", "unpriced" }
           status == IF scan.does[s] = "unpriced" THEN "blocked" ELSE "pending"
<1>1. n \in 0..MaxHeld /\ n >= 1
  <2>1. held[s] \in 0..MaxHeld /\ scan.held[s] \in 0..MaxHeld /\ scan.does[s] \in Decisions
        /\ scan.does[s] # "hold"
    BY DEF IInv, TypeOK, next_out, ahead
  <2>2. CASE scan.does[s] = "enter"
    BY <2>1, <2>2, BoundsAssumption DEF quantity
  <2>3. CASE scan.does[s] = "reduce"
    BY <2>1, <2>3, BoundsAssumption DEF quantity
  <2>4. CASE scan.does[s] \in { "exit", "emergency", "unpriced" }
    <3>1. scan.held[s] >= 1
      BY <2>4 DEF IInv, ScanSound
    <3>2. n = scan.held[s]
      BY <2>4 DEF quantity
    <3>3. QED
      BY <2>1, <3>1, <3>2
  <2>5. QED
    BY <2>1, <2>2, <2>3, <2>4 DEF Decisions
<1>2. /\ side \in { "buy", "sell" } /\ urgent \in BOOLEAN /\ status \in { "pending", "blocked" }
      /\ side = "buy" <=> scan.does[s] = "enter"
  BY DEF side_of
<1>3. NoProposal \in Proposal /\ NoProposal.order = "none" /\ NoProposal.surface = "none"
  BY BoundsAssumption DEF NoProposal, Proposal
<1> HIDE DEF side, urgent, status
<1> DEFINE q == [NoProposal EXCEPT !.sym = s, !.side = side, !.qty = n, !.urgent = urgent,
                                   !.status = status]
<1>4. /\ q \in Proposal /\ q.sym = s /\ q.side = side /\ q.order = "none" /\ q.qty = n
      /\ q.surface = "none" /\ q.status = status
  BY <1>1, <1>2, <1>3 DEF Proposal
<1>5. new_row(s, n) = q
  BY DEF new_row, side, urgent, status
<1> HIDE DEF q
<1>6. QED
  BY <1>1, <1>2, <1>4, <1>5

\* A new row takes the place of an empty one; nobody had it in hand.
LEMMA RowAdded ==
  ASSUME IInv, NEW i \in Ids, proposals[i].status = "none", NEW s \in Symbols, At("offer"),
         exec["scanner"].step = "none", UNCHANGED << mode, rotation, held >>,
         NEW r \in Proposal, proposals' = [proposals EXCEPT ![i] = r],
         r.sym = s, r.order = "none", r.qty >= 1, r.status \in { "pending", "blocked" },
         r.side = "buy" <=> scan.does[s] = "enter", r.side \in { "buy", "sell" },
         Fault \/ UNCHANGED faults, BlockersKept,
         scan' \in ScanRow, ScanSound',
         \A t \in Symbols : scan'.does[t] = "enter" => scan.does[t] = "enter" /\ t # s,
         faults' = 0 => scan.group \subseteq scan'.group /\ scan.batch \subseteq scan'.batch,
         exec' \in [Actors -> [id : 0..MaxProposals, step : Steps]],
         exec'["listener"] = exec["listener"],
         \/ exec' = exec
         \/ /\ exec'["scanner"] = [id |-> i, step |-> "check"] /\ r.surface = "self"
            /\ r.status = "pending" /\ mode = "autonomous" /\ scan'.pc = "offer",
         r.status = "pending" /\ mode = "autonomous" => r.surface \in { "none", "self" },
         r.status = "pending" /\ mode # "autonomous" /\ faults' = 0 =>
           r.surface = "message" \/ i \in scan'.group \cup scan'.batch
  PROVE  IInv'
<1> USE DEF IInv
<1>1. /\ Rows /\ faults' \in 0..MaxFaults /\ (faults' = 0 => faults = 0)
  BY FaultCounted DEF Rows, TypeOK
<1>2. /\ proposals'[i] = r /\ \A j \in Ids : j # i => proposals'[j] = proposals[j]
  BY <1>1 DEF Rows
<1>3. TypeOK'
  BY <1>1 DEF TypeOK, Rows, ScanRow, BlockersKept
<1>4. OrderSound'
  BY <1>2 DEF OrderSound, Live, Pending
<1>5. SlotExclusive'
  BY <1>2 DEF SlotExclusive, Active
<1>6. SellCovered'
  BY <1>2 DEF SellCovered, Live
<1>7. EntriesUnique'
  <2>1. r.side = "buy" => \A j \in Ids \ { i } :
          ~ (proposals[j].status = "pending" /\ proposals[j].side = "buy" /\ proposals[j].sym = s)
    BY DEF EnterUnpending, Of, Pending
  <2>2. QED
    BY <1>2, <2>1 DEF EntriesUnique, Pending
<1>8. EnterUnpending'
  BY <1>2 DEF EnterUnpending, Of, Pending
<1>9. ExecSound' /\ ExecIdle'
  <2>1. exec["listener"].step # "none" => exec["listener"].id \in Ids \ { i }
    BY DEF ExecSound, Executing, Actors
  <2>2. exec["listener"].step # "none" => Executing("listener")'
    BY <1>2, <2>1 DEF ExecSound, Executing, Reserved, Actors
  <2>3. exec'["scanner"].step # "none" => Executing("scanner")'
    BY <1>2 DEF Executing, Reserved, At
  <2>4. ExecIdle'
    BY DEF ExecIdle, Actors
  <2>5. QED
    BY <2>2, <2>3, <2>4 DEF ExecSound, Actors
<1>10. AutonomousShowsSells'
  BY <1>2 DEF AutonomousShowsSells, Pending, answerable
<1>11. ShownOrKept'
  BY <1>1, <1>2 DEF ShownOrKept, Pending, answerable
<1>12. proposals[i].order = "none"
  BY DEF OrderSound
<1>13. OrdersAge
  BY <1>2, <1>12 DEF OrdersAge, Active
<1>14. OlderSound'
  BY <1>13, OlderKept
<1>15. IntentsHeld'
  BY <1>2 DEF IntentsHeld, Reserved, Actors
<1>16. SubmitSound'
  <2>1. \A a \in Actors : exec'[a].step = "submit" =>
           /\ exec'[a].id = exec[a].id /\ Reserved(a) /\ ContextHolds(a)
           /\ proposals'[exec[a].id].qty = proposals[exec[a].id].qty
           /\ proposals[exec[a].id].side = "sell" =>
                proposals[exec[a].id].qty <= held'[proposals[exec[a].id].sym]
    <3> SUFFICES ASSUME NEW a \in Actors, exec'[a].step = "submit"
        PROVE  /\ exec'[a].id = exec[a].id /\ Reserved(a) /\ ContextHolds(a)
               /\ proposals'[exec[a].id] = proposals[exec[a].id]
               /\ proposals[exec[a].id].side = "sell" =>
                    proposals[exec[a].id].qty <= held'[proposals[exec[a].id].sym]
      OBVIOUS
    <3>1. exec'[a] = exec[a]
      BY DEF Actors
    <3>2. exec[a].id \in Ids \ { i } /\ Reserved(a) /\ ContextHolds(a)
      BY <1>12, <3>1 DEF ExecSound, Executing, Reserved, SubmitSound
    <3>3. QED
      BY <1>2, <3>1, <3>2 DEF ContextHolds
  <2>2. QED
    BY <1>13, <2>1, SubmitKept
<1>17. QED
  BY <1>3, <1>4, <1>5, <1>6, <1>7, <1>8, <1>9, <1>10, <1>11, <1>14, <1>15, <1>16

\* The insertion of a proposal and its dispatch.
LEMMA OfferKeeps ==
  ASSUME IInv, NEW s \in Symbols, NEW i \in Ids, Offer(s, i)
  PROVE  IInv'
<1>1. /\ TypeOK /\ ScanSound /\ OlderSound /\ scan \in ScanRow /\ EnterUnpending
      /\ exec \in [Actors -> [id : 0..MaxProposals, step : Steps]]
  BY ScanTyped DEF IInv, TypeOK
<1>2. /\ At("offer") /\ next_out(s) /\ exec["scanner"].step = "none"
      /\ proposals[i].status = "none" /\ UNCHANGED << mode, rotation, held >>
  BY DEF Offer, NoExec
<1>3. PICK n \in quantity(s) :
        /\ observe(Read, {})
        /\ Dispatch(i, new_row(s, n), s)
  BY DEF Offer, new_row
<1> DEFINE q == new_row(s, n)
           surface == surface_of(i, q)
           shown == IF surface \in { "group", "batch" } THEN "none" ELSE surface
           kept == [done_with(s) EXCEPT
                 !.group = IF surface = "group" THEN @ \cup { i } ELSE @,
                 !.batch = IF surface = "batch" THEN @ \cup { i } ELSE @]
           r == [q EXCEPT !.surface = shown]
<1>4. /\ q \in Proposal /\ q.sym = s
      /\ q.order = "none" /\ q.qty >= 1 /\ q.surface = "none"
      /\ q.status \in { "pending", "blocked" }
      /\ q.side = "buy" <=> scan.does[s] = "enter"
  BY <1>2, NewRow
<1>5. Dispatch(i, q, s)
  BY <1>3
<1> HIDE DEF q
<1>6. /\ surface \in { "message", "group", "self", "batch" }
      /\ surface = "self" => mode = "autonomous" /\ q.status = "pending"
      /\ surface = "group" => q.side = "sell" /\ q.status = "pending"
      /\ surface = "batch" => mode = "batch" /\ q.status = "pending"
      /\ surface = "message" /\ q.status = "pending" => mode # "autonomous"
  BY <1>4 DEF surface_of, Proposal
<1>7. \/ /\ proposals' = [proposals EXCEPT ![i] = r]
         /\ scan' = kept
         /\ exec' = IF surface = "self"
                      THEN [exec EXCEPT !["scanner"] = [id |-> i, step |-> "check"]] ELSE exec
         /\ UNCHANGED faults
      \/ /\ surface = "message" /\ Fault /\ proposals' = [proposals EXCEPT ![i] = q]
         /\ scan' = Idle /\ UNCHANGED exec
  BY <1>5 DEF Dispatch
<1>8. BlockersKept
  BY <1>1, <1>3, ReadTypes, ObservedKept
<1>9. q.side \in { "buy", "sell" }
  BY <1>4 DEF Proposal
<1> HIDE DEF surface
<1>10. /\ shown \in { "message", "none", "self" }
       /\ shown = "self" <=> surface = "self"
       /\ shown = "none" <=> surface \in { "group", "batch" }
       /\ shown = "message" <=> surface = "message"
  BY <1>6
<1> HIDE DEF shown
<1>11. /\ r \in Proposal /\ r.sym = s /\ r.order = "none" /\ r.qty >= 1
       /\ r.status = q.status /\ r.side = q.side /\ r.surface = shown
  BY <1>4, <1>10 DEF Proposal
<1>12. CASE surface = "message" /\ Fault /\ proposals' = [proposals EXCEPT ![i] = q]
            /\ scan' = Idle /\ UNCHANGED exec
  <2>1. faults' # 0
    BY <1>1, <1>12, FaultCounted
  <2>2. q.status = "pending" /\ mode = "autonomous" => q.surface \in { "none", "self" }
    BY <1>4
  <2>3. /\ scan' \in ScanRow /\ ScanSound' /\ \A t \in Symbols : scan'.does[t] # "enter"
    BY <1>12, ScanStops
  <2>4. QED
    BY <1>1, <1>2, <1>4, <1>8, <1>9, <1>12, <2>1, <2>2, <2>3, RowAdded
<1>13. CASE /\ proposals' = [proposals EXCEPT ![i] = r]
            /\ scan' = kept
            /\ exec' = IF surface = "self"
                         THEN [exec EXCEPT !["scanner"] = [id |-> i, step |-> "check"]] ELSE exec
            /\ UNCHANGED faults
  <2>1. /\ scan' \in ScanRow /\ scan'.pc = "offer"
        /\ scan'.group = IF surface = "group" THEN scan.group \cup { i } ELSE scan.group
        /\ scan'.batch = IF surface = "batch" THEN scan.batch \cup { i } ELSE scan.batch
        /\ scan'.does = done_with(s).does /\ scan'.held = done_with(s).held
    <3>1. /\ done_with(s) \in ScanRow /\ done_with(s).pc = "offer"
          /\ done_with(s).group = scan.group /\ done_with(s).batch = scan.batch
      BY <1>1, <1>2, DoneWith DEF At
    <3>2. QED
      BY <1>13, <3>1 DEF ScanRow
  <2>2. \A t \in Symbols : scan'.does[t] = "enter" => scan.does[t] = "enter" /\ t # s
    BY <1>1, <2>1, DoneWith
  <2>3. ScanSound'
    <3>1. \A t \in Symbols : scan'.does[t] \in { "exit", "emergency", "unpriced" } => scan'.held[t] >= 1
      BY <1>1, <2>1, DoneWith DEF ScanSound
    <3>2. \A j \in scan'.group : proposals'[j].status # "none" /\ proposals'[j].side = "sell"
      <4>1. proposals'[i] = r /\ \A j \in Ids \ { i } : proposals'[j] = proposals[j]
        BY <1>1, <1>13 DEF TypeOK
      <4>2. \A j \in scan.group : j \in Ids \ { i } /\ proposals[j].status # "none" /\ proposals[j].side = "sell"
        BY <1>1, <1>2 DEF ScanSound, ScanRow
      <4>3. \A j \in scan.group : proposals'[j].status # "none" /\ proposals'[j].side = "sell"
        BY <4>1, <4>2
      <4>4. surface = "group" => r.status # "none" /\ r.side = "sell"
        BY <1>6, <1>11
      <4> HIDE DEF r
      <4>5. QED
        BY <2>1, <4>1, <4>3, <4>4
    <3>3. scan'.batch # {} => mode' = "batch"
      BY <1>1, <1>2, <1>6, <2>1 DEF ScanSound
    <3>4. QED
      BY <2>1, <3>1, <3>2, <3>3 DEF ScanSound, At
  <2>4. /\ exec' \in [Actors -> [id : 0..MaxProposals, step : Steps]]
        /\ exec'["listener"] = exec["listener"]
        /\ surface = "self" => exec'["scanner"] = [id |-> i, step |-> "check"]
        /\ surface # "self" => exec' = exec
    <3>1. i \in 0..MaxProposals
      BY BoundsAssumption DEF Ids
    <3>2. QED
      BY <1>1, <1>13, <3>1 DEF Actors, Steps
  <2>5. scan.group \subseteq scan'.group /\ scan.batch \subseteq scan'.batch
    BY <2>1
  <2>6. /\ \/ exec' = exec
           \/ /\ exec'["scanner"] = [id |-> i, step |-> "check"] /\ r.surface = "self"
              /\ r.status = "pending" /\ mode = "autonomous" /\ scan'.pc = "offer"
        /\ r.status = "pending" /\ mode = "autonomous" => r.surface \in { "none", "self" }
        /\ r.status = "pending" /\ mode # "autonomous" /\ faults' = 0 =>
             r.surface = "message" \/ i \in scan'.group \cup scan'.batch
    BY <1>6, <1>10, <1>11, <2>1, <2>4
  <2> HIDE DEF r, kept
  <2>7. r.status \in { "pending", "blocked" } /\ r.side \in { "buy", "sell" }
        /\ (r.side = "buy" <=> scan.does[s] = "enter")
    BY <1>4, <1>9, <1>11
  <2>8. QED
    BY <1>2, <1>8, <1>11, <1>13, <2>1, <2>2, <2>3, <2>4, <2>5, <2>6, <2>7, RowAdded
<1>14. QED
  BY <1>7, <1>12, <1>13

(***************************************************************************)
(* Answers, executions, and the world.                                     *)
(***************************************************************************)
ExecRow == [Actors -> [id : 0..MaxProposals, step : Steps]]

\* Beside the scan what waits only ends: all that is said about waiting
\* proposals stays true.
LEMMA WaitingKept ==
  ASSUME IInv, UNCHANGED << mode, scan >>, Fault \/ UNCHANGED faults,
         \A i \in Ids :
           /\ proposals'[i].sym = proposals[i].sym /\ proposals'[i].side = proposals[i].side
           /\ proposals'[i].status = "pending" =>
                Pending(i) /\ proposals'[i].surface = proposals[i].surface
           /\ proposals[i].status # "none" => proposals'[i].status # "none"
  PROVE  EnterUnpending' /\ EntriesUnique' /\ ScanSound' /\ AutonomousShowsSells' /\ ShownOrKept'
<1>1. EnterUnpending /\ EntriesUnique /\ ScanSound /\ AutonomousShowsSells /\ ShownOrKept
      /\ scan \in ScanRow
  BY ScanTyped DEF IInv
<1>2. EnterUnpending'
  BY <1>1 DEF EnterUnpending, Of, Pending
<1>3. EntriesUnique'
  BY <1>1 DEF EntriesUnique, Pending
<1>4. ScanSound'
  BY <1>1 DEF ScanSound, At, ScanRow
<1>5. AutonomousShowsSells'
  BY <1>1 DEF AutonomousShowsSells, Pending, answerable
<1>6. ShownOrKept'
  <2>1. faults' = 0 => faults = 0
    BY FaultCounted DEF IInv
  <2>2. QED
    BY <1>1, <2>1 DEF ShownOrKept, Pending, answerable
<1>7. QED
  BY <1>2, <1>3, <1>4, <1>5, <1>6

\* A step beside the scan without a new order or a fill.
LEMMA GentleStep ==
  ASSUME IInv, Rows', Gentle, BlockersKept, UNCHANGED << rotation, scan >>,
         Fault \/ UNCHANGED faults, exec' \in ExecRow, ExecSound', ExecIdle', IntentsHeld',
         \A a \in Actors : exec'[a].step = "submit" =>
           /\ exec'[a].id = exec[a].id /\ Reserved(a) /\ ContextHolds(a)
           /\ proposals'[exec[a].id].qty = proposals[exec[a].id].qty,
         \A i \in Ids : proposals'[i].status = "pending" =>
           proposals'[i].surface = proposals[i].surface
  PROVE  IInv'
<1>1. TypeOK'
  BY FaultCounted DEF IInv, TypeOK, Rows, Gentle, ExecRow, BlockersKept
<1>2. OrderSound' /\ SlotExclusive' /\ SellCovered' /\ EntriesUnique'
  BY GentleKeeps DEF IInv
<1>3. EnterUnpending' /\ ScanSound' /\ AutonomousShowsSells' /\ ShownOrKept'
  BY WaitingKept DEF Gentle
<1>4. OlderSound'
  BY GentleAges, OlderKept DEF IInv
<1>5. SubmitSound'
  <2>1. \A a \in Actors : ContextHolds(a) /\ proposals[exec[a].id].side = "sell" =>
          proposals[exec[a].id].qty <= held'[proposals[exec[a].id].sym]
    BY DEF ContextHolds, Gentle
  <2>2. QED
    BY <2>1, GentleAges, SubmitKept
<1>6. QED
  BY <1>1, <1>2, <1>3, <1>4, <1>5 DEF IInv

\* Two actors never execute one proposal.
LEMMA ExecutingApart ==
  ASSUME IInv, NEW a \in Actors, NEW b \in Actors, a # b,
         exec[a].step # "none", exec[b].step # "none"
  PROVE  exec[a].id # exec[b].id
BY DEF IInv, ExecSound, Executing, Actors

\* An actor about to submit has looked at the context.
LEMMA SubmitReady ==
  ASSUME IInv, NEW a \in Actors, exec[a].step = "submit"
  PROVE  Reserved(a) /\ ContextHolds(a)
BY DEF IInv, SubmitSound, Reserved

\* The proposal of an actor is refused with its intent, and the actor is free.
LEMMA RefuseKeeps ==
  ASSUME IInv, NEW a \in Actors, exec[a].step # "none", Refuse(a),
         UNCHANGED << mode, rotation, held, scan >>, BlockersKept,
         Fault \/ UNCHANGED faults
  PROVE  IInv'
<1> DEFINE i == exec[a].id
<1>1. /\ Rows /\ OrderSound /\ ExecSound /\ ExecIdle /\ IntentsHeld /\ exec \in ExecRow
  BY DEF IInv, TypeOK, Rows, ExecRow
<1>2. i \in Ids /\ proposals[i].order \in { "none", "reserved" }
  BY <1>1 DEF ExecSound, Executing
<1>3. /\ proposals'[i] \in Proposal
      /\ proposals'[i].sym = proposals[i].sym /\ proposals'[i].side = proposals[i].side
      /\ proposals'[i].status = "blocked"
      /\ proposals'[i].order = IF proposals[i].order = "reserved" THEN "done" ELSE "none"
  <2> DEFINE q == ended(proposals[i], "blocked")
  <2>1. /\ q \in Proposal /\ q.sym = proposals[i].sym /\ q.side = proposals[i].side
        /\ q.order = proposals[i].order /\ q.status = "blocked"
    BY <1>1, <1>2, EndedRow DEF Rows
  <2>2. proposals'[i] = [q EXCEPT !.order = IF @ = "reserved" THEN "done" ELSE @]
    BY <1>2 DEF Refuse, set_status
  <2> HIDE DEF q
  <2>3. QED
    BY <1>2, <2>1, <2>2 DEF Proposal
<1>4. \A j \in Ids : j # i => proposals'[j] = proposals[j]
  BY DEF Refuse, set_status
<1>5. Rows'
  <2>1. DOMAIN proposals' = Ids /\ proposals' = [j \in Ids |-> proposals'[j]]
    BY DEF Refuse, set_status
  <2>2. QED
    BY <1>1, <1>3, <1>4, <2>1 DEF Rows
<1>6. Gentle
  BY <1>2, <1>3, <1>4 DEF Gentle, Live, Pending
<1>7. exec' \in ExecRow /\ exec'[a] = NoExec /\ \A b \in Actors \ { a } : exec'[b] = exec[b]
  BY <1>1, BoundsAssumption DEF Refuse, ExecRow, NoExec, Steps
<1>8. ExecIdle'
  BY <1>1, <1>7 DEF ExecIdle
<1>9. \A b \in Actors : exec'[b].step # "none" =>
        /\ b # a /\ exec'[b] = exec[b] /\ exec[b].step # "none"
        /\ exec[b].id \in Ids \ { i } /\ Executing(b)
  BY <1>1, <1>7, ExecutingApart DEF NoExec, ExecSound, Executing
<1>10. ExecSound'
  BY <1>4, <1>9 DEF ExecSound, Executing, Reserved, At
<1>11. IntentsHeld'
  BY <1>1, <1>3, <1>4, <1>7 DEF IntentsHeld, Reserved
<1>12. \A b \in Actors : exec'[b].step = "submit" =>
           /\ exec'[b].id = exec[b].id /\ Reserved(b) /\ ContextHolds(b)
           /\ proposals'[exec[b].id].qty = proposals[exec[b].id].qty
  BY <1>4, <1>9, SubmitReady
<1>13. \A j \in Ids : proposals'[j].status = "pending" =>
          proposals'[j].surface = proposals[j].surface
  BY <1>3, <1>4
<1>14. QED
  BY <1>5, <1>6, <1>7, <1>8, <1>10, <1>11, <1>12, <1>13, GentleStep

\* An actor goes on with its proposal, to the submission only if the context
\* holds.
LEMMA StepKeeps ==
  ASSUME IInv, NEW a \in Actors, exec[a].step # "none",
         NEW st \in { "capture", "create", "submit" }, step_to(a, st),
         st = "submit" <=> Reserved(a), st = "submit" => ContextHolds(a),
         UNCHANGED << mode, rotation, held, scan, proposals >>, BlockersKept,
         Fault \/ UNCHANGED faults
  PROVE  IInv'
<1>1. /\ exec \in ExecRow /\ ExecSound /\ ExecIdle /\ IntentsHeld /\ Rows
  BY DEF IInv, TypeOK, ExecRow, Rows
<1>2. /\ exec' \in ExecRow /\ exec'[a].id = exec[a].id /\ exec'[a].step = st
      /\ \A b \in Actors \ { a } : exec'[b] = exec[b]
  BY <1>1 DEF step_to, ExecRow, Steps
<1>3. \A b \in Actors : exec'[b].id = exec[b].id /\ (Reserved(b)' <=> Reserved(b))
  BY <1>2 DEF Reserved
<1>4. ExecIdle'
  BY <1>1, <1>2 DEF ExecIdle
<1>5. ExecSound'
  BY <1>1, <1>2, <1>3 DEF ExecSound, Executing, At
<1>6. IntentsHeld'
  BY <1>1, <1>3 DEF IntentsHeld
<1>7. Gentle /\ Rows'
  BY <1>1, SameRows DEF Rows
<1>8. \A b \in Actors : exec'[b].step = "submit" =>
           /\ exec'[b].id = exec[b].id /\ Reserved(b) /\ ContextHolds(b)
           /\ proposals'[exec[b].id].qty = proposals[exec[b].id].qty
  BY <1>2, SubmitReady
<1>9. QED
  BY <1>2, <1>4, <1>5, <1>6, <1>7, <1>8, GentleStep

\* The final revalidation refuses, or lets its proposal on to the executor.
LEMMA FinalCheckKeeps ==
  ASSUME IInv, NEW a \in Actors, FinalCheck(a)
  PROVE  IInv'
<1>1. exec[a].step = "check" /\ UNCHANGED << mode, rotation, held, scan >>
  BY DEF FinalCheck
<1>2. PICK r \in { Read, EmptyRead } :
        /\ read_for_portfolio(r)
        /\ \/ Refuse(a) /\ (observe(r, {}) \/ UNCHANGED blockers)
           \/ observe(r, {}) /\ step_to(a, "capture") /\ UNCHANGED proposals
  BY DEF FinalCheck
<1>3. BlockersKept
  BY <1>2, ReadTypes, ObservedKept, BlockersUnchanged DEF IInv
<1>4. Fault \/ UNCHANGED faults
  BY <1>2 DEF read_for_portfolio
<1>5. CASE Refuse(a)
  BY <1>1, <1>3, <1>4, <1>5, RefuseKeeps
<1>6. CASE step_to(a, "capture") /\ UNCHANGED proposals
  BY <1>1, <1>3, <1>4, <1>6, StepKeeps DEF Reserved
<1>7. QED
  BY <1>2, <1>5, <1>6

\* The first look at the context refuses, or goes on.
LEMMA CaptureKeeps ==
  ASSUME IInv, NEW a \in Actors, Capture(a)
  PROVE  IInv'
<1>1. /\ exec[a].step = "capture" /\ UNCHANGED << mode, rotation, held, scan, faults >>
      /\ BlockersKept
  BY BlockersUnchanged DEF Capture, IInv
<1>2. CASE Refuse(a)
  BY <1>1, <1>2, RefuseKeeps
<1>3. CASE step_to(a, "create") /\ UNCHANGED proposals
  BY <1>1, <1>3, StepKeeps DEF Reserved
<1>4. QED
  BY <1>2, <1>3 DEF Capture

\* The last look at the context refuses, or finds what the submission relies
\* on: a buy without any exit in the blocker's rows and the sell intents.
LEMMA VerifyKeeps ==
  ASSUME IInv, NEW a \in Actors, VerifyBeforeBroker(a)
  PROVE  IInv'
<1>1. exec[a].step = "verify" /\ UNCHANGED << mode, rotation, held, blocker, scan, faults >>
  BY DEF VerifyBeforeBroker
<1>2. CASE Refuse(a) /\ older' = [older EXCEPT ![a] = NoneOlder]
  <2>1. BlockersKept
    BY <1>1, <1>2 DEF BlockersKept, NoneOlder, IInv, TypeOK, OlderSound
  <2>2. QED
    BY <1>1, <1>2, <2>1, RefuseKeeps
<1>3. CASE verified_context(exec[a].id) /\ step_to(a, "submit") /\ UNCHANGED << proposals, older >>
  <2>1. BlockersKept
    BY <1>1, <1>3, BlockersUnchanged DEF IInv, blockers
  <2>2. ContextHolds(a)
    BY <1>3 DEF verified_context, ContextHolds, IInv, OlderSound
  <2>3. QED
    BY <1>1, <1>3, <2>1, <2>2, StepKeeps DEF Reserved
<1>4. QED
  BY <1>2, <1>3 DEF VerifyBeforeBroker

\* The row of a proposal with its intent.
reserved_row(q) == [q EXCEPT !.order = "reserved", !.left = q.qty]

\* A row that gets an intent keeps all but the order.
LEMMA ReservedRow ==
  ASSUME NEW q \in Proposal
  PROVE  /\ reserved_row(q) \in Proposal
         /\ reserved_row(q).sym = q.sym /\ reserved_row(q).side = q.side
         /\ reserved_row(q).qty = q.qty /\ reserved_row(q).left = q.qty
         /\ reserved_row(q).order = "reserved" /\ reserved_row(q).status = q.status
         /\ reserved_row(q).surface = q.surface
BY DEF reserved_row, Proposal

\* An intent is created in a free slot; the actor records the exits that are
\* there if it is for a buy.
LEMMA CreatedKeeps ==
  ASSUME IInv, NEW a \in Actors, exec[a].step = "create", NEW i \in Ids, i = exec[a].id,
         slot_is_free(proposals[i]),
         proposals' = [proposals EXCEPT ![i] = reserved_row(proposals[i])],
         step_to(a, "verify"),
         older' = [older EXCEPT ![a] =
                     IF proposals[i].side = "buy"
                       THEN [sells |-> active_sells, row |-> blocker # {}] ELSE @],
         UNCHANGED << mode, rotation, held, blocker, scan, faults >>
  PROVE  IInv'
<1>1. /\ Rows /\ OrderSound /\ ExecSound /\ ExecIdle /\ IntentsHeld /\ exec \in ExecRow
      /\ SlotExclusive /\ SellCovered /\ OlderSound /\ TypeOK
  BY DEF IInv, TypeOK, Rows, ExecRow
<1>2. /\ Executing(a) /\ proposals[i].order = "none" /\ proposals[i].qty >= 1
      /\ proposals[i].status # "none" /\ proposals[i] \in Proposal
  BY <1>1 DEF ExecSound, Executing, Reserved, Rows, Actors
<1>3. /\ proposals'[i] = reserved_row(proposals[i])
      /\ \A j \in Ids : j # i => proposals'[j] = proposals[j]
  BY <1>1 DEF Rows
<1>4. /\ proposals'[i] \in Proposal
      /\ proposals'[i].sym = proposals[i].sym /\ proposals'[i].side = proposals[i].side
      /\ proposals'[i].qty = proposals[i].qty /\ proposals'[i].left = proposals[i].qty
      /\ proposals'[i].order = "reserved" /\ proposals'[i].status = proposals[i].status
      /\ proposals'[i].surface = proposals[i].surface
  BY <1>2, <1>3, ReservedRow
<1>5. Rows'
  BY <1>1, <1>4, <1>3 DEF Rows
<1>6. /\ exec' \in ExecRow /\ exec'[a].id = i /\ exec'[a].step = "verify"
      /\ \A b \in Actors \ { a } : exec'[b] = exec[b]
  BY <1>1 DEF step_to, ExecRow, Steps
<1>7. /\ older' \in [Actors -> [sells : SUBSET Ids, row : BOOLEAN]]
      /\ \A b \in Actors \ { a } : older'[b] = older[b]
      /\ older'[a].sells \subseteq older[a].sells \cup active_sells
      /\ older'[a].row => older[a].row \/ blocker # {}
  <2>1. active_sells \in SUBSET Ids
    BY DEF active_sells
  <2>2. CASE proposals[i].side = "buy"
    BY <1>1, <2>1, <2>2 DEF TypeOK
  <2>3. CASE proposals[i].side # "buy"
    BY <1>1, <2>3 DEF TypeOK
  <2>4. QED
    BY <2>2, <2>3
<1>8. TypeOK'
  BY <1>1, <1>5, <1>6, <1>7 DEF TypeOK, Rows, ExecRow
<1>9. OrderSound'
  BY <1>1, <1>2, <1>3, <1>4 DEF OrderSound, Live, Pending
<1>10. SlotExclusive'
  <2> SUFFICES ASSUME NEW j \in Ids, NEW k \in Ids, Active(j)', Active(k)',
                      proposals'[j].sym = proposals'[k].sym, proposals'[j].side = proposals'[k].side
      PROVE  j = k
    BY DEF SlotExclusive
  <2>1. \A l \in Ids : l # i /\ Active(l) => ~ ( /\ proposals[l].sym = proposals[i].sym
                                              /\ proposals[l].side = proposals[i].side )
    BY DEF slot_is_free, Of
  <2>2. \A l \in Ids : l # i /\ Active(l)' => Active(l)
    BY <1>3 DEF Active
  <2>3. CASE j # i /\ k # i
    BY <1>1, <1>3, <2>2, <2>3 DEF SlotExclusive
  <2>4. CASE j = i /\ k # i
    BY <1>3, <1>4, <2>1, <2>2, <2>4
  <2>5. CASE j # i /\ k = i
    BY <1>3, <1>4, <2>1, <2>2, <2>5
  <2>6. QED
    BY <2>3, <2>4, <2>5
<1>11. SellCovered'
  BY <1>1, <1>3, <1>4 DEF SellCovered, Live
<1>12. ExecIdle'
  BY <1>1, <1>6 DEF ExecIdle
<1>13. \A b \in Actors : b # a /\ exec[b].step # "none" =>
          exec[b].id \in Ids \ { i } /\ Executing(b)
  BY <1>1, ExecutingApart DEF ExecSound, Executing
<1>14. ExecSound'
  <2>1. Executing(a)'
    BY <1>2, <1>4, <1>6 DEF Executing, Reserved, At
  <2>2. ASSUME NEW b \in Actors, b # a, exec'[b].step # "none" PROVE Executing(b)'
    BY <1>3, <1>6, <1>13, <2>2 DEF Executing, Reserved, At
  <2>3. QED
    BY <2>1, <2>2 DEF ExecSound
<1>15. IntentsHeld'
  <2> SUFFICES ASSUME NEW j \in Ids, proposals'[j].order = "reserved"
      PROVE  \E b \in Actors : exec'[b].id = j /\ Reserved(b)'
    BY DEF IntentsHeld
  <2>1. CASE j = i
    BY <1>6, <2>1 DEF Reserved
  <2>2. CASE j # i
    <3>1. PICK b \in Actors : exec[b].id = j /\ Reserved(b)
      BY <1>1, <1>3, <2>2 DEF IntentsHeld
    <3>2. QED
      BY <1>6, <2>2, <3>1 DEF Reserved
  <2>3. QED
    BY <2>1, <2>2
<1>16. OrdersAge
  BY <1>2, <1>3 DEF OrdersAge, Active
<1>17. OlderSound'
  <2> SUFFICES ASSUME NEW b \in Actors
      PROVE  /\ older'[b].row => blocker' # {}
             /\ \A j \in older'[b].sells : proposals'[j].order # "none"
    BY DEF OlderSound
  <2>1. older'[b].row => blocker' # {}
    BY <1>1, <1>7 DEF OlderSound
  <2>2. ASSUME NEW j \in older'[b].sells PROVE proposals'[j].order # "none"
    <3>1. j \in Ids /\ proposals[j].order # "none"
      BY <1>1, <1>7, <2>2 DEF OlderSound, active_sells, Active, TypeOK
    <3>2. QED
      BY <1>16, <3>1 DEF OrdersAge
  <2>3. QED
    BY <2>1, <2>2
<1>18. SubmitSound'
  <2> SUFFICES ASSUME NEW b \in Actors, exec'[b].step = "submit" PROVE ContextHolds(b)'
    BY DEF SubmitSound
  <2>1. b # a /\ exec'[b] = exec[b] /\ older'[b] = older[b] /\ ContextHolds(b)
    BY <1>6, <1>7, SubmitReady
  <2>2. proposals'[exec[b].id] = proposals[exec[b].id]
    BY <1>3, <1>13, <2>1
  <2>3. CASE proposals[exec[b].id].side = "sell"
    BY <2>1, <2>2, <2>3 DEF ContextHolds
  <2>4. CASE proposals[exec[b].id].side # "sell"
    <3>1. \A j \in older[b].sells : j \in active_sells' => j \in active_sells
      BY <1>1, <1>16 DEF OlderSound, OrdersAge, active_sells, Active
    <3>2. QED
      BY <2>1, <2>2, <2>4, <3>1 DEF ContextHolds
  <2>5. QED
    BY <2>3, <2>4
<1>19. EnterUnpending' /\ EntriesUnique' /\ ScanSound' /\ AutonomousShowsSells' /\ ShownOrKept'
  <2>1. \A j \in Ids :
           /\ proposals'[j].sym = proposals[j].sym /\ proposals'[j].side = proposals[j].side
           /\ proposals'[j].status = "pending" =>
                Pending(j) /\ proposals'[j].surface = proposals[j].surface
           /\ proposals[j].status # "none" => proposals'[j].status # "none"
    BY <1>3, <1>4 DEF Pending
  <2>2. QED
    BY <2>1, WaitingKept
<1>20. QED
  BY <1>8, <1>9, <1>10, <1>11, <1>12, <1>14, <1>15, <1>17, <1>18, <1>19 DEF IInv

\* The executor refuses, or creates the intent.
LEMMA CreateIntentKeeps ==
  ASSUME IInv, NEW a \in Actors, CreateIntent(a)
  PROVE  IInv'
<1> DEFINE i == exec[a].id
<1>1. /\ exec[a].step = "create" /\ i \in Ids
      /\ UNCHANGED << mode, rotation, held, blocker, scan, faults >>
  BY DEF CreateIntent, IInv, ExecSound, Executing
<1>2. CASE Refuse(a) /\ UNCHANGED older
  <2>1. BlockersKept
    BY <1>1, <1>2, BlockersUnchanged DEF IInv, blockers
  <2>2. QED
    BY <1>1, <1>2, <2>1, RefuseKeeps
<1>3. CASE ~ (Refuse(a) /\ UNCHANGED older)
  <2>1. /\ slot_is_free(proposals[i])
        /\ proposals' = [proposals EXCEPT ![i] = reserved_row(proposals[i])]
        /\ step_to(a, "verify")
        /\ older' = [older EXCEPT ![a] =
                       IF proposals[i].side = "buy"
                         THEN [sells |-> active_sells, row |-> blocker # {}] ELSE @]
    BY <1>3 DEF CreateIntent, reserved_row
  <2>2. QED
    BY <1>1, <2>1, CreatedKeeps
<1>4. QED
  BY <1>2, <1>3

\* YES, NO, or too late.
LEMMA AnswerKeeps ==
  ASSUME IInv, NEW i \in Ids, Answer(i)
  PROVE  IInv'
<1>1. /\ Rows /\ OrderSound /\ ExecSound /\ ExecIdle /\ IntentsHeld /\ exec \in ExecRow
      /\ AutonomousShowsSells
  BY DEF IInv, TypeOK, Rows, ExecRow
<1>2. /\ Pending(i) /\ answerable(i) /\ exec["listener"].step = "none"
      /\ proposals[i].order \in { "none", "reserved" } /\ proposals[i].qty >= 1
      /\ UNCHANGED << mode, rotation, held, blockers, scan, faults >> /\ BlockersKept
  BY <1>1, BlockersUnchanged DEF Answer, NoExec, OrderSound, IInv
<1>3. \A a \in Actors : exec[a].step # "none" => exec[a].id # i /\ a = "scanner"
  BY <1>1, <1>2 DEF ExecSound, Executing, answerable, Actors
<1>4. proposals[i].order = "none"
  BY <1>1, <1>2, <1>3 DEF IntentsHeld, Reserved
<1>5. CASE proposals' = set_status({ i }, "closed") /\ UNCHANGED exec
  <2>1. /\ Rows' /\ Gentle
        /\ \A j \in Ids : j # i => proposals'[j] = proposals[j]
        /\ \A j \in Ids : proposals'[j].status = "pending" => proposals'[j] = proposals[j]
    <3> DEFINE I == { i }
    <3>1. /\ proposals' = set_status(I, "closed") /\ \A j \in I : ~ Live(j)
          /\ \A j \in Ids : j # i => j \notin I
      BY <1>2, <1>5 DEF Live
    <3> HIDE DEF I
    <3>2. QED
      BY <1>1, <1>2, <3>1, EndedRows
  <2>2. \A a \in Actors : exec[a].step # "none" =>
          exec[a].id \in Ids /\ proposals'[exec[a].id] = proposals[exec[a].id]
    BY <1>1, <1>3, <2>1 DEF ExecSound, Executing
  <2>3. ExecSound' /\ ExecIdle'
    <3>1. UNCHANGED << mode, scan, exec >>
      BY <1>2, <1>5
    <3>2. \A a \in Actors : exec[a].step # "none" => Executing(a)'
      BY <1>1, <2>2, <3>1 DEF ExecSound, Executing, Reserved, At
    <3>3. QED
      BY <1>1, <3>1, <3>2 DEF ExecSound, ExecIdle
  <2>4. IntentsHeld'
    <3>1. UNCHANGED exec
      BY <1>5
    <3>2. \A j \in Ids : proposals'[j].order = "reserved" => proposals[j].order = "reserved"
      BY <2>1 DEF Gentle
    <3>3. QED
      BY <1>1, <3>1, <3>2, IntentsKept
  <2>5. \A a \in Actors : exec'[a].step = "submit" =>
           /\ exec'[a].id = exec[a].id /\ Reserved(a) /\ ContextHolds(a)
           /\ proposals'[exec[a].id].qty = proposals[exec[a].id].qty
    BY <1>5, <2>2, SubmitReady
  <2>6. exec' \in ExecRow /\ \A j \in Ids : proposals'[j].status = "pending" =>
          proposals'[j].surface = proposals[j].surface
    BY <1>1, <1>5, <2>1
  <2>7. QED
    BY <1>2, <2>1, <2>3, <2>4, <2>5, <2>6, GentleStep
<1>6. CASE /\ proposals' = set_status({ i }, "approved")
           /\ exec' = [exec EXCEPT !["listener"] = [id |-> i, step |-> "check"]]
  <2>1. /\ proposals'[i] = [proposals[i] EXCEPT !.status = "approved"]
        /\ \A j \in Ids : j # i => proposals'[j] = proposals[j]
    BY <1>6 DEF set_status
  <2>2. /\ proposals'[i].sym = proposals[i].sym /\ proposals'[i].side = proposals[i].side
        /\ proposals'[i].order = proposals[i].order /\ proposals'[i].qty = proposals[i].qty
        /\ proposals'[i].left = proposals[i].left
        /\ proposals'[i].status = "approved" /\ proposals'[i] \in Proposal
    BY <1>1, <2>1 DEF Rows, Proposal
  <2>3. Rows'
    BY <1>1, <1>6, <2>1, <2>2 DEF Rows, set_status
  <2>4. Gentle
    BY <1>2, <2>1, <2>2 DEF Gentle, Live, Pending
  <2>5. /\ exec' \in ExecRow /\ exec'["listener"] = [id |-> i, step |-> "check"]
        /\ exec'["scanner"] = exec["scanner"]
    BY <1>1, <1>6, BoundsAssumption DEF ExecRow, Actors, Ids, Steps
  <2>6. Executing("listener")'
    BY <1>1, <1>2, <1>4, <2>2, <2>5 DEF Executing, Reserved, AutonomousShowsSells
  <2>7. exec["scanner"].step # "none" => Executing("scanner")'
    BY <1>1, <1>2, <1>3, <2>1, <2>5 DEF ExecSound, Executing, Reserved, At, Actors
  <2>8. ExecSound' /\ ExecIdle'
    BY <1>1, <2>5, <2>6, <2>7 DEF ExecSound, ExecIdle, Actors
  <2>9. \A j \in Ids : proposals'[j].status = "pending" => proposals'[j].surface = proposals[j].surface
    BY <2>1, <2>2
  <2>10. IntentsHeld'
    <3>1. \A j \in Ids : proposals'[j].order = "reserved" => proposals[j].order = "reserved"
      BY <2>1, <2>2
    <3>2. \A a \in Actors : Reserved(a) => exec'[a] = exec[a]
      BY <1>2, <2>5 DEF Reserved, Actors
    <3>3. QED
      BY <1>1, <3>1, <3>2, IntentsKept
  <2>11. \A a \in Actors : exec'[a].step = "submit" =>
           /\ exec'[a].id = exec[a].id /\ Reserved(a) /\ ContextHolds(a)
           /\ proposals'[exec[a].id].qty = proposals[exec[a].id].qty
    <3> SUFFICES ASSUME NEW a \in Actors, exec'[a].step = "submit"
        PROVE  /\ exec'[a].id = exec[a].id /\ Reserved(a) /\ ContextHolds(a)
               /\ proposals'[exec[a].id].qty = proposals[exec[a].id].qty
      OBVIOUS
    <3>1. a = "scanner" /\ exec'[a] = exec[a]
      BY <2>5 DEF Actors
    <3>2. exec[a].id \in Ids \ { i }
      BY <1>1, <1>3, <3>1 DEF ExecSound, Executing
    <3>3. QED
      BY <2>1, <3>1, <3>2, SubmitReady
  <2>12. QED
    BY <1>2, <2>3, <2>4, <2>5, <2>8, <2>9, <2>10, <2>11, GentleStep
<1>7. QED
  BY <1>5, <1>6 DEF Answer

\* An open order ends unfilled.
LEMMA CancelKeeps ==
  ASSUME IInv, NEW i \in Ids, Cancel(i)
  PROVE  IInv'
<1>1. /\ Rows /\ OrderSound /\ ExecSound /\ ExecIdle /\ IntentsHeld /\ exec \in ExecRow
  BY DEF IInv, TypeOK, Rows, ExecRow
<1>2. /\ Live(i) /\ proposals' = [proposals EXCEPT ![i].order = "done"] /\ ~ Pending(i)
      /\ UNCHANGED << mode, rotation, held, blockers, scan, exec, faults >> /\ BlockersKept
  BY <1>1, BlockersUnchanged DEF Cancel, OrderSound, Live, IInv
<1>3. /\ proposals'[i] = [proposals[i] EXCEPT !.order = "done"]
      /\ \A j \in Ids : j # i => proposals'[j] = proposals[j]
  BY <1>1, <1>2 DEF Rows
<1>4. /\ proposals'[i].sym = proposals[i].sym /\ proposals'[i].side = proposals[i].side
      /\ proposals'[i].order = "done" /\ proposals'[i].status = proposals[i].status
      /\ proposals'[i] \in Proposal
  BY <1>1, <1>3 DEF Rows, Proposal
<1>5. Rows'
  BY <1>1, <1>2, <1>4 DEF Rows
<1>6. Gentle
  BY <1>2, <1>3, <1>4 DEF Gentle, Live, Pending
<1>7. \A a \in Actors : exec[a].step # "none" => exec[a].id # i
  BY <1>1, <1>2 DEF ExecSound, Executing, Live
<1>8. ExecSound' /\ ExecIdle'
  BY <1>1, <1>2, <1>3, <1>7 DEF ExecSound, ExecIdle, Executing, Reserved, At
<1>9. IntentsHeld'
  BY <1>1, <1>2, <1>3, <1>4 DEF IntentsHeld, Reserved
<1>10. \A a \in Actors : exec'[a].step = "submit" =>
           /\ exec'[a].id = exec[a].id /\ Reserved(a) /\ ContextHolds(a)
           /\ proposals'[exec[a].id].qty = proposals[exec[a].id].qty
  <2>1. \A a \in Actors : exec[a].step # "none" => exec[a].id \in Ids \ { i }
    BY <1>1, <1>7 DEF ExecSound, Executing
  <2>2. QED
    BY <1>2, <1>3, <2>1, SubmitReady
<1>11. \A j \in Ids : proposals'[j].status = "pending" =>
          proposals'[j].surface = proposals[j].surface
  BY <1>2, <1>3, <1>4 DEF Pending
<1>12. QED
  BY <1>1, <1>2, <1>5, <1>6, <1>8, <1>9, <1>10, <1>11, GentleStep

\* Time passes.
LEMMA AgeKeeps ==
  ASSUME IInv, NEW i \in Ids, Age(i)
  PROVE  IInv'
<1>1. /\ Rows /\ OrderSound /\ ExecSound /\ ExecIdle /\ IntentsHeld /\ exec \in ExecRow
  BY DEF IInv, TypeOK, Rows, ExecRow
<1>2. /\ proposals' = [proposals EXCEPT ![i].due = TRUE]
      /\ UNCHANGED << mode, rotation, held, blockers, scan, exec, faults >> /\ BlockersKept
  BY BlockersUnchanged DEF Age, IInv
<1>3. /\ proposals'[i] = [proposals[i] EXCEPT !.due = TRUE]
      /\ \A j \in Ids : j # i => proposals'[j] = proposals[j]
  BY <1>1, <1>2 DEF Rows
<1>4. /\ proposals'[i].sym = proposals[i].sym /\ proposals'[i].side = proposals[i].side
      /\ proposals'[i].order = proposals[i].order /\ proposals'[i].status = proposals[i].status
      /\ proposals'[i].left = proposals[i].left /\ proposals'[i].qty = proposals[i].qty
      /\ proposals'[i].surface = proposals[i].surface
      /\ proposals'[i] \in Proposal
  BY <1>1, <1>3 DEF Rows, Proposal
<1>5. Rows'
  BY <1>1, <1>2, <1>4 DEF Rows
<1>6. Gentle
  BY <1>2, <1>3, <1>4 DEF Gentle, Live, Pending
<1>7. ExecSound' /\ ExecIdle'
  BY <1>1, <1>2, <1>3, <1>4 DEF ExecSound, ExecIdle, Executing, Reserved, At
<1>8. IntentsHeld'
  BY <1>1, <1>2, <1>3, <1>4 DEF IntentsHeld, Reserved
<1>9. \A a \in Actors : exec'[a].step = "submit" =>
           /\ exec'[a].id = exec[a].id /\ Reserved(a) /\ ContextHolds(a)
           /\ proposals'[exec[a].id].qty = proposals[exec[a].id].qty
  <2>1. \A a \in Actors : exec[a].step # "none" => exec[a].id \in Ids
    BY <1>1 DEF ExecSound, Executing
  <2>2. QED
    BY <1>2, <1>3, <1>4, <2>1, SubmitReady
<1>10. \A j \in Ids : proposals'[j].surface = proposals[j].surface
  BY <1>3, <1>4
<1>11. QED
  BY <1>1, <1>2, <1>5, <1>6, <1>7, <1>8, <1>9, <1>10, GentleStep

\* What the executor writes of the proposal that it sends.
sent_row(q) == [q EXCEPT !.status = "submitted", !.order = "live"]

\* A row that is sent keeps what it is about.
LEMMA SentRow ==
  ASSUME NEW q \in Proposal
  PROVE  /\ sent_row(q) \in Proposal
         /\ sent_row(q).sym = q.sym /\ sent_row(q).side = q.side
         /\ sent_row(q).status = "submitted" /\ sent_row(q).order = "live"
         /\ sent_row(q).left = q.left
BY DEF sent_row, Proposal

\* An order leaves from its intent, within the holding, and no proposal in the
\* hands of the other actor gives way to it.
LEMMA SentKeeps ==
  ASSUME IInv, NEW a \in Actors, exec[a].step = "submit", NEW i \in Ids, i = exec[a].id,
         proposals' =
           [j \in Ids |->
              IF j = i THEN sent_row(proposals[i])
              ELSE IF proposals[i].side = "buy" /\ j \in superseded_by(i)
                THEN ended(proposals[j], "closed")
              ELSE proposals[j]],
         exec' = [exec EXCEPT ![a] = NoExec], BlockersKept,
         UNCHANGED << mode, rotation, held, scan, faults >>
  PROVE  IInv'
<1>1. /\ Rows /\ OrderSound /\ ExecSound /\ ExecIdle /\ IntentsHeld /\ exec \in ExecRow
      /\ SlotExclusive /\ SellCovered /\ TypeOK /\ OlderSound
  BY DEF IInv, TypeOK, Rows, ExecRow
<1>2. /\ Executing(a) /\ ContextHolds(a) /\ proposals[i].order = "reserved"
      /\ proposals[i].left = proposals[i].qty /\ proposals[i].qty >= 1
      /\ \A j \in Ids : proposals[j] \in Proposal
  BY <1>1, SubmitReady DEF ExecSound, Executing, Reserved, Rows
<1> DEFINE S == IF proposals[i].side = "buy" THEN superseded_by(i) ELSE {}
<1>3. /\ proposals'[i] = sent_row(proposals[i])
      /\ \A j \in Ids : j # i => proposals'[j] = IF j \in S THEN ended(proposals[j], "closed")
                                                 ELSE proposals[j]
  OBVIOUS
<1>4. \A j \in S : j \in Ids /\ j # i /\ Pending(j) /\ ~ Live(j)
  BY <1>1 DEF superseded_by, Of, OrderSound, Live
<1>5. S # {} => proposals[i].side = "buy"
  OBVIOUS
<1> HIDE DEF S
<1>6. \A j \in Ids : j # i =>
        /\ proposals'[j] \in Proposal
        /\ proposals'[j].sym = proposals[j].sym /\ proposals'[j].side = proposals[j].side
        /\ proposals'[j].order = proposals[j].order
        /\ j \notin S => proposals'[j] = proposals[j]
        /\ j \in S => proposals'[j].status = "closed"
  BY <1>2, <1>3, EndedRow
<1>7. /\ proposals'[i] \in Proposal
      /\ proposals'[i].sym = proposals[i].sym /\ proposals'[i].side = proposals[i].side
      /\ proposals'[i].status = "submitted" /\ proposals'[i].order = "live"
      /\ proposals'[i].left = proposals[i].qty
  BY <1>2, <1>3, SentRow
<1>8. Rows'
  BY <1>6, <1>7 DEF Rows
<1>9. exec' \in ExecRow /\ exec'[a] = NoExec /\ \A b \in Actors \ { a } : exec'[b] = exec[b]
  BY <1>1, BoundsAssumption DEF ExecRow, NoExec, Steps
<1>10. TypeOK'
  BY <1>1, <1>8, <1>9 DEF TypeOK, Rows, ExecRow, BlockersKept
<1>11. \A j \in Ids :
         /\ j # i /\ proposals'[j].order = "live" => proposals'[j] = proposals[j] /\ Live(j)
         /\ proposals'[j].status = "pending" => proposals'[j] = proposals[j] /\ j # i
  BY <1>4, <1>6, <1>7 DEF Live
<1>12. OrderSound'
  <2> SUFFICES ASSUME NEW j \in Ids
      PROVE  /\ proposals'[j].order # "none" => proposals'[j].status # "none"
             /\ proposals'[j].order = "live" => proposals'[j].left >= 1
             /\ proposals'[j].status = "pending" =>
                  proposals'[j].order \in { "none", "reserved" } /\ proposals'[j].qty >= 1
    BY DEF OrderSound, Live, Pending
  <2>1. CASE j = i
    BY <1>2, <1>7, <2>1
  <2>2. CASE j # i
    <3>1. proposals'[j].order # "none" => proposals'[j].status # "none"
      BY <1>1, <1>6, <2>2 DEF OrderSound
    <3>2. QED
      BY <1>1, <1>11, <2>2, <3>1 DEF OrderSound, Live, Pending
  <2>3. QED
    BY <2>1, <2>2
<1>13. SlotExclusive'
  <2>1. \A j \in Ids : Active(j)' =>
          /\ Active(j)
          /\ proposals'[j].sym = proposals[j].sym /\ proposals'[j].side = proposals[j].side
    BY <1>2, <1>6, <1>7 DEF Active
  <2>2. QED
    BY <1>1, <2>1 DEF SlotExclusive
<1>14. SellCovered'
  <2> SUFFICES ASSUME NEW j \in Ids, proposals'[j].order = "live", proposals'[j].side = "sell"
      PROVE  proposals'[j].left <= held'[proposals'[j].sym]
    BY DEF SellCovered, Live
  <2>1. CASE j = i
    BY <1>2, <1>7, <2>1 DEF ContextHolds
  <2>2. CASE j # i
    BY <1>1, <1>11, <2>2 DEF SellCovered
  <2>3. QED
    BY <2>1, <2>2
<1>15. ExecIdle'
  BY <1>1, <1>9 DEF ExecIdle
<1>16. \A b \in Actors : exec'[b].step # "none" =>
         /\ b # a /\ exec'[b] = exec[b] /\ exec[b].step # "none"
         /\ Executing(b) /\ exec[b].id \in Ids \ { i }
         /\ proposals'[exec[b].id] = proposals[exec[b].id]
  <2> SUFFICES ASSUME NEW b \in Actors, exec'[b].step # "none"
      PROVE  /\ b # a /\ exec'[b] = exec[b] /\ exec[b].step # "none"
             /\ Executing(b) /\ exec[b].id \in Ids \ { i }
             /\ proposals'[exec[b].id] = proposals[exec[b].id]
    OBVIOUS
  <2>1. b # a /\ exec'[b] = exec[b] /\ exec[b].step # "none"
    BY <1>9 DEF NoExec
  <2>2. Executing(b) /\ exec[b].id # i /\ exec[b].id \in Ids
    BY <1>1, <2>1, ExecutingApart DEF ExecSound, Executing
  <2>3. exec[b].id \notin S
    <3>1. SUFFICES ASSUME exec[b].id \in S PROVE FALSE
      OBVIOUS
    <3>2. proposals[exec[b].id].status = "pending" /\ proposals[i].side = "buy"
      BY <1>4, <1>5, <3>1 DEF Pending
    <3>3. b = "scanner" /\ a = "listener" /\ mode = "autonomous"
      BY <2>1, <2>2, <3>2 DEF Executing, Actors
    <3>4. proposals[i].side = "sell"
      BY <1>2, <3>3 DEF Executing
    <3>5. QED
      BY <3>2, <3>4
  <2>4. QED
    BY <1>6, <2>1, <2>2, <2>3
<1>17. ExecSound'
  BY <1>16 DEF ExecSound, Executing, Reserved, At
<1>18. IntentsHeld'
  <2>1. \A j \in Ids : proposals'[j].order = "reserved" =>
          j # i /\ proposals[j].order = "reserved"
    BY <1>6, <1>7
  <2>2. \A b \in Actors : exec[b].id # i => exec'[b] = exec[b]
    BY <1>9
  <2>3. QED
    BY <1>1, <2>1, <2>2, IntentsKept
<1>19. OrdersAge
  BY <1>2, <1>6, <1>7 DEF OrdersAge, Active
<1>20. OlderSound'
  BY <1>1, <1>19, OlderKept
<1>21. SubmitSound'
  <2>1. \A b \in Actors : exec'[b].step = "submit" =>
           /\ exec'[b].id = exec[b].id /\ Reserved(b) /\ ContextHolds(b)
           /\ proposals'[exec[b].id].qty = proposals[exec[b].id].qty
           /\ proposals[exec[b].id].side = "sell" =>
                proposals[exec[b].id].qty <= held'[proposals[exec[b].id].sym]
    BY <1>16, SubmitReady DEF ContextHolds
  <2>2. QED
    BY <1>19, <2>1, SubmitKept
<1>22. EnterUnpending' /\ EntriesUnique' /\ ScanSound' /\ AutonomousShowsSells' /\ ShownOrKept'
  <2>1. \A j \in Ids :
           /\ proposals'[j].sym = proposals[j].sym /\ proposals'[j].side = proposals[j].side
           /\ proposals'[j].status = "pending" =>
                Pending(j) /\ proposals'[j].surface = proposals[j].surface
           /\ proposals[j].status # "none" => proposals'[j].status # "none"
    BY <1>6, <1>7 DEF Pending
  <2>2. QED
    BY <2>1, WaitingKept
<1>23. QED
  BY <1>10, <1>12, <1>13, <1>14, <1>15, <1>17, <1>18, <1>20, <1>21, <1>22 DEF IInv

\* The broker refuses, or the order leaves.
LEMMA SubmitKeeps ==
  ASSUME IInv, NEW a \in Actors, Submit(a)
  PROVE  IInv'
<1> DEFINE i == exec[a].id
           q == proposals[i]
<1>1. /\ exec[a].step = "submit" /\ i \in Ids /\ older' = [older EXCEPT ![a] = NoneOlder]
      /\ UNCHANGED << mode, rotation, held, blocker, scan, faults >>
  BY DEF Submit, IInv, ExecSound, Executing
<1>2. BlockersKept
  BY <1>1 DEF BlockersKept, NoneOlder, IInv, TypeOK, OlderSound
<1>3. CASE Refuse(a)
  BY <1>1, <1>2, <1>3, RefuseKeeps
<1>4. CASE ~ Refuse(a)
  <2>1. /\ proposals' =
             [j \in Ids |->
                IF j = i THEN sent_row(q)
                ELSE IF q.side = "buy" /\ j \in superseded_by(i) THEN ended(proposals[j], "closed")
                ELSE proposals[j]]
        /\ exec' = [exec EXCEPT ![a] = NoExec]
    BY <1>4 DEF Submit, sent_row
  <2>2. QED
    BY <1>1, <1>2, <2>1, SentKeeps
<1>5. QED
  BY <1>3, <1>4

\* One unit of an open order is bought or sold.
LEMMA FillOneKeeps ==
  ASSUME IInv, NEW i \in Ids, FillOne(i)
  PROVE  IInv'
<1>1. /\ Rows /\ OrderSound /\ ExecSound /\ ExecIdle /\ IntentsHeld /\ exec \in ExecRow
      /\ SlotExclusive /\ SellCovered /\ OlderSound /\ TypeOK /\ held \in [Symbols -> 0..MaxHeld]
  BY DEF IInv, TypeOK, Rows, ExecRow
<1> DEFINE q == proposals[i]
           r == [q EXCEPT !.left = @ - 1, !.order = IF q.left = 1 THEN "done" ELSE @]
<1>2. /\ Live(i) /\ proposals' = [proposals EXCEPT ![i] = r]
      /\ UNCHANGED << mode, rotation, blockers, scan, exec, faults >> /\ BlockersKept
      /\ IF q.side = "sell"
           THEN held[q.sym] > 0 /\ held' = [held EXCEPT ![q.sym] = @ - 1]
           ELSE held[q.sym] < MaxHeld /\ held' = [held EXCEPT ![q.sym] = @ + 1]
  BY <1>1, BlockersUnchanged DEF FillOne, Rows
<1>3. q \in Proposal /\ q.left \in 0..MaxHeld /\ q.left >= 1 /\ q.order = "live"
      /\ q.sym \in Symbols /\ q.side \in { "buy", "sell" } /\ ~ Pending(i)
  BY <1>1, <1>2 DEF Rows, OrderSound, Live, Proposal
<1>4. proposals'[i] = r /\ \A j \in Ids : j # i => proposals'[j] = proposals[j]
  BY <1>1, <1>2 DEF Rows
<1>5. q.left - 1 \in 0..MaxHeld
  BY <1>3, BoundsAssumption
<1> HIDE DEF q
<1>6. /\ r \in Proposal /\ r.sym = q.sym /\ r.side = q.side /\ r.status = q.status
      /\ r.left = q.left - 1 /\ r.order = IF q.left = 1 THEN "done" ELSE "live"
      /\ r.surface = q.surface
  BY <1>3, <1>5 DEF Proposal
<1> HIDE DEF r
<1>7. /\ held' \in [Symbols -> 0..MaxHeld]
      /\ \A s \in Symbols : s # q.sym => held'[s] = held[s]
      /\ held'[q.sym] = IF q.side = "sell" THEN held[q.sym] - 1 ELSE held[q.sym] + 1
  BY <1>1, <1>2, <1>3, BoundsAssumption
<1>8. Rows'
  BY <1>1, <1>2, <1>6 DEF Rows
<1>9. TypeOK'
  BY <1>1, <1>2, <1>7, <1>8 DEF TypeOK, Rows, blockers
<1>10. OrderSound'
  BY <1>1, <1>3, <1>4, <1>6 DEF OrderSound, Live, Pending, q
<1>11. SlotExclusive'
  BY <1>1, <1>2, <1>4, <1>6 DEF SlotExclusive, Active, Live, q
<1>12. SellCovered'
  <2> SUFFICES ASSUME NEW j \in Ids, proposals'[j].order = "live", proposals'[j].side = "sell"
      PROVE  proposals'[j].left <= held'[proposals'[j].sym]
    BY DEF SellCovered, Live
  <2>1. CASE j = i
    <3>1. q.side = "sell" /\ q.left <= held[q.sym]
      BY <1>1, <1>2, <1>4, <1>6, <2>1 DEF SellCovered, q
    <3>2. held[q.sym] \in 0..MaxHeld
      BY <1>1, <1>3
    <3>3. QED
      BY <1>3, <1>4, <1>6, <1>7, <2>1, <3>1, <3>2
  <2>2. CASE j # i
    <3>1. /\ proposals'[j] = proposals[j] /\ proposals[j] \in Proposal /\ Live(j)
          /\ proposals[j].left <= held[proposals[j].sym]
      BY <1>1, <1>4, <2>2 DEF SellCovered, Live, Rows
    <3>2. proposals[j].sym = q.sym => q.side = "buy"
      BY <1>1, <1>2, <1>3, <2>2, <3>1 DEF SlotExclusive, Active, Live, q
    <3>3. held[q.sym] \in 0..MaxHeld /\ proposals[j].left \in 0..MaxHeld
          /\ proposals[j].sym \in Symbols
      BY <1>1, <1>3, <3>1 DEF Proposal
    <3>4. QED
      BY <1>7, <3>1, <3>2, <3>3
  <2>3. QED
    BY <2>1, <2>2
<1>13. \A a \in Actors : exec[a].step # "none" => exec[a].id \in Ids \ { i }
  BY <1>1, <1>2 DEF ExecSound, Executing, Live
<1>14. EnterUnpending' /\ EntriesUnique' /\ ScanSound' /\ AutonomousShowsSells' /\ ShownOrKept'
  <2>1. \A j \in Ids :
           /\ proposals'[j].sym = proposals[j].sym /\ proposals'[j].side = proposals[j].side
           /\ proposals'[j].status = "pending" =>
                Pending(j) /\ proposals'[j].surface = proposals[j].surface
           /\ proposals[j].status # "none" => proposals'[j].status # "none"
    BY <1>4, <1>6 DEF Pending, q
  <2>2. QED
    BY <1>2, <2>1, WaitingKept
<1>15. ExecSound' /\ ExecIdle'
  BY <1>1, <1>2, <1>4, <1>13 DEF ExecSound, ExecIdle, Executing, Reserved, At
<1>16. IntentsHeld'
  BY <1>1, <1>2, <1>4, <1>6 DEF IntentsHeld, Reserved
<1>17. OrdersAge
  BY <1>2, <1>3, <1>4, <1>6 DEF OrdersAge, Active, q, Live
<1>18. OlderSound'
  BY <1>1, <1>2, <1>17, OlderKept
<1>19. SubmitSound'
  <2>1. ASSUME NEW a \in Actors, exec'[a].step = "submit"
        PROVE  /\ exec'[a].id = exec[a].id /\ Reserved(a) /\ ContextHolds(a)
               /\ proposals'[exec[a].id].qty = proposals[exec[a].id].qty
               /\ proposals[exec[a].id].side = "sell" =>
                    proposals[exec[a].id].qty <= held'[proposals[exec[a].id].sym]
    <3> DEFINE k == exec[a].id
    <3>1. exec[a].step = "submit" /\ exec'[a].id = k /\ Reserved(a) /\ ContextHolds(a)
      BY <1>2, <2>1, SubmitReady
    <3>2. k \in Ids \ { i } /\ proposals'[k] = proposals[k] /\ proposals[k] \in Proposal
      BY <1>1, <1>4, <1>13, <3>1 DEF Rows
    <3>3. proposals[k].order = "reserved"
      BY <1>1, <3>1 DEF ExecSound, Executing
    <3>4. ASSUME proposals[k].side = "sell" PROVE proposals[k].qty <= held'[proposals[k].sym]
      <4>1. proposals[k].qty <= held[proposals[k].sym]
        BY <3>1, <3>4 DEF ContextHolds
      <4>2. proposals[k].sym = q.sym => q.side = "buy"
        BY <1>1, <1>2, <1>3, <3>2, <3>3, <3>4 DEF SlotExclusive, Active, Live, q
      <4>3. /\ held[q.sym] \in 0..MaxHeld /\ proposals[k].qty \in 0..MaxHeld
            /\ proposals[k].sym \in Symbols
        BY <1>1, <1>3, <3>2 DEF Proposal
      <4>4. QED
        BY <1>7, <4>1, <4>2, <4>3
    <3>5. QED
      BY <3>1, <3>2, <3>4
  <2>2. QED
    BY <1>2, <1>17, <2>1, SubmitKept
<1>20. QED
  BY <1>9, <1>10, <1>11, <1>12, <1>14, <1>15, <1>16, <1>18, <1>19 DEF IInv

(***************************************************************************)
(* The invariant.                                                          *)
(***************************************************************************)

\* Nothing is proposed and nothing is under way.
LEMMA InitIInv == Init => IInv
<1> SUFFICES ASSUME Init PROVE IInv
  OBVIOUS
<1>1. /\ mode \in Modes /\ rotation \in BOOLEAN /\ held \in Portfolios
      /\ proposals = [i \in Ids |-> NoProposal] /\ blocker = {}
      /\ scan = Idle /\ exec = [a \in Actors |-> NoExec]
      /\ older = [a \in Actors |-> NoneOlder] /\ faults = 0
  BY DEF Init
<1>2. NoProposal \in Proposal /\ NoProposal.status = "none" /\ NoProposal.order = "none"
  BY BoundsAssumption, SymbolsAssumption DEF NoProposal, Proposal
<1>3. \A i \in Ids : proposals[i].status = "none" /\ proposals[i].order = "none"
  BY <1>1, <1>2
<1>4. \A a \in Actors : exec[a].step = "none" /\ exec[a] = NoExec
  BY <1>1 DEF NoExec
<1>5. TypeOK
  <2>1. held \in [Symbols -> 0..MaxHeld]
    BY <1>1, PortfoliosAssumption
  <2>2. proposals \in [Ids -> Proposal]
    BY <1>1, <1>2
  <2>3. blocker \in SUBSET Symbols /\ older \in [Actors -> [sells : SUBSET Ids, row : BOOLEAN]]
    BY <1>1 DEF NoneOlder
  <2>4. scan \in ScanRow
    BY <1>1, IdleTyped
  <2>5. exec \in [Actors -> [id : 0..MaxProposals, step : Steps]]
    BY <1>1, BoundsAssumption DEF NoExec, Steps
  <2>6. faults \in 0..MaxFaults
    BY <1>1, BoundsAssumption
  <2>7. QED
    BY <1>1, <2>1, <2>2, <2>3, <2>4, <2>5, <2>6 DEF TypeOK, ScanRow
<1>6. OrderSound /\ SlotExclusive /\ SellCovered /\ EntriesUnique
  BY <1>3 DEF OrderSound, SlotExclusive, SellCovered, EntriesUnique, Live, Active, Pending
<1>7. ExecSound /\ ExecIdle /\ IntentsHeld /\ SubmitSound
  BY <1>3, <1>4 DEF ExecSound, ExecIdle, IntentsHeld, SubmitSound
<1>8. EnterUnpending /\ AutonomousShowsSells /\ ShownOrKept
  BY <1>3 DEF EnterUnpending, AutonomousShowsSells, ShownOrKept, Of, Pending
<1>9. ScanSound
  BY <1>1, IdleTyped DEF ScanSound, At
<1>10. OlderSound
  BY <1>1 DEF OlderSound, NoneOlder
<1>11. QED
  BY <1>5, <1>6, <1>7, <1>8, <1>9, <1>10 DEF IInv

\* Every step keeps the invariant.
LEMMA NextIInv == IInv /\ [Next]_vars => IInv'
<1> SUFFICES ASSUME IInv, [Next]_vars PROVE IInv'
  OBVIOUS
<1>1. CASE Cycle
  BY <1>1, StartCycleKeeps, ExpireKeeps, ReadBrokerKeeps, DecideKeeps, GateKeeps, PassOverKeeps,
     OfferKeeps, SendGroupKeeps, SendBatchKeeps, DigestKeeps DEF Cycle
<1>2. CASE \E a \in Actors :
        FinalCheck(a) \/ Capture(a) \/ CreateIntent(a) \/ VerifyBeforeBroker(a) \/ Submit(a)
  BY <1>2, FinalCheckKeeps, CaptureKeeps, CreateIntentKeeps, VerifyKeeps, SubmitKeeps
<1>3. CASE \E i \in Ids : Answer(i) \/ FillOne(i) \/ Cancel(i) \/ Age(i)
  BY <1>3, AnswerKeeps, FillOneKeeps, CancelKeeps, AgeKeeps
<1>4. CASE UNCHANGED vars
  BY <1>4 DEF vars, IInv, TypeOK, OrderSound, SlotExclusive, SellCovered, ExecSound, ExecIdle,
     IntentsHeld, OlderSound, SubmitSound, ContextHolds, EnterUnpending, EntriesUnique,
     ScanSound, AutonomousShowsSells, ShownOrKept, Executing, Reserved, Live, Active,
     active_sells, Pending, Of, answerable, At
<1>5. QED
  BY <1>1, <1>2, <1>3, <1>4 DEF Next

\* The invariant holds in every behaviour.
LEMMA IInvHolds == Spec => []IInv
<1>1. Init => IInv
  BY InitIInv
<1>2. IInv /\ [Next]_vars => IInv'
  BY NextIInv
<1>3. QED
  BY <1>1, <1>2, PTL DEF Spec

(***************************************************************************)
(* Theorems.                                                               *)
(***************************************************************************)

\* The variables keep their types.
THEOREM ScanIsTyped == Spec => []TypeOK
<1>1. IInv => TypeOK
  BY DEF IInv
<1>2. QED
  BY <1>1, IInvHolds, PTL

\* Of one symbol at most one sell order is open, so the sum of what is left of
\* them is what is left of it.
LEMMA OneOpenSell ==
  ASSUME IInv, NEW s \in Symbols
  PROVE  LiveSells(s) = {} \/ \E i \in Ids : LiveSells(s) = { i } /\ Live(i)
           /\ proposals[i].side = "sell" /\ proposals[i].sym = s
<1>1. LiveSells(s) \subseteq Ids
      /\ \A i \in LiveSells(s) : Live(i) /\ proposals[i].side = "sell" /\ proposals[i].sym = s
  BY DEF LiveSells, Of
<1>2. \A i, j \in LiveSells(s) : i = j
  BY <1>1 DEF IInv, SlotExclusive, Live, Active
<1>3. QED
  BY <1>1, <1>2

\* What is left of each order, and its sum over a set of orders as a total.
Left == [i \in Ids |-> proposals[i].left]

\* The sum that the property takes, as a total.
LEMMA LeftIsTotal ==
  ASSUME NEW S \in SUBSET Ids, IsFiniteSet(S)
  PROVE  MapThenSumSet(LAMBDA i : proposals[i].left, S) = total(Left, S)
<1> DEFINE P(it) == it = [s \in SUBSET S |->
                            IF s = {} THEN 0
                            ELSE proposals[CHOOSE x \in s : TRUE].left
                                   + it[s \ { CHOOSE x \in s : TRUE }]]
           chosen == CHOOSE it : P(it)
<1>1. MapThenSumSet(LAMBDA i : proposals[i].left, S) = chosen[S]
  BY SMT DEF MapThenSumSet, MapThenFoldSet
<1>2. ASSUME NEW it PROVE P(it) <=> Solves(Left, S, it)
  <2>1. \A s \in SUBSET S : s # {} => proposals[CHOOSE x \in s : TRUE].left = Left[first(s)]
    <3>1. \A s \in SUBSET S : s # {} => first(s) \in Ids
      BY FirstElement
    <3>2. QED
      BY <3>1 DEF Left, first
  <2>2. QED
    BY <2>1 DEF Solves, unrolled, first
<1>3. P(fold(Left, S))
  BY <1>2, SolutionExists
<1> HIDE DEF P
<1>4. P(chosen)
  BY <1>3
<1>5. QED
  BY <1>1, <1>2, <1>4, TotalOfSolution

\* The open sell orders of a symbol stay within the holding.
THEOREM SalesAreCovered == Spec => []SellsWithinHoldings
<1>1. ASSUME IInv PROVE SellsWithinHoldings
  <2> SUFFICES ASSUME NEW s \in Symbols
      PROVE  MapThenSumSet(LAMBDA i : proposals[i].left, LiveSells(s)) <= held[s]
    BY DEF SellsWithinHoldings
  <2>1. held[s] \in 0..MaxHeld /\ \A i \in Ids : proposals[i].left \in 0..MaxHeld
    BY <1>1 DEF IInv, TypeOK, Proposal
  <2>2. CASE LiveSells(s) = {}
    <3>1. MapThenSumSet(LAMBDA i : proposals[i].left, LiveSells(s)) = total(Left, {})
      BY <2>2, LeftIsTotal, FS_EmptySet
    <3>2. QED
      BY <2>1, <3>1, TotalEmpty
  <2>3. CASE \E i \in Ids : /\ LiveSells(s) = { i } /\ Live(i)
                            /\ proposals[i].side = "sell" /\ proposals[i].sym = s
    <3>1. PICK i \in Ids : /\ LiveSells(s) = { i } /\ Live(i)
                           /\ proposals[i].side = "sell" /\ proposals[i].sym = s
      BY <2>3
    <3> DEFINE S == { i }
    <3>2. IsFiniteSet(S) /\ i \in S /\ S \ { i } = {} /\ LiveSells(s) = S /\ S \in SUBSET Ids
      BY <3>1, FS_Singleton
    <3>3. \A x \in S : Left[x] = proposals[i].left
      BY DEF Left
    <3> HIDE DEF S
    <3>4. total(Left, S) = proposals[i].left
      <4>1. \A x \in S : Left[x] \in Int
        BY <2>1, <3>3
      <4>2. total(Left, S) = Left[i] + total(Left, S \ { i })
        BY <3>2, <4>1, TotalRemove
      <4>3. total(Left, S \ { i }) = 0
        BY <3>2, TotalEmpty
      <4>4. Left[i] = proposals[i].left /\ Left[i] \in Int
        BY <3>2, <3>3, <4>1
      <4>5. QED
        BY <4>2, <4>3, <4>4
    <3>5. MapThenSumSet(LAMBDA j : proposals[j].left, LiveSells(s)) = total(Left, S)
      BY <3>2, LeftIsTotal
    <3>6. proposals[i].left <= held[s]
      BY <1>1, <3>1 DEF IInv, SellCovered
    <3>7. QED
      BY <3>4, <3>5, <3>6
  <2>4. QED
    BY <1>1, <2>2, <2>3, OneOpenSell
<1>2. QED
  BY <1>1, IInvHolds, PTL

\* A cycle that is over leaves nothing waiting that nobody was asked about.
THEOREM WaitingIsAnswerable == Spec => []PendingIsAnswerable
<1>1. IInv => PendingIsAnswerable
  BY DEF IInv, ShownOrKept, ScanSound, PendingIsAnswerable, At
<1>2. QED
  BY <1>1, IInvHolds, PTL

\* At most one entry of a symbol waits at a time.
THEOREM OneEntryWaits == Spec => []OnePendingBuy
<1>1. ASSUME IInv PROVE OnePendingBuy
  <2> SUFFICES ASSUME NEW s \in Symbols
      PROVE  Cardinality({ i \in Of(s, "buy") : Pending(i) }) <= 1
    BY DEF OnePendingBuy
  <2> DEFINE W == { i \in Of(s, "buy") : Pending(i) }
  <2>1. \A i, j \in W : i = j
    BY <1>1 DEF IInv, EntriesUnique, Of
  <2> HIDE DEF W
  <2>2. CASE W = {}
    BY <2>2, FS_EmptySet DEF W
  <2>3. CASE W # {}
    <3>1. PICK i \in W : TRUE
      BY <2>3
    <3>2. W = { i }
      BY <2>1
    <3>3. QED
      BY <3>2, FS_Singleton DEF W
  <2>4. QED
    BY <2>2, <2>3
<1>2. QED
  BY <1>1, IInvHolds, PTL

\* A status or a surface leaves the order of a row alone.
LEMMA StatusKeepsOrder ==
  ASSUME Rows, NEW I, NEW st, NEW i \in Ids
  PROVE  set_status(I, st)[i].order = proposals[i].order
<1>1. proposals[i] \in Proposal
  BY DEF Rows
<1>2. QED
  BY <1>1 DEF set_status, ended, Proposal

\* So does a surface.
LEMMA SurfaceKeepsOrder ==
  ASSUME Rows, NEW I, NEW surface, NEW i \in Ids
  PROVE  shown_as(I, surface)[i].order = proposals[i].order
<1>1. proposals[i] \in Proposal
  BY DEF Rows
<1>2. QED
  BY <1>1 DEF shown_as, Proposal

\* An order opens only when the executor submits its proposal.
LEMMA OnlySubmitOpens ==
  ASSUME IInv, Next, NEW i \in Ids, ~ Live(i), proposals'[i].order = "live"
  PROVE  \E a \in Actors : Submit(a) /\ ~ Refuse(a) /\ exec[a].id = i
<1>1. Rows
  BY DEF IInv, TypeOK, Rows
<1>2. proposals[i].order # "live"
  BY DEF Live
<1>3. ASSUME proposals' = proposals \/ (\E I, st : proposals' = set_status(I, st))
               \/ (\E I, surface : proposals' = shown_as(I, surface))
      PROVE  FALSE
  BY <1>1, <1>2, <1>3, StatusKeepsOrder, SurfaceKeepsOrder
<1>4. ~ (StartCycle \/ Expire)
  BY <1>3 DEF StartCycle, Expire
<1>5. ~ (ReadBroker \/ Decide \/ Gate \/ Digest \/ \E s \in Symbols : PassOver(s))
  BY <1>3 DEF ReadBroker, Decide, Gate, Digest, PassOver
<1>6. ~ (SendGroup \/ SendBatch)
  BY <1>3 DEF SendGroup, SendBatch, fallback
<1>7. ASSUME NEW s \in Symbols, NEW j \in Ids, Offer(s, j) PROVE FALSE
  <2>1. PICK n \in quantity(s) : Dispatch(j, new_row(s, n), s)
    BY <1>7 DEF Offer, new_row
  <2> DEFINE q == new_row(s, n)
  <2>2. q \in Proposal /\ q.order = "none"
    BY <1>7, NewRow DEF Offer
  <2> HIDE DEF q
  <2>3. PICK r : r.order = "none" /\ proposals' = [proposals EXCEPT ![j] = r]
    <3>1. \A surface : [q EXCEPT !.surface = surface].order = "none"
      BY <2>2 DEF Proposal
    <3>2. \/ \E surface : proposals' = [proposals EXCEPT ![j] = [q EXCEPT !.surface = surface]]
          \/ proposals' = [proposals EXCEPT ![j] = q]
      BY <2>1 DEF Dispatch, q
    <3>3. QED
      BY <2>2, <3>1, <3>2
  <2>4. QED
    BY <1>1, <1>2, <2>3 DEF Rows
<1>8. ASSUME NEW a \in Actors, Refuse(a) PROVE FALSE
  <2> DEFINE k == exec[a].id
             f == set_status({ k }, "blocked")
  <2>1. f \in [Ids -> Proposal] /\ f[i].order = proposals[i].order
    <3>1. f[i].order = proposals[i].order
      BY <1>1, StatusKeepsOrder
    <3>2. \A j \in Ids : ended(proposals[j], "blocked") \in Proposal
      BY <1>1, EndedRow DEF Rows
    <3>3. QED
      BY <1>1, <3>1, <3>2 DEF set_status, Rows
  <2>2. proposals' = [f EXCEPT ![k].order = IF @ = "reserved" THEN "done" ELSE @]
    BY <1>8 DEF Refuse
  <2> HIDE DEF f
  <2>3. CASE k # i
    BY <1>2, <2>1, <2>2, <2>3
  <2>4. CASE k = i
    <3> DEFINE q == f[i]
    <3>1. q \in Proposal /\ proposals'[i] = [q EXCEPT !.order = IF @ = "reserved" THEN "done" ELSE @]
      BY <2>1, <2>2, <2>4
    <3> HIDE DEF q
    <3>2. proposals'[i].order = IF q.order = "reserved" THEN "done" ELSE q.order
      BY <3>1 DEF Proposal
    <3>3. QED
      BY <1>2, <2>1, <3>2 DEF q
  <2>5. QED
    BY <2>3, <2>4
<1>9. ASSUME NEW j \in Ids, Answer(j) PROVE FALSE
  BY <1>3, <1>9 DEF Answer
<1>10. ASSUME NEW j \in Ids, FillOne(j) \/ Cancel(j) \/ Age(j) PROVE FALSE
  <2>1. proposals[j] \in Proposal /\ (j # i => proposals'[i] = proposals[i])
    BY <1>1, <1>10 DEF FillOne, Cancel, Age, Rows
  <2>2. j = i
    BY <1>2, <2>1
  <2>3. CASE FillOne(j)
    BY <1>2, <2>2, <2>3 DEF FillOne, Live
  <2>4. CASE Cancel(j)
    BY <1>2, <2>2, <2>4 DEF Cancel, Live
  <2>5. CASE Age(j)
    <3>1. proposals'[j] = [proposals[j] EXCEPT !.due = TRUE]
      BY <1>1, <2>5 DEF Age, Rows
    <3>2. [proposals[j] EXCEPT !.due = TRUE].order = proposals[j].order
      BY <2>1 DEF Proposal
    <3>3. QED
      BY <1>2, <2>2, <3>1, <3>2
  <2>6. QED
    BY <1>10, <2>3, <2>4, <2>5
<1>11. ASSUME NEW a \in Actors, FinalCheck(a) \/ Capture(a) \/ VerifyBeforeBroker(a)
       PROVE  FALSE
  BY <1>3, <1>8, <1>11 DEF FinalCheck, Capture, VerifyBeforeBroker
<1>12. ASSUME NEW a \in Actors, CreateIntent(a) PROVE FALSE
  <2> DEFINE k == exec[a].id
  <2>1. proposals' = [proposals EXCEPT ![k] = reserved_row(proposals[k])]
    BY <1>8, <1>12 DEF CreateIntent, reserved_row
  <2>2. reserved_row(proposals[i]).order = "reserved"
    BY <1>1, ReservedRow DEF Rows
  <2>3. QED
    BY <1>1, <1>2, <2>1, <2>2 DEF Rows
<1>13. PICK a \in Actors : Submit(a)
  BY <1>4, <1>5, <1>6, <1>7, <1>9, <1>10, <1>11, <1>12 DEF Next, Cycle
<1>14. ~ Refuse(a)
  BY <1>8
<1>15. exec[a].id = i
  <2> SUFFICES ASSUME exec[a].id # i PROVE FALSE
    OBVIOUS
  <2>1. proposals'[i] = proposals[i] \/ proposals'[i] = ended(proposals[i], "closed")
    BY <1>13, <1>14 DEF Submit
  <2>2. ended(proposals[i], "closed").order = proposals[i].order
    BY <1>1, EndedRow DEF Rows
  <2>3. QED
    BY <1>2, <2>1, <2>2
<1>16. QED
  BY <1>13, <1>14, <1>15

\* No buy order leaves while a sell intent that was active before its own still
\* is, or when the blocker has had an active row ever since: the second look at
\* the context refuses it, and nothing older comes up after that.
THEOREM BuysYield == Spec => BuyYieldsToOlderExit
<1>1. ASSUME IInv, Next, NEW a \in Actors, exec[a].step = "submit",
             proposals[exec[a].id].side = "buy", proposals'[exec[a].id].order = "live"
      PROVE  ~ older[a].row /\ older[a].sells \cap active_sells = {}
  BY <1>1, SubmitReady DEF ContextHolds
<1>2. IInv /\ [Next]_vars =>
        [\A a \in Actors :
           exec[a].step = "submit" /\ proposals[exec[a].id].side = "buy"
             /\ proposals'[exec[a].id].order = "live"
           => ~ older[a].row /\ older[a].sells \cap active_sells = {}]_vars
  BY <1>1
<1>3. QED
  BY <1>2, IInvHolds, PTL DEF Spec, BuyYieldsToOlderExit

\* A cycle that can read the broker leaves no blocker without an exit.
THEOREM BlockersEnd == Spec => BlockerClears
<1>1. ASSUME IInv, Next, At("digest"), scan' = Idle, faults' = faults
      PROVE  \/ blocker' = {}
             \/ intent_sources # {} \/ proposal_sources(Read) # {}
  <2>1. scan.pc = "digest" /\ scan' # scan
    BY <1>1, IdleTyped DEF At
  <2>2. Cycle
    BY <1>1, <2>1 DEF Next, FinalCheck, Capture, CreateIntent, VerifyBeforeBroker, Submit, Answer,
       FillOne, Cancel, Age
  <2>3. Digest
    BY <2>1, <2>2 DEF Cycle, StartCycle, Expire, ReadBroker, Decide, Gate, PassOver, Offer,
       SendGroup, SendBatch, At
  <2>4. observe(Read, {})
    BY <1>1, <2>3 DEF Digest, Fault, IInv, TypeOK
  <2>5. CASE blocks(Read, {})
    <3>1. order_sources(Read) \subseteq intent_sources
      BY DEF order_sources, intent_sources, active_sells, Read, LiveSells, Live, Active, Of
    <3>2. decision_sources(Read, {}) = {}
      BY DEF decision_sources
    <3>3. QED
      BY <2>5, <3>1, <3>2 DEF blocks, sources
  <2>6. CASE ~ blocks(Read, {})
    BY <2>4, <2>6 DEF observe, blocks, clear_absent
  <2>7. QED
    BY <2>5, <2>6
<1>2. IInv /\ [Next]_vars =>
        [At("digest") /\ scan' = Idle /\ faults' = faults =>
           \/ blocker' = {}
           \/ intent_sources # {} \/ proposal_sources(Read) # {}]_vars
  BY <1>1
<1>3. QED
  BY <1>2, IInvHolds, PTL DEF Spec, BlockerClears
=============================================================================
