---------------------------- MODULE RunLockProofs ----------------------------
(***************************************************************************)
(* The scanner's lock excludes overlapping runs for any number of starters *)
(* until the first run is killed or the first start fails: up to then the  *)
(* lock is never found abandoned, and the recovery of abandoned locks,     *)
(* which is where two starters can meet, is never reached.                 *)
(***************************************************************************)
EXTENDS RunLock, TLAPS

\* The starter has made the lock and has not removed it.
Working(s) == pc[s] \in { "owner", "token", "running", "cleaning" }

Recovering(s) == pc[s] \in { "move", "remake", "putback", "discard" }

\* What the lock says of the starter that made it.
Shows(s) ==
  /\ lock.present /\ ~ lock.nested
  /\ IF pc[s] \in { "token", "running" } THEN lock.pid = s
     ELSE lock.pid = NoPid /\ ~ lock.aged

HInv ==
  /\ TypeOK
  /\ losses = 0
  /\ script = "scanner"
  /\ \A s \in Starters : ~ Recovering(s)
  /\ \A s, t \in Starters : Working(s) /\ Working(t) => s = t
  /\ \A s \in Starters : Working(s) => Shows(s)
  /\ lock.present => \E s \in Starters : Working(s)

\* A new lock is a lock, and so is one with any field replaced.
LEMMA LockTypes ==
  /\ NoLock \in Locks
  /\ NewLock \in Locks
  /\ \A l \in Locks :
       /\ \A q \in Starters \cup { NoPid, Dead, Foreign }, b \in BOOLEAN :
            /\ [l EXCEPT !.pid = q, !.aged = b] \in Locks
            /\ [l EXCEPT !.pid = q, !.token = b, !.aged = b] \in Locks
       /\ [l EXCEPT !.token = TRUE] \in Locks
       /\ [l EXCEPT !.aged = TRUE] \in Locks
BY DEF NoLock, NewLock, Locks

\* Nobody holds the lock at first.
LEMMA InitHInv ==
  ASSUME Init, script = "scanner"
  PROVE  HInv
<1>1. TypeOK
  BY LockTypes DEF Init, TypeOK, PCs
<1> QED
  BY <1>1 DEF Init, HInv, Working, Recovering, NoLock

\* Without losses, no starter of the scanner ever finds an abandoned lock.
LEMMA NeverStale == HInv => ~ stale(lock)
BY PidsAssumption DEF HInv, stale, Working, Shows, TypeOK

\* Every step without a loss keeps one holder at most.
LEMMA NextHInv ==
  ASSUME HInv, [Next]_vars, losses' = 0
  PROVE  HInv'
<1> USE DEF HInv, TypeOK, Working, Recovering, Shows, Goto
<1>1. ASSUME NEW s \in Starters, Launch(s) PROVE HInv'
  <2>1. TypeOK'
    BY <1>1, LockTypes DEF Launch, PCs
  <2>2. CASE lock.present
    BY <1>1, <2>1, <2>2 DEF Launch
  <2>3. CASE ~ lock.present
    <3>1. lock' = NewLock /\ pc' = [pc EXCEPT ![s] = "owner"]
            /\ UNCHANGED << losses, script >>
      BY <1>1, <2>3 DEF Launch
    <3>2. \A t \in Starters : ~ Working(t)
      BY <2>3
    <3> QED
      BY <2>1, <3>1, <3>2 DEF NewLock, NoLock
  <2> QED
    BY <2>2, <2>3
<1>2. ASSUME NEW s \in Starters, Inspect(s) PROVE HInv'
  <2>1. pc' = [pc EXCEPT ![s] = "idle"] /\ UNCHANGED << lock, aside, losses, script >>
    BY <1>2, NeverStale DEF Inspect
  <2>2. pc[s] = "inspect"
    BY <1>2 DEF Inspect
  <2> QED
    BY <2>1, <2>2 DEF PCs
<1>3. ASSUME NEW s \in Starters,
             MoveAside(s) \/ Remake(s) \/ PutBack(s) \/ Discard(s)
      PROVE  HInv'
  BY <1>3 DEF MoveAside, Remake, PutBack, Discard
<1>4. ASSUME NEW s \in Starters, WriteOwner(s) PROVE HInv'
  <2>1. /\ pc[s] = "owner" /\ Working(s)
        /\ lock' = [lock EXCEPT !.pid = s, !.aged = FALSE]
        /\ pc' = [pc EXCEPT ![s] = "token"]
        /\ UNCHANGED << aside, losses, script >>
    BY <1>4 DEF WriteOwner
  <2>2. TypeOK'
    BY <2>1, LockTypes DEF PCs
  <2>3. lock'.present /\ ~ lock'.nested /\ lock'.pid = s
    BY <2>1 DEF Locks
  <2> QED
    BY <2>1, <2>2, <2>3
<1>5. ASSUME NEW s \in Starters, WriteToken(s) PROVE HInv'
  <2>1. /\ pc[s] = "token" /\ Working(s)
        /\ lock' = [lock EXCEPT !.token = TRUE]
        /\ pc' = [pc EXCEPT ![s] = "running"]
        /\ UNCHANGED << aside, losses, script >>
    BY <1>5 DEF WriteToken
  <2>2. TypeOK'
    BY <2>1, LockTypes DEF PCs
  <2>3. lock'.present /\ ~ lock'.nested /\ lock'.pid = s
    BY <2>1 DEF Locks
  <2> QED
    BY <2>1, <2>2, <2>3
<1>6. ASSUME NEW s \in Starters, EndRun(s) PROVE HInv'
  <2>1. pc[s] = "running" /\ Working(s) /\ lock.pid = s
    BY <1>6 DEF EndRun
  <2>2. /\ lock' = [lock EXCEPT !.pid = NoPid, !.token = FALSE,
                                !.aged = FALSE]
        /\ pc' = [pc EXCEPT ![s] = "cleaning"]
        /\ UNCHANGED << aside, losses, script >>
    BY <1>6, <2>1 DEF EndRun
  <2>3. TypeOK'
    BY <2>2, LockTypes DEF PCs
  <2>4. lock'.present /\ ~ lock'.nested /\ lock'.pid = NoPid /\ ~ lock'.aged
    BY <2>1, <2>2 DEF Locks
  <2> QED
    BY <2>1, <2>2, <2>3, <2>4
<1>7. ASSUME NEW s \in Starters, RemoveLock(s) PROVE HInv'
  <2>1. /\ pc[s] = "cleaning" /\ Working(s)
        /\ lock' = NoLock
        /\ pc' = [pc EXCEPT ![s] = "idle"]
        /\ UNCHANGED << aside, losses, script >>
    BY <1>7 DEF RemoveLock
  <2>2. TypeOK'
    BY <2>1, LockTypes DEF PCs
  <2>3. \A t \in Starters : ~ Working(t)'
    BY <2>1
  <2> QED
    BY <2>1, <2>2, <2>3 DEF NoLock
<1>8. ASSUME NEW s \in Starters, Lose(s) PROVE HInv'
  BY <1>8 DEF Lose
<1>9. ASSUME Age PROVE HInv'
  <2>1. /\ lock.present /\ UNCHANGED << aside, pc, losses, script >>
        /\ lock' = [lock EXCEPT !.aged = TRUE]
    BY <1>9 DEF Age
  <2>2. PICK s \in Starters : Working(s)
    BY <2>1
  <2>3. lock.pid = s /\ pc[s] \in { "token", "running" }
    BY <1>9, <2>2 DEF Age
  <2>4. TypeOK'
    BY <2>1, LockTypes
  <2>5. lock'.present /\ ~ lock'.nested /\ lock'.pid = s
    BY <2>1, <2>2, <2>3 DEF Locks
  <2> QED
    BY <2>1, <2>2, <2>3, <2>4, <2>5
<1>10. ASSUME ReusePid \/ ForeignEnds PROVE HInv'
  <2>1. lock.pid \in { Dead, Foreign }
    BY <1>10 DEF ReusePid, ForeignEnds
  <2>2. ~ lock.present
    BY <2>1, PidsAssumption
  <2>3. /\ ~ lock'.present
        /\ lock' \in Locks
        /\ UNCHANGED << aside, pc, losses, script >>
    BY <1>10, <2>2 DEF ReusePid, ForeignEnds, Locks
  <2> QED
    BY <2>2, <2>3
<1>11. CASE UNCHANGED vars
  BY <1>11 DEF vars
<1> QED
  BY <1>1, <1>2, <1>3, <1>4, <1>5, <1>6, <1>7, <1>8, <1>9, <1>10, <1>11
  DEF Next, Script

\* Until the first loss.
UInv == losses \in Nat /\ (losses = 0 /\ script = "scanner" => HInv)

\* Losses are only counted up, so a state without one has none behind it.
LEMMA NextUInv == UInv /\ [Next]_vars => UInv'
<1> SUFFICES ASSUME UInv, [Next]_vars PROVE UInv'
  OBVIOUS
<1> DEFINE Counted == losses' \in Nat /\ (losses' = 0 => losses = 0) /\ script' = script
<1>1. Counted
  <2>1. CASE \E s \in Starters : Lose(s)
    <3>1. losses' = losses + 1 /\ script' = script
      BY <2>1 DEF Lose
    <3> QED
      BY <3>1 DEF UInv
  <2>2. ASSUME NEW s \in Starters, Launch(s) \/ Script(s) \/ EndRun(s)
        PROVE  UNCHANGED << losses, script >>
    <3> USE DEF Launch, EndRun, Inspect, MoveAside, Remake, PutBack, Discard,
                WriteOwner, WriteToken, RemoveLock
    <3> QED
      BY <2>2 DEF Script
  <2>3. CASE Age \/ ReusePid \/ ForeignEnds \/ UNCHANGED vars
    BY <2>3 DEF Age, ReusePid, ForeignEnds, vars, UInv
  <2> QED
    BY <2>1, <2>2, <2>3 DEF Next, UInv
<1>2. ASSUME losses' = 0, script' = "scanner" PROVE HInv'
  BY <1>1, <1>2, NextHInv DEF UInv
<1> QED
  BY <1>1, <1>2 DEF UInv

\* No two runs of the scanner overlap (scripts/run_once.sh) before a run is
\* killed or a start fails.
THEOREM OneRunsWithoutLosses == Spec => []OneRuns
<1>1. Init => UInv
  BY InitHInv DEF Init, UInv
<1>2. UInv => OneRuns
  BY DEF UInv, HInv, OneRuns, Working
<1> QED
  BY <1>1, <1>2, NextUInv, PTL DEF Spec
=============================================================================
