------------------------------ MODULE RunLock ------------------------------
(***************************************************************************)
(* The run lock that keeps two scanners, or two listeners, from running at *)
(* once: a directory made by scripts/run_once.sh or                        *)
(* scripts/run_telegram_listener.sh, owner files written into it, and      *)
(* inspect_lock (app/run_lock.py), which tells an abandoned lock from a    *)
(* held one.  One action is one command of the script.                     *)
(***************************************************************************)
EXTENDS Naturals, FiniteSets

CONSTANTS
  Starters,     \* shells that start the script: launchd's and others
  Scheduled,    \* the starter that launchd runs again and again
  NoPid,        \* the pid file is missing
  Dead,         \* the pid of a process that has ended
  Foreign,      \* the same pid, given to an unrelated process
  Scripts,      \* "scanner": run_once.sh, "listener": run_telegram_listener.sh
  MaxLosses     \* bounds crashes and failed starts together

ASSUME ScheduledAssumption == Scheduled \in Starters
ASSUME PidsAssumption ==
  /\ { NoPid, Dead, Foreign } \cap Starters = {}
  /\ NoPid # Dead /\ NoPid # Foreign /\ Dead # Foreign
ASSUME ScriptsAssumption == Scripts \subseteq { "scanner", "listener" }
ASSUME MaxLossesAssumption == MaxLosses \in Nat

VARIABLES
  lock,         \* the lock directory and what is in it
  aside,        \* what each starter moved to its recovery directory
  pc,           \* the next command of each starter
  losses,
  script        \* the script whose lock this is; never changes

vars == << lock, aside, pc, losses, script >>

\* token: the owner's start time is recorded; aged: older than the grace
\* period; nested: a recovery directory lies inside.
Locks ==
  [ present : BOOLEAN, pid : Starters \cup { NoPid, Dead, Foreign },
    token : BOOLEAN, aged : BOOLEAN, nested : BOOLEAN ]

NoLock == [present |-> FALSE, pid |-> NoPid, token |-> FALSE,
           aged |-> FALSE, nested |-> FALSE]

NewLock == [NoLock EXCEPT !.present = TRUE]

PCs == { "idle", "inspect", "move", "remake", "putback", "discard", "owner",
         "token", "running", "cleaning" }

TypeOK ==
  /\ lock \in Locks
  /\ aside \in [Starters -> Locks]
  /\ pc \in [Starters -> PCs]
  /\ losses \in Nat
  /\ script \in Scripts

Init ==
  /\ lock = NoLock
  /\ aside = [s \in Starters |-> NoLock]
  /\ pc = [s \in Starters |-> "idle"]
  /\ losses = 0
  /\ script \in Scripts

Goto(s, l) == pc' = [pc EXCEPT ![s] = l]

\* mkdir "$LOCKDIR"
Launch(s) ==
  /\ pc[s] = "idle"
  /\ IF lock.present
       THEN UNCHANGED lock /\ Goto(s, "inspect")
       ELSE lock' = NewLock /\ Goto(s, "owner")
  /\ UNCHANGED << aside, losses, script >>

\* Mutants: a missing pid file is taken for a dead owner at once; a lock
\* with a pid is never stale.
stale_without_grace(l) ==
  /\ l.present
  /\ l.pid \notin Starters
  /\ l.aged \/ l.pid = NoPid

stale_only_malformed(l) == l.present /\ l.pid = NoPid /\ l.aged

\* inspect_lock: a running owner is active; another process under the same
\* pid is told by its start time, and by its command where one is expected;
\* no owner and older than the grace period is stale.
stale(l) ==
  /\ l.present
  /\ l.pid \notin Starters
  /\ l.pid = Foreign => l.token \/ script = "listener"
  /\ l.aged

\* Anything but stale: exit 0.
Inspect(s) ==
  /\ pc[s] = "inspect"
  /\ Goto(s, IF stale(lock) THEN "move" ELSE "idle")
  /\ UNCHANGED << lock, aside, losses, script >>

\* mv "$LOCKDIR" "$RECOVERY_DIR"
MoveAside(s) ==
  /\ pc[s] = "move"
  /\ IF lock.present
       THEN /\ aside' = [aside EXCEPT ![s] = lock]
            /\ lock' = NoLock
            /\ Goto(s, "remake")
       ELSE UNCHANGED << aside, lock >> /\ Goto(s, "idle")
  /\ UNCHANGED << losses, script >>

\* mkdir "$LOCKDIR" again
Remake(s) ==
  /\ pc[s] = "remake"
  /\ IF lock.present
       THEN UNCHANGED lock /\ Goto(s, "putback")
       ELSE lock' = NewLock /\ Goto(s, "discard")
  /\ UNCHANGED << aside, losses, script >>

\* mv back: into the lock directory that is there now, or to its place.
PutBack(s) ==
  /\ pc[s] = "putback"
  /\ lock' = IF lock.present THEN [lock EXCEPT !.nested = TRUE] ELSE aside[s]
  /\ aside' = [aside EXCEPT ![s] = NoLock]
  /\ Goto(s, "idle")
  /\ UNCHANGED << losses, script >>

\* rm -rf "$RECOVERY_DIR"
Discard(s) ==
  /\ pc[s] = "discard"
  /\ aside' = [aside EXCEPT ![s] = NoLock]
  /\ Goto(s, "owner")
  /\ UNCHANGED << lock, losses, script >>

\* Once process s has ended, its pid is a dead one wherever it was written.
left_by(s, l) == IF l.pid = s THEN [l EXCEPT !.pid = Dead] ELSE l

Ends(s) ==
  /\ lock' = left_by(s, lock)
  /\ aside' = [t \in Starters |-> left_by(s, aside[t])]
  /\ Goto(s, "idle")

\* write_owner_metadata: pid and start time of the lock first.  Without the
\* directory it raises, and set -e ends the script.
WriteOwner(s) ==
  /\ pc[s] = "owner"
  /\ IF lock.present
       THEN /\ lock' = [lock EXCEPT !.pid = s, !.aged = FALSE]
            /\ Goto(s, "token")
            /\ UNCHANGED aside
       ELSE Ends(s)
  /\ UNCHANGED << losses, script >>

\* The identity of the process last.
WriteToken(s) ==
  /\ pc[s] = "token"
  /\ IF lock.present
       THEN /\ lock' = [lock EXCEPT !.token = TRUE]
            /\ Goto(s, "running")
            /\ UNCHANGED aside
       ELSE Ends(s)
  /\ UNCHANGED << losses, script >>

\* run_once.sh ends and runs its trap; the listener's shell was replaced by
\* exec, so nothing runs after it.
EndRun(s) ==
  /\ pc[s] = "running"
  /\ IF script = "listener" \/ lock.pid # s
       THEN Ends(s)
       ELSE /\ lock' = [lock EXCEPT !.pid = NoPid, !.token = FALSE,
                                    !.aged = FALSE]
            /\ Goto(s, "cleaning")
            /\ UNCHANGED aside
  /\ UNCHANGED << losses, script >>

\* rmdir fails, silently, when something is left inside.
RemoveLock(s) ==
  /\ pc[s] = "cleaning"
  /\ lock' = IF lock.nested THEN lock ELSE NoLock
  /\ Goto(s, "idle")
  /\ UNCHANGED << aside, losses, script >>

\* A kill, a power loss, or a command that fails before the trap is set.
Lose(s) ==
  /\ pc[s] # "idle"
  /\ losses < MaxLosses
  /\ losses' = losses + 1
  /\ Ends(s)
  /\ UNCHANGED script

\* The grace period passes.  For a lock without a pid it is 20 minutes, which
\* no starter at work between two commands takes.
Age ==
  /\ lock.present /\ ~ lock.aged
  /\ lock.pid = NoPid =>
       \A s \in Starters : pc[s] \notin { "discard", "owner", "cleaning" }
  /\ lock' = [lock EXCEPT !.aged = TRUE]
  /\ UNCHANGED << aside, pc, losses, script >>

\* The system gives the pid of a dead owner to somebody, who ends some day.
ReusePid ==
  /\ lock.pid = Dead
  /\ lock' = [lock EXCEPT !.pid = Foreign]
  /\ UNCHANGED << aside, pc, losses, script >>

ForeignEnds ==
  /\ lock.pid = Foreign
  /\ lock' = [lock EXCEPT !.pid = Dead]
  /\ UNCHANGED << aside, pc, losses, script >>

Script(s) ==
  \/ Inspect(s)
  \/ MoveAside(s)
  \/ Remake(s)
  \/ PutBack(s)
  \/ Discard(s)
  \/ WriteOwner(s)
  \/ WriteToken(s)
  \/ RemoveLock(s)

Next ==
  \/ \E s \in Starters : Launch(s) \/ Script(s) \/ EndRun(s) \/ Lose(s)
  \/ Age
  \/ ReusePid
  \/ ForeignEnds

Spec == Init /\ [][Next]_vars

\* A script that runs takes its next command, launchd starts the scheduled
\* one again, time passes.
Fairness ==
  /\ \A s \in Starters : WF_vars(Script(s))
  /\ WF_vars(Launch(Scheduled))
  /\ WF_vars(Age)

FairSpec == Spec /\ Fairness

(***************************************************************************)
(* Properties                                                              *)
(***************************************************************************)

\* Overlapping runs of the scanner never occur before the first kill or failed
\* start, whoever meets the lock between mkdir and rmdir.  (After one they do:
\* two starters that judged the same abandoned lock recover it one after the
\* other, and the second moves away the fresh lock of the first.)
OneRuns ==
  losses = 0 /\ script = "scanner" =>
    \A s, t \in Starters : pc[s] = "running" /\ pc[t] = "running" => s = t

\* A lock nobody holds any more.
Abandoned ==
  lock.present /\ lock.pid \notin Starters /\ \A s \in Starters : pc[s] = "idle"

\* The one lock inspect_lock cannot judge: the pid of a scanner runs again and
\* its start time was never recorded.
Undecidable == script = "scanner" /\ lock.pid = Foreign /\ ~ lock.token

\* The schedule is alone from some time on.
ScheduleAlone == <>[](\A s \in Starters \ { Scheduled } : pc[s] = "idle")

\* An abandoned lock, whatever a crash left in it and beside it, does not
\* keep the schedule from running for ever.
AbandonedIsRecovered ==
  ScheduleAlone =>
    (Abandoned ~> (Undecidable \/ \E s \in Starters : pc[s] = "running"))
=============================================================================
