-------------------------- MODULE MCOrderExecution --------------------------
(***************************************************************************)
(* Instances of OrderExecution for TLC.                                    *)
(***************************************************************************)
EXTENDS OrderExecution, TLC

CONSTANTS a1, a2, p1, p2

OneAction == { a1 }
TwoActions == { a1, a2 }

\* Both on the same symbol and side.
SameSlot == [a \in TwoActions |-> "AAPL buy"]

\* The two actions trade the same and are told apart by nothing else.
ActionSymmetry == Permutations(TwoActions)

OneProcess == { p1 }
TwoProcesses == { p1, p2 }

\* One process does everything; a live path beside a recoverer; a live path
\* beside a scheduled cycle; two live paths, one of which also cycles.
Alone == [p \in OneProcess |-> Kinds]
LiveBesideRecovery == (p1 :> {"live"}) @@ (p2 :> {"recover"})
LiveBesideCycle == (p1 :> {"live"}) @@ (p2 :> {"cycle"})
LiveBesideScanner == (p1 :> {"live"}) @@ (p2 :> {"live", "cycle"})
=============================================================================
