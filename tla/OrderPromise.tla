---------------------------- MODULE OrderPromise ----------------------------
(***************************************************************************)
(* What the execution core promises about approved actions, whatever       *)
(* processes, crashes and lost answers are behind it: capital is held      *)
(* before anything is sent and until nothing can execute any more, one     *)
(* request leaves per action, and the books follow what was executed.      *)
(***************************************************************************)
EXTENDS Naturals

CONSTANTS Actions, Qty

VARIABLES
  capital,    \* the reservation: "none", "active", then "released"
  announced,  \* it is on record that a request may leave
  requests,   \* requests that have left
  live,       \* something may still execute at the broker
  executed,   \* units the broker executed
  booked      \* units the books show

vars == << capital, announced, requests, live, executed, booked >>

Init ==
  /\ capital = [a \in Actions |-> "none"]
  /\ announced = [a \in Actions |-> FALSE]
  /\ requests = [a \in Actions |-> 0]
  /\ live = [a \in Actions |-> FALSE]
  /\ executed = [a \in Actions |-> 0]
  /\ booked = [a \in Actions |-> 0]

Reserve(a) ==
  /\ capital[a] = "none"
  /\ capital' = [capital EXCEPT ![a] = "active"]
  /\ UNCHANGED << announced, requests, live, executed, booked >>

Announce(a) ==
  /\ capital[a] = "active"
  /\ announced' = [announced EXCEPT ![a] = TRUE]
  /\ UNCHANGED << capital, requests, live, executed, booked >>

\* The announcement is taken back only when nothing has left.
Withdraw(a) ==
  /\ requests[a] = 0
  /\ announced' = [announced EXCEPT ![a] = FALSE]
  /\ UNCHANGED << capital, requests, live, executed, booked >>

Send(a) ==
  /\ capital[a] = "active" /\ announced[a] /\ requests[a] = 0
  /\ requests' = [requests EXCEPT ![a] = 1]
  /\ live' = [live EXCEPT ![a] = TRUE]
  /\ UNCHANGED << capital, announced, executed, booked >>

\* Some units execute, and with the last of them nothing is left to execute.
ExecuteSome(a) ==
  /\ live[a] /\ capital[a] = "active"
  /\ \E n \in (executed[a] + 1)..Qty :
       /\ executed' = [executed EXCEPT ![a] = n]
       /\ live' = [live EXCEPT ![a] = n < Qty]
  /\ UNCHANGED << capital, announced, requests, booked >>

EndOrder(a) ==
  /\ live' = [live EXCEPT ![a] = FALSE]
  /\ UNCHANGED << capital, announced, requests, executed, booked >>

\* Booking the last unit gives the capital back in the same transaction.
Book(a) ==
  /\ \E n \in (booked[a] + 1)..executed[a] :
       /\ booked' = [booked EXCEPT ![a] = n]
       /\ capital' = [capital EXCEPT ![a] = IF n = Qty THEN "released" ELSE @]
  /\ UNCHANGED << announced, requests, live, executed >>

\* Capital comes back unused once nothing can execute and all is booked.
Release(a) ==
  /\ capital[a] = "active" /\ ~ live[a] /\ booked[a] = executed[a]
  /\ capital' = [capital EXCEPT ![a] = "released"]
  /\ UNCHANGED << announced, requests, live, executed, booked >>

Next ==
  \E a \in Actions :
    \/ Reserve(a)
    \/ Announce(a)
    \/ Withdraw(a)
    \/ Send(a)
    \/ ExecuteSome(a)
    \/ EndOrder(a)
    \/ Book(a)
    \/ Release(a)

Spec == Init /\ [][Next]_vars
=============================================================================
