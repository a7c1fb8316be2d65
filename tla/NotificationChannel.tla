------------------------- MODULE NotificationChannel -------------------------
(***************************************************************************)
(* What ServiceNotification promises a subscriber: notifications are       *)
(* obtained once each, in the order in which the service pushed them.      *)
(***************************************************************************)
EXTENDS Sequences

CONSTANT Item    \* what can be pushed

VARIABLES
  pending,    \* pushed, not yet handled by the subscriber
  handled     \* handled by the subscriber, oldest first

Init == pending = <<>> /\ handled = <<>>

Push ==
  /\ \E n \in Item : pending' = Append(pending, n)
  /\ UNCHANGED handled

Handle ==
  /\ pending # <<>>
  /\ handled' = Append(handled, Head(pending))
  /\ pending' = Tail(pending)

Next == Push \/ Handle

Spec == Init /\ [][Next]_<<pending, handled>>
=============================================================================
