---------------------------- MODULE ProviderHandoff ----------------------------
(***************************************************************************)
(* What outbound delivery promises about the provider boundary, without    *)
(* statuses, leases, queues or processes: a message is offered to the      *)
(* provider by one attempt at a time, is open again only after an attempt  *)
(* the provider refused for certain, and once an attempt was taken, or its *)
(* outcome is unknown, the message is closed and never offered again.      *)
(***************************************************************************)
EXTENDS Naturals

CONSTANT Messages

VARIABLES
  offer,   \* offer[m] is "open", "trying" or "closed"
  handed   \* handed[m], how often the provider took the whole message

vars == <<offer, handed>>

Init ==
  /\ offer = [m \in Messages |-> "open"]
  /\ handed = [m \in Messages |-> 0]

Move(m, from, to) ==
  /\ offer[m] = from
  /\ offer' = [offer EXCEPT ![m] = to]

Try(m) == Move(m, "open", "trying") /\ UNCHANGED handed

Refused(m) == Move(m, "trying", "open") /\ UNCHANGED handed

HandOver(m) ==
  /\ Move(m, "trying", "closed")
  /\ handed' = [handed EXCEPT ![m] = handed[m] + 1]

GiveUp(m) == Move(m, "trying", "closed") /\ UNCHANGED handed

(* An open message may be closed unsent, for fear of a lost attempt. *)
Withdraw(m) == Move(m, "open", "closed") /\ UNCHANGED handed

Next ==
  \E m \in Messages :
    Try(m) \/ Refused(m) \/ HandOver(m) \/ GiveUp(m) \/ Withdraw(m)

Spec == Init /\ [][Next]_vars
===============================================================================
