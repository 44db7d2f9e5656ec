CONSTANTS
  Events = {e1, e2}
  Replies = {o1}
  Deliveries = {d1, d2}
  Senders = {s1}
  None = None
  Faults = 1
SPECIFICATION Spec
INVARIANT AnsweredIsStored
