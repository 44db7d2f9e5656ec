CONSTANTS
  Events = {e1, e2}
  Replies = {o1}
  Deliveries = {d1, d2}
  Senders = {s1}
  None = None
  Faults = 1
  Tabs = {t1, t2}
  MaxEdits = 2
  MaxTrouble = 1
  Operators = {ow1, ow2}
  Holders = {cy, di}
  MaxSerial = 2
  MaxDuties = 4
  Threads = {q1}
  Helpers = {h1}
  Revivals = {k1, k2}
  NoThread = NoThread
  Horizon = 3
  MaxChanges = 3
  Queues = {u1, u2}
  Pages = {pg1, pg2}
  Teams = {tm1, tm2}
  Groups = {g1}
  Admins = {ad1, ad2}
  Nil = Nil
  MaxAsked = 6
  People = {ann, bob}
  Managers = {ann}
  Remarks = {c1}
  TagIds = {l1}
  Askers = {r1, r2}
  Absent = Absent
  MaxSeq = 1
  MaxNotes = 3
SPECIFICATION MCSpec
INVARIANTS HandledOnce ListShowsNewest AcknowledgedIsListed SentOnce MailboxIsServed OneEnabled NotesAreTrue
PROPERTIES SnoozeStands
CHECK_DEADLOCK FALSE
