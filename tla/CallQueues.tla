------------------------------- MODULE CallQueues -------------------------------
(***************************************************************************)
(* Call queues and ring groups under concurrent administration             *)
(* (calling-config.ts, with the indexes and triggers of migration 0028).   *)
(*                                                                         *)
(* A queue belongs to a Page and a team and rings a group of the team; an  *)
(* enable reserves the Page with a lease, configures Meta, and turns the   *)
(* queue on.  A request reads, checks and writes in separate steps, and    *)
(* may die between two of them.                                            *)
(*                                                                         *)
(* Left out: names, hours and durations, the members of a group, further   *)
(* stages, and the conditions on the Page's own status and Meta App.       *)
(***************************************************************************)
EXTENDS Naturals, TLC

CONSTANTS
  Queues, Pages, Teams, Groups,
  Admins,       \* requests of administrators
  Nil,
  MaxAsked   \* bound on the requests

ASSUME QueueAssumption ==
  Nil \notin Queues \cup Pages \cup Teams \cup Groups \cup Admins /\ MaxAsked \in Nat

VARIABLES
  queue,      \* call_queues: page, team, group (its stage), on, lease (of a request)
  group,      \* ring_groups.team_id, Nil if there is none
  hours,      \* the queue whose hours Meta has for a Page
  admin,      \* a request: its kind, its stage, what it is about, and its input
  asked

queueVars == <<queue, group, hours, admin, asked>>

NoQueue == [page |-> Nil, team |-> Nil, group |-> Nil, on |-> FALSE, lease |-> Nil]
Vacant == [op |-> "none", at |-> "idle", to |-> Nil, page |-> Nil, team |-> Nil, group |-> Nil]

QueuesInit ==
  /\ queue = [q \in Queues |-> NoQueue]
  /\ group = [g \in Groups |-> Nil]
  /\ hours = [p \in Pages |-> Nil]
  /\ admin = [a \in Admins |-> Vacant]
  /\ asked = 0

QueuesTypeOK ==
  /\ queue \in [Queues -> [page : Pages \cup {Nil}, team : Teams \cup {Nil}, group : Groups \cup {Nil},
                           on : BOOLEAN, lease : Admins \cup {Nil}]]
  /\ group \in [Groups -> Teams \cup {Nil}]
  /\ hours \in [Pages -> Queues \cup {Nil}]
  /\ \A a \in Admins : admin[a].at \in {"idle", "check", "write", "reserve", "configure", "complete", "clear"}
  /\ asked \in 0 .. MaxAsked

Exists(q) == queue[q].page # Nil
Working(a, op, stage) == admin[a].op = op /\ admin[a].at = stage
MoveOn(a, stage) == admin' = [admin EXCEPT ![a].at = stage]
Done(a) == admin' = [admin EXCEPT ![a] = Vacant]

Ask(a, request) ==
  /\ admin[a] = Vacant /\ asked < MaxAsked
  /\ asked' = asked + 1
  /\ admin' = [admin EXCEPT ![a] = request @@ Vacant]
  /\ UNCHANGED <<queue, group, hours>>

-----------------------------------------------------------------------------
(* Ring groups.                                                             *)

WriteGroup(a, g, team) ==
  Ask(a, [op |-> "group", at |-> IF group[g] \in {Nil, team} THEN "write" ELSE "check", to |-> g, team |-> team])

(* A group that another team's queue rings stays with its team. *)
CheckGroup(a) ==
  LET r == admin[a] IN
  /\ Working(a, "group", "check")
  /\ IF \E q \in Queues : Exists(q) /\ queue[q].group = r.to /\ queue[q].team # r.team
     THEN Done(a) ELSE MoveOn(a, "write")
  /\ UNCHANGED <<queue, group, hours, asked>>

StoreGroup(a) ==
  /\ Working(a, "group", "write")
  /\ group' = [group EXCEPT ![admin[a].to] = admin[a].team]
  /\ Done(a)
  /\ UNCHANGED <<queue, hours, asked>>

(* The stages that ring the group restrict its deletion. *)
DeleteGroup(g) ==
  /\ group[g] # Nil /\ \A q \in Queues : ~Exists(q) \/ queue[q].group # g
  /\ group' = [group EXCEPT ![g] = Nil]
  /\ UNCHANGED <<queue, hours, admin, asked>>

-----------------------------------------------------------------------------
(* Queues.                                                                  *)

(* createCallQueue and updateCallQueue: requireStageGroups, then the batch
   with the same condition in a trigger. *)
WriteQueue(a, q, p, t, g) ==
  /\ group[g] = t
  /\ Ask(a, [op |-> "queue", at |-> "write", to |-> q, page |-> p, team |-> t, group |-> g])

(* Faulty: a queue may be moved to a Page that another one is enabling. *)
NoConflict(q, row) == TRUE

(* idx_call_queues_enabled_channel, idx_call_queues_provisioning_channel. *)
Unique(q, row) ==
  \A s \in Queues \ {q} : queue[s].page = row.page =>
    ~(queue[s].on /\ row.on) /\ ~(queue[s].lease # Nil /\ row.lease # Nil)

(* An update turns the queue off and keeps a lease that it has. *)
StoreQueue(a) ==
  LET r == admin[a]
      row == [page |-> r.page, team |-> r.team, group |-> r.group, on |-> FALSE,
              lease |-> queue[r.to].lease] IN
  /\ Working(a, "queue", "write")
  /\ queue' = IF group[r.group] = r.team /\ Unique(r.to, row) THEN [queue EXCEPT ![r.to] = row] ELSE queue
  /\ Done(a)
  /\ UNCHANGED <<group, hours, asked>>

(* updateQueueStages checks the group against the team that it read. *)
ChangeStages(a, q, g) ==
  /\ Exists(q) /\ group[g] = queue[q].team
  /\ Ask(a, [op |-> "stages", at |-> "write", to |-> q, group |-> g])

StoreStages(a) ==
  LET r == admin[a] IN
  /\ Working(a, "stages", "write")
  /\ queue' = IF Exists(r.to) /\ group[r.group] = queue[r.to].team
              THEN [queue EXCEPT ![r.to].group = r.group, ![r.to].on = FALSE] ELSE queue
  /\ Done(a)
  /\ UNCHANGED <<group, hours, asked>>

Disable(q) ==
  /\ Exists(q)
  /\ queue' = [queue EXCEPT ![q].on = FALSE, ![q].lease = Nil]
  /\ UNCHANGED <<group, hours, admin, asked>>

(* The stages go with their queue. *)
DeleteQueue(q) ==
  /\ Exists(q)
  /\ queue' = [queue EXCEPT ![q] = NoQueue]
  /\ UNCHANGED <<group, hours, admin, asked>>

-----------------------------------------------------------------------------
(* enableCallQueue works with the Page that it read at first.               *)

Enable(a, q) ==
  /\ Exists(q)
  /\ Ask(a, [op |-> "enable", at |-> "reserve", to |-> q, page |-> queue[q].page])

Reservable(q) ==
  /\ Exists(q) /\ ~queue[q].on /\ queue[q].lease = Nil
  /\ ~\E s \in Queues : queue[s].page = queue[q].page /\ (queue[s].on \/ queue[s].lease # Nil)

Reserve(a) ==
  LET q == admin[a].to IN
  /\ Working(a, "enable", "reserve")
  /\ IF Reservable(q)
     THEN queue' = [queue EXCEPT ![q].lease = a] /\ MoveOn(a, "configure")
     ELSE Done(a) /\ UNCHANGED queue
  /\ UNCHANGED <<group, hours, asked>>

(* Meta may take the settings although its answer is lost. *)
Configure(a) ==
  /\ Working(a, "enable", "configure")
  /\ \E taken, told \in BOOLEAN :
       /\ told => taken
       /\ hours' = IF taken THEN [hours EXCEPT ![admin[a].page] = admin[a].to] ELSE hours
       /\ MoveOn(a, IF told THEN "complete" ELSE "clear")
  /\ UNCHANGED <<queue, group, asked>>

(* A statement that breaks an index fails, and the lease is cleared. *)
Complete(a) ==
  LET q == admin[a].to
      row == [queue[q] EXCEPT !.on = TRUE, !.lease = Nil] IN
  /\ Working(a, "enable", "complete")
  /\ IF queue[q].lease = a /\ Unique(q, row)
     THEN queue' = [queue EXCEPT ![q] = row] /\ Done(a)
     ELSE MoveOn(a, "clear") /\ UNCHANGED queue
  /\ UNCHANGED <<group, hours, asked>>

ClearLease(a) ==
  LET q == admin[a].to IN
  /\ Working(a, "enable", "clear")
  /\ queue' = IF queue[q].lease = a THEN [queue EXCEPT ![q].lease = Nil] ELSE queue
  /\ Done(a)
  /\ UNCHANGED <<group, hours, asked>>

(* The lease of a request that dies stays. *)
RequestDies(a) ==
  /\ admin[a] # Vacant
  /\ Done(a)
  /\ UNCHANGED <<queue, group, hours, asked>>

QueuesNext ==
  \/ \E a \in Admins :
       \/ CheckGroup(a) \/ StoreGroup(a) \/ StoreQueue(a) \/ StoreStages(a)
       \/ Reserve(a) \/ Configure(a) \/ Complete(a) \/ ClearLease(a) \/ RequestDies(a)
       \/ \E g \in Groups, t \in Teams : WriteGroup(a, g, t)
       \/ \E q \in Queues, p \in Pages, t \in Teams, g \in Groups : WriteQueue(a, q, p, t, g)
       \/ \E q \in Queues, g \in Groups : ChangeStages(a, q, g)
       \/ \E q \in Queues : Enable(a, q)
  \/ \E g \in Groups : DeleteGroup(g)
  \/ \E q \in Queues : Disable(q) \/ DeleteQueue(q)

QueuesSpec == QueuesInit /\ [][QueuesNext]_queueVars

-----------------------------------------------------------------------------
(* A Page has one enabled queue (ADR 0027: "at most one active/enabled
   Queue"), although queues are moved to other Pages while an enable
   configures Meta. *)
OneEnabled == \A q, s \in Queues : queue[q].on /\ queue[s].on /\ queue[q].page = queue[s].page => q = s

(* What the code does not keep: a group may be given to another team while a
   queue that rings it is stored, *)
StagesOnTeam == \A q \in Queues : Exists(q) => group[queue[q].group] = queue[q].team

(* and a queue that is moved during its enable is on for a Page that never
   got its hours. *)
EnabledIsConfigured == \A q \in Queues : queue[q].on => hours[queue[q].page] = q
=============================================================================
