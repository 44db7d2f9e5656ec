-------------------------------- MODULE InboxTree --------------------------------
(***************************************************************************)
(* The navigation tree of the inboxes: handleInboxTreeMove                 *)
(* (inbox-tree-route.ts), moveInboxInTree and reorderInboxes (manage.ts),  *)
(* assertValidInboxParent (inbox-tree.ts) and the triggers of migration    *)
(* 0026.  Several administrators arrange the tree at the same time.        *)
(*                                                                         *)
(* A request reads the rows several times before its one UPDATE; each read *)
(* and the UPDATE is a step.  Rows are compared by their sort order, then  *)
(* by their id.                                                            *)
(*                                                                         *)
(* Left out: other workspaces, the colour and name of an inbox, archiving  *)
(* (which leaves the tree alone), and lists of more than one inbox.        *)
(***************************************************************************)
EXTENDS Naturals, FiniteSets

CONSTANTS
  Inboxes,
  System,      \* inboxes with visibility_type 'system', a subset
  Rank,        \* Rank[i], the place of i in the order of the ids
  Arrangers,   \* requests
  Root,        \* no parent (NULL)
  MaxDepth,    \* 64 in the code
  MaxVersion   \* bound on tree_version

ASSUME TreeAssumption ==
  /\ IsFiniteSet(Inboxes)
  /\ System \subseteq Inboxes
  /\ Root \notin Inboxes
  /\ MaxDepth \in Nat /\ MaxVersion \in Nat
  /\ Rank \in [Inboxes -> Nat]

VARIABLES
  parent,    \* inboxes.parent_inbox_id
  order,     \* inboxes.sort_order
  version,   \* inboxes.tree_version
  request

treeVars == <<parent, order, version, request>>

Places == 0 .. Cardinality(Inboxes)
Waiting == [at |-> "idle", inbox |-> Root, to |-> Root, before |-> Root, expected |-> 0,
            from |-> Root, place |-> 0, write |-> <<>>]

TreeTypeOK ==
  /\ parent \in [Inboxes -> Inboxes \cup {Root}]
  /\ order \in [Inboxes -> Places]
  /\ version \in [Inboxes -> 0 .. MaxVersion]
  /\ \A r \in Arrangers :
       /\ request[r].at \in {"idle", "anchor", "source", "parent", "rows", "move", "list", "order"}
       /\ {request[r].inbox, request[r].to, request[r].before, request[r].from} \subseteq Inboxes \cup {Root}
       /\ DOMAIN request[r].write \subseteq Inboxes

(* Inboxes are created at the root, with sort order 0; the code never creates
   a system inbox, which may come first or last. *)
TreeInit ==
  /\ parent = [i \in Inboxes |-> Root]
  /\ \E o \in {0, Cardinality(Inboxes) - 1} :
       order = [i \in Inboxes |-> IF i \in System THEN o ELSE 0]
  /\ version = [i \in Inboxes |-> 0]
  /\ request = [r \in Arrangers |-> Waiting]

-----------------------------------------------------------------------------
(* The shape of the tree.                                                   *)

(* Up(i)[k] is the k-th ancestor of i, as far as a bounded walk looks. *)
Up(i) ==
  LET up[k \in 0 .. MaxDepth + 1] ==
        IF k = 0 THEN i ELSE IF up[k-1] = Root THEN Root ELSE parent[up[k-1]]
  IN up
Below(j, i) == \E k \in 0 .. MaxDepth + 1 : Up(j)[k] = i
Depth(i) == Cardinality({k \in 0 .. MaxDepth : Up(i)[k] # Root})

(* Inbox i, with what hangs below it, fits under p. *)
Fits(i, p) ==
  p # Root =>
    /\ ~Below(p, i)
    /\ \A j \in Inboxes, k \in 0 .. MaxDepth + 1 : Up(j)[k] = i => Depth(p) + k <= MaxDepth

Before(i, j) == order[i] < order[j] \/ (order[i] = order[j] /\ Rank[i] < Rank[j])
Siblings(p, i) == {j \in Inboxes \ {i} : parent[j] = p}
PlaceIn(S, i) == Cardinality({j \in S : Before(j, i)})

-----------------------------------------------------------------------------
Ask(r, q) == request[r].at = "idle" /\ request' = [request EXCEPT ![r] = q]
Step(r, at) == request' = [request EXCEPT ![r].at = at]
Refuse(r) == request' = [request EXCEPT ![r] = Waiting]
rows == <<parent, order, version>>

(* POST .../tree/move: the client names the version of the inbox that it saw,
   the current one when its move begins. *)
BeginMove(r, i, p, before) ==
  /\ before # Root => parent[before] = p
  /\ Ask(r, [Waiting EXCEPT !.at = "anchor", !.inbox = i, !.to = p, !.before = before,
                            !.expected = version[i]])
  /\ UNCHANGED rows

(* handleInboxTreeMove finds the place among the siblings of the destination. *)
Anchor(r) ==
  LET q == request[r]
      S == Siblings(q.to, q.inbox)
  IN /\ q.at = "anchor"
     /\ IF q.to \in System \/ (q.before # Root /\ q.before \notin S)
        THEN Refuse(r)
        ELSE request' = [request EXCEPT ![r].at = "source", ![r].place =
               IF q.before = Root THEN Cardinality(S) ELSE PlaceIn(S, q.before)]
     /\ UNCHANGED rows

ReadSource(r) ==
  LET q == request[r] IN
  /\ q.at = "source"
  /\ IF q.inbox \in System \/ version[q.inbox] # q.expected
     THEN Refuse(r)
     ELSE request' = [request EXCEPT ![r].at = "parent", ![r].from = parent[q.inbox]]
  /\ UNCHANGED rows

(* assertValidInboxParent. *)
CheckParent(r) ==
  /\ request[r].at = "parent"
  /\ IF Fits(request[r].inbox, request[r].to) THEN Step(r, "rows") ELSE Refuse(r)
  /\ UNCHANGED rows

(* The new places: of the siblings that are left, and of those that are
   joined, with the inbox among them. *)
NewPlaces(q) ==
  LET new == Siblings(q.to, q.inbox)
      at == IF q.place > Cardinality(new) THEN Cardinality(new) ELSE q.place
      left == Siblings(q.from, q.inbox) \ new
  IN [j \in {q.inbox} \cup new \cup left |->
        IF j = q.inbox THEN at
        ELSE IF j \in left THEN PlaceIn(left, j)
        ELSE PlaceIn(new, j) + (IF PlaceIn(new, j) >= at THEN 1 ELSE 0)]

MovesSystem(i, w) ==
  \/ \E s \in System : Below(s, i)
  \/ \E s \in System \cap DOMAIN w : w[s] # order[s]

ReadRows(r) ==
  LET q == request[r]
      w == NewPlaces(q)
  IN /\ q.at = "rows"
     /\ IF MovesSystem(q.inbox, w)
        THEN Refuse(r)
        ELSE request' = [request EXCEPT ![r].at = "move", ![r].write = w]
     /\ UNCHANGED rows

(* Faulty: no trigger. *)
Untriggered(i, p) == FALSE

(* inboxes_parent_workspace_update looks at the rows that the UPDATE meets. *)
TriggerAborts(i, p) == ~Fits(i, p)

(* Faulty: the version was compared when the inbox was read. *)
SeenCurrent(q) == TRUE
Current(q) == version[q.inbox] = q.expected

(* The one guarded UPDATE. *)
Move(r) ==
  LET q == request[r] IN
  /\ q.at = "move"
  /\ Refuse(r)
  /\ IF Current(q) /\ ~TriggerAborts(q.inbox, q.to)
     THEN /\ \A j \in DOMAIN q.write : version[j] < MaxVersion
          /\ parent' = [parent EXCEPT ![q.inbox] = q.to]
          /\ order' = [j \in Inboxes |-> IF j \in DOMAIN q.write THEN q.write[j] ELSE order[j]]
          /\ version' = [j \in Inboxes |->
               IF j = q.inbox \/ (j \in DOMAIN q.write /\ q.write[j] # order[j])
               THEN version[j] + 1 ELSE version[j]]
     ELSE UNCHANGED rows

-----------------------------------------------------------------------------
(* reorderInboxes puts the listed inboxes first and leaves the versions.    *)

BeginReorder(r, i) ==
  /\ Ask(r, [Waiting EXCEPT !.at = "list", !.inbox = i])
  /\ UNCHANGED rows

ListOrder(r) ==
  LET i == request[r].inbox
      w == [j \in Inboxes |-> IF j = i THEN 0 ELSE PlaceIn(Inboxes \ {i}, j) + 1]
  IN /\ request[r].at = "list"
     /\ IF i \in System \/ \E s \in System : w[s] # order[s]
        THEN Refuse(r)
        ELSE request' = [request EXCEPT ![r].at = "order",
               ![r].write = [j \in {j \in Inboxes : w[j] # order[j]} |-> w[j]]]
     /\ UNCHANGED rows

Reorder(r) ==
  /\ request[r].at = "order"
  /\ Refuse(r)
  /\ order' = [j \in Inboxes |->
                IF j \in DOMAIN request[r].write THEN request[r].write[j] ELSE order[j]]
  /\ UNCHANGED <<parent, version>>

TreeNext ==
  \E r \in Arrangers :
    \/ \E i \in Inboxes : \E p, before \in Inboxes \cup {Root} : BeginMove(r, i, p, before)
    \/ \E i \in Inboxes : BeginReorder(r, i)
    \/ Anchor(r) \/ ReadSource(r) \/ CheckParent(r) \/ ReadRows(r) \/ Move(r)
    \/ ListOrder(r) \/ Reorder(r)

TreeSpec == TreeInit /\ [][TreeNext]_treeVars

-----------------------------------------------------------------------------
(* The inboxes form a forest of bounded depth (ADR 0026): every walk to the
   root ends, also after two moves that each saw the tree before the other. *)
Forest == \A i \in Inboxes : Up(i)[MaxDepth + 1] = Root

(* An inbox leaves the parent from which its request took it, and under the
   version that the administrator saw: no move is undone by a stale one. *)
MovesAreCurrent ==
  [][\A i \in Inboxes : parent'[i] # parent[i] =>
       \E r \in Arrangers :
         /\ request[r].inbox = i /\ request[r].at = "move"
         /\ request[r].from = parent[i] /\ request[r].expected = version[i]]_treeVars
=============================================================================
