----------------------------- MODULE RoutingProofs -----------------------------
(***************************************************************************)
(* Theorems about the routing configuration: the navigation tree of the    *)
(* inboxes, the sidebar that is drawn from it, and the links of the        *)
(* channels, for any number of inboxes, channels, administrators and tabs. *)
(***************************************************************************)
EXTENDS Sidebar, ChannelRouting, FiniteSetTheorems, NaturalsInduction,
        WellFoundedInduction, TLAPS

-----------------------------------------------------------------------------
(* The least member of a set of naturals.  Each fact below about the walks,
   which are recursive functions, is shown for the least length at which it
   could fail. *)
LEMMA Least ==
  ASSUME NEW T \in SUBSET Nat, T # {}
  PROVE  \E m \in T : \A k \in T : m <= k
<1>. DEFINE R == OpToRel(<, Nat)
<1>1. IsWellFoundedOn(R, Nat)
  BY NatLessThanWellFounded
<1>2. \E m \in T : \A k \in T : <<k, m>> \notin R
  <2>. HIDE DEF R
  <2>. QED  BY <1>1, WFMin
<1>3. ASSUME NEW k \in Nat, NEW m \in Nat, <<k, m>> \notin R
      PROVE  m <= k
  BY <1>3 DEF OpToRel
<1>. QED  BY <1>2, <1>3

(* What holds of 0 and of the successors of those that it holds of, up to n,
   holds up to n: M is the set of which it holds. *)
LEMMA UpTo ==
  ASSUME NEW n \in Nat, NEW M, 0 \in M, \A k \in 0 .. n : k \in M /\ k < n => k + 1 \in M
  PROVE  0 .. n \subseteq M
<1>. DEFINE T == {k \in 0 .. n : k \notin M}
<1>1. SUFFICES ASSUME T # {} PROVE FALSE
  OBVIOUS
<1>2. PICK m \in T : \A k \in T : m <= k
  <2>1. T \in SUBSET Nat
    OBVIOUS
  <2>. HIDE DEF T
  <2>. QED  BY <1>1, <2>1, Least
<1>3. m \in 0 .. n /\ m \notin M /\ m # 0
  BY <1>2
<1>4. m - 1 \in 0 .. n /\ m - 1 < n /\ (m - 1) + 1 = m
  BY <1>3
<1>5. m - 1 \in M
  BY <1>2, <1>4
<1>. QED  BY <1>3, <1>4, <1>5

-----------------------------------------------------------------------------
(* Walks.                                                                   *)

Parents == [Inboxes -> Inboxes \cup {Root}]
Nodes == Inboxes \cup {Root}
Lengths == 0 .. MaxDepth + 1

(* Up(i) in the tree with the parents p. *)
Walk(p, i) ==
  LET up[k \in Lengths] ==
        IF k = 0 THEN i ELSE IF up[k-1] = Root THEN Root ELSE p[up[k-1]]
  IN up

Above(p, x) == IF x = Root THEN Root ELSE p[x]

(* f walks from i as far as n. *)
Walks(p, i, n, f) == f = [k \in 0 .. n |-> IF k = 0 THEN i ELSE Above(p, f[k-1])]

LEMMA LengthsAreNaturals == MaxDepth \in Nat /\ MaxDepth + 1 \in Nat /\ Lengths \subseteq Nat
BY TreeAssumption DEF Lengths

LEMMA WalkExists ==
  ASSUME NEW p, NEW i, NEW n \in Nat
  PROVE  \E f : Walks(p, i, n, f)
<1>. DEFINE M == {k \in Nat : \E f : Walks(p, i, k, f)}
<1>1. 0 \in M
  <2>. DEFINE f == [k \in 0 .. 0 |-> i]
  <2>1. f = [k \in 0 .. 0 |-> IF k = 0 THEN i ELSE Above(p, f[k-1])]
    OBVIOUS
  <2>2. Walks(p, i, 0, f)
    BY <2>1 DEF Walks
  <2>. QED  BY <2>2
<1>2. ASSUME NEW k \in 0 .. n, k \in M
      PROVE  k + 1 \in M
  <2>1. PICK f : Walks(p, i, k, f)
    BY <1>2
  <2>. DEFINE g == [m \in 0 .. k + 1 |-> IF m = k + 1 THEN Above(p, f[k]) ELSE f[m]]
  <2>2. g = [m \in 0 .. k + 1 |-> IF m = 0 THEN i ELSE Above(p, g[m-1])]
    <3>1. ASSUME NEW m \in 0 .. k + 1
          PROVE  g[m] = IF m = 0 THEN i ELSE Above(p, g[m-1])
      <4>1. CASE m = k + 1
        BY <4>1
      <4>2. CASE m # k + 1
        <5>1. m \in 0 .. k /\ (m # 0 => m - 1 \in 0 .. k /\ m - 1 # k + 1)
          BY <4>2
        <5>2. f[m] = IF m = 0 THEN i ELSE Above(p, f[m-1])
          BY <2>1, <5>1 DEF Walks
        <5>. QED  BY <4>2, <5>1, <5>2
      <4>. QED  BY <4>1, <4>2
    <3>. QED  BY <3>1
  <2>3. Walks(p, i, k + 1, g)
    BY <2>2 DEF Walks
  <2>. QED  BY <2>3
<1>3. 0 .. n \subseteq M
  <2>. HIDE DEF M
  <2>. QED  BY <1>1, <1>2, UpTo
<1>. QED  BY <1>3

(* The recursive definition has the value that it describes. *)
LEMMA WalkIs ==
  ASSUME NEW p, NEW i
  PROVE  /\ Walk(p, i)[0] = i
         /\ \A k \in 0 .. MaxDepth : Walk(p, i)[k+1] = Above(p, Walk(p, i)[k])
<1>1. PICK f : Walks(p, i, MaxDepth + 1, f)
  BY WalkExists, LengthsAreNaturals
<1>2. Walks(p, i, MaxDepth + 1, Walk(p, i))
  <2>1. f = [k \in Lengths |-> IF k = 0 THEN i ELSE IF f[k-1] = Root THEN Root ELSE p[f[k-1]]]
    BY <1>1 DEF Walks, Above, Lengths
  <2>2. Walk(p, i) = [k \in Lengths |-> IF k = 0 THEN i ELSE
                        IF Walk(p, i)[k-1] = Root THEN Root ELSE p[Walk(p, i)[k-1]]]
    BY <2>1 DEF Walk
  <2>. QED  BY <2>2 DEF Walks, Above, Lengths
<1>. DEFINE W == Walk(p, i)
<1>3. \A k \in 0 .. MaxDepth + 1 : W[k] = IF k = 0 THEN i ELSE Above(p, W[k-1])
  <2>. HIDE DEF W
  <2>1. W = [k \in 0 .. MaxDepth + 1 |-> IF k = 0 THEN i ELSE Above(p, W[k-1])]
    BY <1>2 DEF W, Walks
  <2>. QED  BY <2>1
<1>4. W[0] = i
  BY <1>3, LengthsAreNaturals
<1>5. ASSUME NEW k \in 0 .. MaxDepth
      PROVE  W[k+1] = Above(p, W[k])
  <2>1. k + 1 \in 0 .. MaxDepth + 1 /\ k + 1 # 0 /\ (k + 1) - 1 = k
    BY LengthsAreNaturals
  <2>. HIDE DEF W
  <2>. QED  BY <1>3, <2>1
<1>. QED  BY <1>4, <1>5

LEMMA WalkType ==
  ASSUME NEW p \in Parents, NEW i \in Nodes
  PROVE  \A k \in Lengths : Walk(p, i)[k] \in Nodes
<1>. DEFINE M == {k \in Lengths : Walk(p, i)[k] \in Nodes}
<1>1. 0 \in M
  BY WalkIs, LengthsAreNaturals DEF Lengths
<1>2. ASSUME NEW k \in 0 .. MaxDepth + 1, k \in M, k < MaxDepth + 1
      PROVE  k + 1 \in M
  <2>1. k \in 0 .. MaxDepth /\ k + 1 \in Lengths
    BY <1>2, LengthsAreNaturals DEF Lengths
  <2>2. Walk(p, i)[k+1] = Above(p, Walk(p, i)[k])
    BY <2>1, WalkIs
  <2>. QED  BY <1>2, <2>1, <2>2 DEF Above, Parents, Nodes
<1>3. 0 .. MaxDepth + 1 \subseteq M
  <2>. HIDE DEF M
  <2>. QED  BY <1>1, <1>2, UpTo, LengthsAreNaturals
<1>. QED  BY <1>3 DEF Lengths

(* At the root a walk ends. *)
LEMMA WalkEnds ==
  ASSUME NEW p, NEW i, NEW n \in Lengths, Walk(p, i)[n] = Root
  PROVE  \A k \in Lengths : n <= k => Walk(p, i)[k] = Root
<1>. DEFINE M == {k \in Lengths : n <= k => Walk(p, i)[k] = Root}
<1>1. 0 \in M
  <2>1. n \in Nat /\ 0 \in Lengths
    BY LengthsAreNaturals DEF Lengths
  <2>2. n <= 0 => n = 0
    BY <2>1
  <2>. QED  BY <2>1, <2>2
<1>2. ASSUME NEW k \in 0 .. MaxDepth + 1, k \in M, k < MaxDepth + 1
      PROVE  k + 1 \in M
  <2>1. k \in 0 .. MaxDepth /\ k + 1 \in Lengths /\ n \in Nat
    BY <1>2, LengthsAreNaturals DEF Lengths
  <2>2. Walk(p, i)[k+1] = Above(p, Walk(p, i)[k])
    BY <2>1, WalkIs
  <2>3. n <= k + 1 => n <= k \/ n = k + 1
    BY <2>1
  <2>. QED  BY <1>2, <2>1, <2>2, <2>3 DEF Above
<1>3. 0 .. MaxDepth + 1 \subseteq M
  <2>. HIDE DEF M
  <2>. QED  BY <1>1, <1>2, UpTo, LengthsAreNaturals
<1>. QED  BY <1>3 DEF Lengths

(* Depth(i) in the tree with the parents p. *)
DepthIn(p, i) == Cardinality({k \in 0 .. MaxDepth : Walk(p, i)[k] # Root})

(* A walk that ends does so after as many steps as the depth says. *)
LEMMA DepthEnds ==
  ASSUME NEW p, NEW i, Walk(p, i)[MaxDepth + 1] = Root
  PROVE  DepthIn(p, i) \in Lengths /\ Walk(p, i)[DepthIn(p, i)] = Root
<1>. DEFINE W == Walk(p, i)
            T == {k \in Lengths : W[k] = Root}
<1>1. T # {} /\ T \in SUBSET Nat
  BY LengthsAreNaturals DEF Lengths
<1>2. PICK h \in T : \A k \in T : h <= k
  <2>. HIDE DEF T
  <2>. QED  BY <1>1, Least
<1>3. h \in Lengths /\ h \in Nat /\ W[h] = Root
  BY <1>2, LengthsAreNaturals
<1>4. {k \in 0 .. MaxDepth : W[k] # Root} = 0 .. h - 1
  <2>1. ASSUME NEW k \in 0 .. MaxDepth, W[k] # Root
        PROVE  k \in 0 .. h - 1
    <3>1. k \in Lengths /\ k \in Nat
      BY LengthsAreNaturals DEF Lengths
    <3>2. ~ h <= k
      BY <1>3, <2>1, <3>1, WalkEnds
    <3>. QED  BY <1>3, <3>1, <3>2
  <2>2. ASSUME NEW k \in 0 .. h - 1
        PROVE  k \in 0 .. MaxDepth /\ W[k] # Root
    <3>1. k \in 0 .. MaxDepth /\ k \in Lengths /\ ~ h <= k
      BY <1>3, LengthsAreNaturals DEF Lengths
    <3>. QED  BY <1>2, <3>1
  <2>. HIDE DEF W
  <2>. QED  BY <2>1, <2>2
<1>5. Cardinality(0 .. h - 1) = h
  <2>1. Cardinality(0 .. h - 1) = IF 0 > h - 1 THEN 0 ELSE (h - 1) - 0 + 1
    BY <1>3, FS_Interval
  <2>. QED  BY <1>3, <2>1
<1>6. DepthIn(p, i) = h
  BY <1>4, <1>5 DEF DepthIn
<1>. QED  BY <1>3, <1>6

-----------------------------------------------------------------------------
(* A move that fits keeps the forest.                                       *)

(* All walks in the tree p end. *)
Ends(p) == \A i \in Inboxes : Walk(p, i)[MaxDepth + 1] = Root

(* Fits(i, t) in the tree p. *)
FitsIn(p, i, t) ==
  t # Root =>
    /\ \A k \in Lengths : Walk(p, t)[k] # i
    /\ \A j \in Inboxes, k \in Lengths : Walk(p, j)[k] = i => DepthIn(p, t) + k <= MaxDepth

(* A walk in a tree q that differs from p in the parent t of i only,
   follows the walk in p; if that comes through i, it then follows the walk
   in p that begins at t, provided that this one does not come through i. *)
LEMMA MovedWalk ==
  ASSUME NEW p \in Parents, NEW i \in Inboxes, NEW t \in Nodes, NEW j \in Nodes, NEW q,
         \A x \in Nodes : Above(q, x) = IF x = i THEN t ELSE Above(p, x),
         \A k \in Lengths : Walk(p, t)[k] # i
  PROVE  \A k \in Lengths :
           \/ Walk(q, j)[k] = Walk(p, j)[k]
           \/ \E m \in Lengths : /\ m < k /\ Walk(p, j)[m] = i
                                 /\ Walk(q, j)[k] = Walk(p, t)[k - m - 1]
<1>. DEFINE Same(k) == Walk(q, j)[k] = Walk(p, j)[k]
            Turned(k, m) == m < k /\ Walk(p, j)[m] = i /\ Walk(q, j)[k] = Walk(p, t)[k - m - 1]
            M == {k \in Lengths : Same(k) \/ \E m \in Lengths : Turned(k, m)}
<1>1. 0 \in M
  BY WalkIs, LengthsAreNaturals DEF Lengths
<1>2. ASSUME NEW k \in 0 .. MaxDepth + 1, k \in M, k < MaxDepth + 1
      PROVE  k + 1 \in M
  <2>1. k \in 0 .. MaxDepth /\ k + 1 \in Lengths /\ k \in Lengths /\ k \in Nat
    BY <1>2, LengthsAreNaturals DEF Lengths
  <2>2. Walk(q, j)[k+1] = Above(q, Walk(q, j)[k]) /\ Walk(p, j)[k+1] = Above(p, Walk(p, j)[k])
    BY <2>1, WalkIs
  <2>3. \A x \in Nodes : x # i => Above(q, x) = Above(p, x)
    OBVIOUS
  <2>4. Above(q, i) = t
    BY DEF Nodes
  <2>5. CASE Same(k) /\ Walk(p, j)[k] # i
    BY <2>1, <2>2, <2>3, <2>5, WalkType
  <2>6. CASE Same(k) /\ Walk(p, j)[k] = i
    <3>1. Walk(q, j)[k+1] = t
      BY <2>2, <2>4, <2>6
    <3>2. Walk(p, t)[0] = t /\ (k + 1) - k - 1 = 0 /\ k < k + 1
      BY <2>1, WalkIs
    <3>3. Turned(k + 1, k)
      BY <2>6, <3>1, <3>2
    <3>. QED  BY <2>1, <3>3
  <2>7. ASSUME NEW m \in Lengths, Turned(k, m)
        PROVE  k + 1 \in M
    <3>1. m \in Nat /\ m < k
      BY <2>7, LengthsAreNaturals
    <3>2. k - m - 1 \in 0 .. MaxDepth /\ k - m - 1 \in Lengths
      BY <2>1, <3>1, LengthsAreNaturals DEF Lengths
    <3>3. (k + 1) - m - 1 = (k - m - 1) + 1 /\ m < k + 1
      BY <2>1, <3>1
    <3>4. Walk(p, t)[(k - m - 1) + 1] = Above(p, Walk(p, t)[k - m - 1])
      BY <3>2, WalkIs
    <3>5. Walk(p, t)[k - m - 1] \in Nodes /\ Walk(p, t)[k - m - 1] # i
      BY <3>2, WalkType
    <3>6. Walk(q, j)[k+1] = Above(p, Walk(p, t)[k - m - 1])
      BY <2>2, <2>3, <2>7, <3>5
    <3>7. Turned(k + 1, m)
      BY <2>7, <3>3, <3>4, <3>6
    <3>. QED  BY <2>1, <3>7
  <2>. QED  BY <1>2, <2>5, <2>6, <2>7
<1>3. 0 .. MaxDepth + 1 \subseteq M
  <2>. HIDE DEF M
  <2>. QED  BY <1>1, <1>2, UpTo, LengthsAreNaturals
<1>. QED  BY <1>3 DEF Lengths

LEMMA MoveKeepsForest ==
  ASSUME NEW p \in Parents, NEW i \in Inboxes, NEW t \in Nodes, Ends(p), FitsIn(p, i, t)
  PROVE  Ends([p EXCEPT ![i] = t])
<1>. DEFINE q == [p EXCEPT ![i] = t]
            top == MaxDepth + 1
<1>0. Root \notin Inboxes /\ top \in Lengths /\ top \in Nat /\ MaxDepth \in Nat
  BY TreeAssumption, LengthsAreNaturals DEF Lengths
<1>1. \A k \in Lengths : Walk(p, t)[k] # i
  <2>1. CASE t = Root
    <3>1. Walk(p, t)[0] = Root /\ 0 \in Lengths
      BY <2>1, WalkIs, LengthsAreNaturals DEF Lengths
    <3>2. \A k \in Lengths : 0 <= k
      BY LengthsAreNaturals
    <3>. QED  BY <1>0, <3>1, <3>2, WalkEnds
  <2>2. CASE t # Root
    BY <2>2 DEF FitsIn
  <2>. QED  BY <2>1, <2>2
<1>2. SUFFICES ASSUME NEW j \in Inboxes
               PROVE  Walk(q, j)[top] = Root
  BY DEF Ends
<1>3. CASE Walk(q, j)[top] = Walk(p, j)[top]
  BY <1>3 DEF Ends
<1>4. ASSUME NEW m \in Lengths, m < top, Walk(p, j)[m] = i, Walk(q, j)[top] = Walk(p, t)[top - m - 1]
      PROVE  Walk(q, j)[top] = Root
  <2>. DEFINE n == top - m - 1
  <2>1. m \in Nat /\ n \in Lengths /\ n \in Nat
    BY <1>0, <1>4, LengthsAreNaturals DEF Lengths
  <2>2. CASE t = Root
    <3>1. Walk(p, t)[0] = Root /\ 0 \in Lengths /\ 0 <= n
      BY <2>1, <2>2, WalkIs, LengthsAreNaturals DEF Lengths
    <3>2. Walk(p, t)[n] = Root
      BY <2>1, <3>1, WalkEnds
    <3>. QED  BY <1>4, <3>2
  <2>3. CASE t # Root
    <3>1. DepthIn(p, t) \in Lengths /\ Walk(p, t)[DepthIn(p, t)] = Root
      BY <2>3, DepthEnds DEF Ends, Nodes
    <3>2. DepthIn(p, t) + m <= MaxDepth
      BY <1>4, <2>3 DEF FitsIn
    <3>3. DepthIn(p, t) <= n
      <4>1. DepthIn(p, t) \in Nat
        BY <3>1, LengthsAreNaturals
      <4>. QED  BY <1>0, <2>1, <3>2, <4>1
    <3>4. Walk(p, t)[n] = Root
      BY <2>1, <3>1, <3>3, WalkEnds
    <3>. QED  BY <1>4, <3>4
  <2>. QED  BY <2>2, <2>3
<1>5. \/ Walk(q, j)[top] = Walk(p, j)[top]
      \/ \E m \in Lengths : /\ m < top /\ Walk(p, j)[m] = i
                            /\ Walk(q, j)[top] = Walk(p, t)[top - m - 1]
  <2>1. j \in Nodes
    BY DEF Nodes
  <2>2. \A x \in Nodes : Above(q, x) = IF x = i THEN t ELSE Above(p, x)
    BY <1>0 DEF Above, Nodes, Parents
  <2>. HIDE DEF q
  <2>3. \A k \in Lengths :
          \/ Walk(q, j)[k] = Walk(p, j)[k]
          \/ \E m \in Lengths : /\ m < k /\ Walk(p, j)[m] = i
                                /\ Walk(q, j)[k] = Walk(p, t)[k - m - 1]
    BY <1>1, <2>1, <2>2, MovedWalk
  <2>. HIDE DEF top
  <2>. QED  BY <1>0, <2>3
<1>. QED  BY <1>3, <1>4, <1>5

-----------------------------------------------------------------------------
(* The invariant of the tree.                                               *)

(* The version that a request expects is not ahead of the row's; and from the
   read of the row on, as long as that version is current, the inbox hangs
   where it was read. *)
Aimed(q) == q.inbox \in Inboxes /\ q.to \in Nodes /\ q.expected \in Nat
Grown(q) == q.expected <= version[q.inbox]
Seen(q) == q.expected = version[q.inbox] => q.from = parent[q.inbox]

Moving == {"anchor", "source", "parent", "rows", "move"}
Found == {"parent", "rows", "move"}

RequestFits(q) ==
  /\ DOMAIN q = DOMAIN Waiting
  /\ q.at \in Moving => Aimed(q) /\ Grown(q)
  /\ q.at \in Found => Seen(q)

TreeInv ==
  /\ parent \in Parents
  /\ version \in [Inboxes -> Nat]
  /\ Ends(parent)
  /\ DOMAIN request = Arrangers
  /\ \A r \in Arrangers : RequestFits(request[r])

LEMMA UpIsWalk == \A i : Up(i) = Walk(parent, i)
BY DEF Up, Walk, Lengths

LEMMA WaitingFits ==
  /\ RequestFits(Waiting)
  /\ \A q : q = Waiting => RequestFits(q)
BY DEF RequestFits, Waiting, Moving, Found

LEMMA TreeStarts == TreeInit => TreeInv
<1>. SUFFICES ASSUME TreeInit PROVE TreeInv
  OBVIOUS
<1>1. parent \in Parents /\ version \in [Inboxes -> Nat]
  BY DEF TreeInit, Parents
<1>2. Ends(parent)
  <2>1. SUFFICES ASSUME NEW i \in Inboxes
                 PROVE  Walk(parent, i)[MaxDepth + 1] = Root
    BY DEF Ends
  <2>2. Walk(parent, i)[0] = i /\ 0 \in 0 .. MaxDepth /\ 0 + 1 = 1
    BY WalkIs, LengthsAreNaturals
  <2>3. Walk(parent, i)[0 + 1] = Above(parent, Walk(parent, i)[0])
    BY <2>2, WalkIs
  <2>4. Above(parent, i) = Root
    BY DEF Above, TreeInit
  <2>5. Walk(parent, i)[1] = Root
    BY <2>2, <2>3, <2>4
  <2>6. 1 \in Lengths /\ MaxDepth + 1 \in Lengths /\ 1 <= MaxDepth + 1
    BY LengthsAreNaturals DEF Lengths
  <2>. QED  BY <2>5, <2>6, WalkEnds
<1>3. DOMAIN request = Arrangers /\ \A r \in Arrangers : request[r] = Waiting
  BY DEF TreeInit
<1>. QED  BY <1>1, <1>2, <1>3, WaitingFits DEF TreeInv

(* A request goes on to q, the rows of the tree stay. *)
LEMMA RequestGoesOn ==
  ASSUME TreeInv, NEW r \in Arrangers, NEW q, RequestFits(q),
         request' = [request EXCEPT ![r] = q], UNCHANGED <<parent, version>>
  PROVE  TreeInv'
<1>1. ASSUME NEW x, RequestFits(x)
      PROVE  RequestFits(x)'
  BY <1>1 DEF RequestFits, Aimed, Grown, Seen
<1>2. \A s \in Arrangers : RequestFits(request'[s])
  BY DEF TreeInv
<1>3. DOMAIN request' = Arrangers
  BY DEF TreeInv
<1>4. \A s \in Arrangers : RequestFits(request[s])'
  BY <1>2 DEF RequestFits, Aimed, Grown, Seen
<1>. QED  BY <1>3, <1>4 DEF TreeInv

LEMMA RefusalKeepsTree ==
  ASSUME TreeInv, NEW r \in Arrangers, Refuse(r), UNCHANGED <<parent, version>>
  PROVE  TreeInv'
BY RequestGoesOn, WaitingFits DEF Refuse

LEMMA BeginMoveKeepsTree ==
  ASSUME TreeInv, NEW r \in Arrangers, NEW i \in Inboxes, NEW p \in Inboxes \cup {Root},
         NEW before, BeginMove(r, i, p, before)
  PROVE  TreeInv'
<1>. DEFINE q == [Waiting EXCEPT !.at = "anchor", !.inbox = i, !.to = p, !.before = before,
                                 !.expected = version[i]]
<1>1. request' = [request EXCEPT ![r] = q] /\ UNCHANGED <<parent, version>>
  BY DEF BeginMove, Ask, rows
<1>2. DOMAIN q = DOMAIN Waiting /\ q.at = "anchor" /\ q.inbox = i /\ q.to = p /\ q.expected = version[i]
  BY DEF Waiting
<1>3. version[i] \in Nat
  BY DEF TreeInv
<1>. HIDE DEF q
<1>4. RequestFits(q)
  <2>1. Aimed(q) /\ Grown(q)
    BY <1>2, <1>3 DEF Aimed, Grown, Nodes
  <2>2. q.at \notin Found
    BY <1>2 DEF Found
  <2>. QED  BY <1>2, <2>1, <2>2 DEF RequestFits
<1>. QED  BY <1>1, <1>4, RequestGoesOn

(* Steps that leave what a request is about. *)
LEMMA SameAimFits ==
  ASSUME NEW q, NEW s, RequestFits(q), q.at \in Moving, DOMAIN s = DOMAIN Waiting,
         s.inbox = q.inbox, s.to = q.to, s.expected = q.expected,
         s.at \in Found => (s.expected = version[s.inbox] => s.from = parent[s.inbox])
  PROVE  RequestFits(s)
BY DEF RequestFits, Aimed, Grown, Seen

LEMMA AnchorKeepsTree ==
  ASSUME TreeInv, NEW r \in Arrangers, Anchor(r)
  PROVE  TreeInv'
<1>. DEFINE q == request[r]
            S == Siblings(q.to, q.inbox)
            s == [q EXCEPT !.at = "source", !.place = IF q.before = Root THEN Cardinality(S) ELSE PlaceIn(S, q.before)]
<1>1. UNCHANGED <<parent, version>> /\ q.at = "anchor" /\ RequestFits(q)
  BY DEF Anchor, rows, TreeInv
<1>2. CASE Refuse(r)
  BY <1>1, <1>2, RefusalKeepsTree
<1>3. CASE request' = [request EXCEPT ![r] = s]
  <2>1. DOMAIN q = DOMAIN Waiting
    BY <1>1 DEF RequestFits
  <2>2. /\ DOMAIN s = DOMAIN Waiting /\ s.at = "source"
        /\ s.inbox = q.inbox /\ s.to = q.to /\ s.expected = q.expected
    BY <2>1 DEF Waiting
  <2>3. q.at \in Moving /\ s.at \notin Found
    BY <1>1, <2>2 DEF Moving, Found
  <2>4. RequestFits(s)
    <3>. HIDE DEF s, q
    <3>. QED  BY <1>1, <2>2, <2>3, SameAimFits
  <2>. HIDE DEF s, q
  <2>. QED  BY <1>1, <1>3, <2>4, RequestGoesOn
<1>4. Refuse(r) \/ request' = [request EXCEPT ![r] = s]
  BY DEF Anchor, TreeInv
<1>. QED  BY <1>2, <1>3, <1>4

LEMMA ReadSourceKeepsTree ==
  ASSUME TreeInv, NEW r \in Arrangers, ReadSource(r)
  PROVE  TreeInv'
<1>. DEFINE q == request[r]
            s == [q EXCEPT !.at = "parent", !.from = parent[q.inbox]]
<1>1. UNCHANGED <<parent, version>> /\ q.at = "source" /\ RequestFits(q)
  BY DEF ReadSource, rows, TreeInv
<1>2. CASE Refuse(r)
  BY <1>1, <1>2, RefusalKeepsTree
<1>3. CASE request' = [request EXCEPT ![r] = s]
  <2>1. DOMAIN q = DOMAIN Waiting
    BY <1>1 DEF RequestFits
  <2>2. /\ DOMAIN s = DOMAIN Waiting /\ s.from = parent[q.inbox]
        /\ s.inbox = q.inbox /\ s.to = q.to /\ s.expected = q.expected
    BY <2>1 DEF Waiting
  <2>3. q.at \in Moving
    BY <1>1 DEF Moving
  <2>4. RequestFits(s)
    <3>. HIDE DEF s, q
    <3>. QED  BY <1>1, <2>2, <2>3, SameAimFits
  <2>. HIDE DEF s, q
  <2>. QED  BY <1>1, <1>3, <2>4, RequestGoesOn
<1>4. Refuse(r) \/ request' = [request EXCEPT ![r] = s]
  BY DEF ReadSource, TreeInv
<1>. QED  BY <1>2, <1>3, <1>4

LEMMA CheckParentKeepsTree ==
  ASSUME TreeInv, NEW r \in Arrangers, CheckParent(r)
  PROVE  TreeInv'
<1>. DEFINE q == request[r]
            s == [q EXCEPT !.at = "rows"]
<1>1. UNCHANGED <<parent, version>> /\ q.at = "parent" /\ RequestFits(q)
  BY DEF CheckParent, rows, TreeInv
<1>2. CASE Refuse(r)
  BY <1>1, <1>2, RefusalKeepsTree
<1>3. CASE request' = [request EXCEPT ![r] = s]
  <2>1. DOMAIN q = DOMAIN Waiting /\ Seen(q)
    BY <1>1 DEF RequestFits, Found
  <2>2. /\ DOMAIN s = DOMAIN Waiting /\ s.from = q.from
        /\ s.inbox = q.inbox /\ s.to = q.to /\ s.expected = q.expected
    BY <2>1 DEF Waiting
  <2>3. q.at \in Moving
    BY <1>1 DEF Moving
  <2>4. RequestFits(s)
    <3>. HIDE DEF s, q
    <3>1. s.expected = version[s.inbox] => s.from = parent[s.inbox]
      BY <2>1, <2>2 DEF Seen
    <3>. QED  BY <1>1, <2>2, <2>3, <3>1, SameAimFits
  <2>. HIDE DEF s, q
  <2>. QED  BY <1>1, <1>3, <2>4, RequestGoesOn
<1>4. Refuse(r) \/ request' = [request EXCEPT ![r] = s]
  BY DEF CheckParent, Step, TreeInv
<1>. QED  BY <1>2, <1>3, <1>4

LEMMA ReadRowsKeepsTree ==
  ASSUME TreeInv, NEW r \in Arrangers, ReadRows(r)
  PROVE  TreeInv'
<1>. DEFINE q == request[r]
            s == [q EXCEPT !.at = "move", !.write = NewPlaces(q)]
<1>1. UNCHANGED <<parent, version>> /\ q.at = "rows" /\ RequestFits(q)
  BY DEF ReadRows, rows, TreeInv
<1>2. CASE Refuse(r)
  BY <1>1, <1>2, RefusalKeepsTree
<1>3. CASE request' = [request EXCEPT ![r] = s]
  <2>1. DOMAIN q = DOMAIN Waiting /\ Seen(q)
    BY <1>1 DEF RequestFits, Found
  <2>2. /\ DOMAIN s = DOMAIN Waiting /\ s.from = q.from
        /\ s.inbox = q.inbox /\ s.to = q.to /\ s.expected = q.expected
    BY <2>1 DEF Waiting
  <2>3. q.at \in Moving
    BY <1>1 DEF Moving
  <2>4. RequestFits(s)
    <3>. HIDE DEF s, q
    <3>1. s.expected = version[s.inbox] => s.from = parent[s.inbox]
      BY <2>1, <2>2 DEF Seen
    <3>. QED  BY <1>1, <2>2, <2>3, <3>1, SameAimFits
  <2>. HIDE DEF s, q
  <2>. QED  BY <1>1, <1>3, <2>4, RequestGoesOn
<1>4. Refuse(r) \/ request' = [request EXCEPT ![r] = s]
  BY DEF ReadRows, TreeInv
<1>. QED  BY <1>2, <1>3, <1>4

(* A step to a stage that a move does not have. *)
LEMMA ElsewhereFits ==
  ASSUME NEW s, DOMAIN s = DOMAIN Waiting, s.at \notin Moving
  PROVE  RequestFits(s)
BY DEF RequestFits, Moving, Found

LEMMA ReorderingKeepsTree ==
  ASSUME TreeInv, NEW r \in Arrangers,
         (\E i \in Inboxes : BeginReorder(r, i)) \/ ListOrder(r) \/ Reorder(r)
  PROVE  TreeInv'
<1>1. ASSUME NEW i \in Inboxes, BeginReorder(r, i)
      PROVE  TreeInv'
  <2>. DEFINE s == [Waiting EXCEPT !.at = "list", !.inbox = i]
  <2>1. request' = [request EXCEPT ![r] = s] /\ UNCHANGED <<parent, version>>
    BY <1>1 DEF BeginReorder, Ask, rows
  <2>2. DOMAIN s = DOMAIN Waiting /\ s.at = "list"
    BY DEF Waiting
  <2>3. s.at \notin Moving
    BY <2>2 DEF Moving
  <2>. HIDE DEF s
  <2>4. RequestFits(s)
    BY <2>2, <2>3, ElsewhereFits
  <2>. QED  BY <2>1, <2>4, RequestGoesOn
<1>2. CASE ListOrder(r)
  <2>. DEFINE q == request[r]
              i == q.inbox
              w == [j \in Inboxes |-> IF j = i THEN 0 ELSE PlaceIn(Inboxes \ {i}, j) + 1]
              s == [q EXCEPT !.at = "order", !.write = [j \in {j \in Inboxes : w[j] # order[j]} |-> w[j]]]
  <2>1. UNCHANGED <<parent, version>> /\ RequestFits(q)
    BY <1>2 DEF ListOrder, rows, TreeInv
  <2>2. CASE Refuse(r)
    BY <2>1, <2>2, RefusalKeepsTree
  <2>3. CASE request' = [request EXCEPT ![r] = s]
    <3>1. DOMAIN q = DOMAIN Waiting
      BY <2>1 DEF RequestFits
    <3>2. DOMAIN s = DOMAIN Waiting /\ s.at = "order"
      BY <3>1 DEF Waiting
    <3>3. s.at \notin Moving
      BY <3>2 DEF Moving
    <3>. HIDE DEF s, q
    <3>4. RequestFits(s)
      BY <3>2, <3>3, ElsewhereFits
    <3>. QED  BY <2>1, <2>3, <3>4, RequestGoesOn
  <2>4. Refuse(r) \/ request' = [request EXCEPT ![r] = s]
    BY <1>2 DEF ListOrder, TreeInv
  <2>. QED  BY <2>2, <2>3, <2>4
<1>3. CASE Reorder(r)
  BY <1>3, RefusalKeepsTree DEF Reorder
<1>. QED  BY <1>1, <1>2, <1>3

(* What the trigger lets pass fits. *)
LEMMA TriggerFits ==
  ASSUME NEW i, NEW t, ~TriggerAborts(i, t)
  PROVE  FitsIn(parent, i, t)
<1>1. Fits(i, t)
  BY DEF TriggerAborts
<1>2. ASSUME NEW x
      PROVE  Depth(x) = DepthIn(parent, x)
  BY UpIsWalk DEF Depth, DepthIn
<1>. QED  BY <1>1, <1>2, UpIsWalk DEF Fits, FitsIn, Below, Lengths

(* The guarded UPDATE: the forest stands, and no version goes back. *)
LEMMA MoveKeepsTree ==
  ASSUME TreeInv, NEW r \in Arrangers, Move(r)
  PROVE  TreeInv'
<1>. DEFINE q == request[r]
<1>1. CASE UNCHANGED <<parent, version>>
  BY <1>1, RefusalKeepsTree DEF Move
<1>2. CASE ~ UNCHANGED <<parent, version>>
  <2>1. Current(q) /\ ~TriggerAborts(q.inbox, q.to)
    BY <1>2 DEF Move, rows
  <2>2. /\ parent' = [parent EXCEPT ![q.inbox] = q.to]
        /\ version' = [j \in Inboxes |->
             IF j = q.inbox \/ (j \in DOMAIN q.write /\ q.write[j] # order[j])
             THEN version[j] + 1 ELSE version[j]]
        /\ request' = [request EXCEPT ![r] = Waiting]
    BY <2>1 DEF Move, Refuse
  <2>3. q.inbox \in Inboxes /\ q.to \in Nodes
    BY DEF Move, TreeInv, RequestFits, Moving, Aimed
  <2>. HIDE DEF q
  <2>4. parent' \in Parents
    BY <2>2, <2>3 DEF TreeInv, Parents, Nodes
  <2>5. /\ version' \in [Inboxes -> Nat]
        /\ \A j \in Inboxes : version[j] \in Nat /\ version[j] <= version'[j]
        /\ version'[q.inbox] = version[q.inbox] + 1
    BY <2>2, <2>3 DEF TreeInv
  <2>6. Ends(parent')
    <3>1. Ends([parent EXCEPT ![q.inbox] = q.to])
      BY <2>1, <2>3, TriggerFits, MoveKeepsForest DEF TreeInv
    <3>. QED  BY <2>2, <3>1
  <2>7. ASSUME NEW s \in Arrangers
        PROVE  RequestFits(request[s])'
    <3>1. CASE s = r
      <4>1. request'[s] = Waiting
        BY <2>2, <3>1 DEF TreeInv
      <4>. QED  BY <4>1 DEF RequestFits, Waiting, Moving, Found
    <3>2. CASE s # r
      <4>. DEFINE u == request[s]
      <4>1. request'[s] = u /\ RequestFits(u)
        BY <2>2, <3>2 DEF TreeInv
      <4>. HIDE DEF u
      <4>2. CASE u.at \notin Moving
        BY <4>1, <4>2 DEF RequestFits, Moving, Found
      <4>3. CASE u.at \in Moving
        <5>1. u.inbox \in Inboxes /\ u.to \in Nodes /\ u.expected \in Nat /\ u.expected <= version[u.inbox]
          BY <4>1, <4>3 DEF RequestFits, Aimed, Grown
        <5>2. u.expected <= version'[u.inbox]
          BY <2>5, <5>1
        <5>3. u.expected = version'[u.inbox] => u.inbox # q.inbox /\ u.expected = version[u.inbox]
          <6>1. version'[u.inbox] \in Nat /\ version[u.inbox] \in Nat /\ version[u.inbox] <= version'[u.inbox]
            BY <2>5, <5>1
          <6>2. u.inbox = q.inbox => version'[u.inbox] = version[u.inbox] + 1
            BY <2>5
          <6>. QED  BY <5>1, <6>1, <6>2
        <5>4. u.inbox # q.inbox => parent'[u.inbox] = parent[u.inbox]
          BY <2>2, <5>1 DEF TreeInv, Parents
        <5>5. u.at \in Found /\ u.expected = version'[u.inbox] => u.from = parent'[u.inbox]
          BY <4>1, <5>3, <5>4 DEF RequestFits, Seen
        <5>6. DOMAIN u = DOMAIN Waiting
          BY <4>1 DEF RequestFits
        <5>. QED  BY <4>1, <5>1, <5>2, <5>5, <5>6 DEF RequestFits, Aimed, Grown, Seen
      <4>. QED  BY <4>2, <4>3
    <3>. QED  BY <3>1, <3>2
  <2>8. DOMAIN request' = Arrangers
    BY <2>2 DEF TreeInv
  <2>. QED  BY <2>4, <2>5, <2>6, <2>7, <2>8 DEF TreeInv
<1>. QED  BY <1>1, <1>2

LEMMA TreeStep == TreeInv /\ [TreeNext]_treeVars => TreeInv'
<1>. SUFFICES ASSUME TreeInv, [TreeNext]_treeVars
              PROVE  TreeInv'
  OBVIOUS
<1>1. CASE UNCHANGED treeVars
  BY <1>1 DEF treeVars, TreeInv, RequestFits, Aimed, Grown, Seen
<1>2. ASSUME NEW r \in Arrangers,
             \E i \in Inboxes : \E p, before \in Inboxes \cup {Root} : BeginMove(r, i, p, before)
      PROVE  TreeInv'
  BY <1>2, BeginMoveKeepsTree
<1>3. ASSUME NEW r \in Arrangers,
             (\E i \in Inboxes : BeginReorder(r, i)) \/ ListOrder(r) \/ Reorder(r)
      PROVE  TreeInv'
  BY <1>3, ReorderingKeepsTree
<1>4. ASSUME NEW r \in Arrangers, Anchor(r) \/ ReadSource(r) \/ CheckParent(r) \/ ReadRows(r) \/ Move(r)
      PROVE  TreeInv'
  BY <1>4, AnchorKeepsTree, ReadSourceKeepsTree, CheckParentKeepsTree, ReadRowsKeepsTree, MoveKeepsTree
<1>. QED  BY <1>1, <1>2, <1>3, <1>4 DEF TreeNext

THEOREM TreeInvariant == TreeSpec => []TreeInv
<1>. QED  BY TreeStarts, TreeStep, PTL DEF TreeSpec

(* The inboxes form a forest of bounded depth whatever moves run at the same
   time: the trigger of inboxes_parent_workspace_update checks the parents
   and the depth once more, in the statement that moves. *)
THEOREM InboxesFormAForest == TreeSpec => []Forest
<1>1. TreeInv => Forest
  BY UpIsWalk DEF TreeInv, Ends, Forest
<1>. QED  BY <1>1, TreeInvariant, PTL

(* moveInboxInTree: who moves an inbox takes it from where he saw it, under
   the version that he saw. *)
THEOREM InboxesMoveFromWhereSeen == TreeSpec => MovesAreCurrent
<1>. DEFINE Taken == \A i \in Inboxes : parent'[i] # parent[i] =>
                       \E r \in Arrangers :
                         /\ request[r].inbox = i /\ request[r].at = "move"
                         /\ request[r].from = parent[i] /\ request[r].expected = version[i]
<1>1. TreeInv /\ [TreeNext]_treeVars => [Taken]_treeVars
  <2>. SUFFICES ASSUME TreeInv, TreeNext, NEW i \in Inboxes, parent'[i] # parent[i]
                PROVE  \E r \in Arrangers :
                         /\ request[r].inbox = i /\ request[r].at = "move"
                         /\ request[r].from = parent[i] /\ request[r].expected = version[i]
    OBVIOUS
  <2>1. PICK r \in Arrangers : Move(r)
    BY DEF TreeNext, BeginMove, BeginReorder, Anchor, ReadSource, CheckParent, ReadRows,
           ListOrder, Reorder, rows
  <2>2. Current(request[r]) /\ parent' = [parent EXCEPT ![request[r].inbox] = request[r].to]
    BY <2>1 DEF Move, rows
  <2>3. request[r].at = "move" /\ request[r].inbox = i
    BY <2>1, <2>2 DEF Move, TreeInv, Parents
  <2>4. request[r].from = parent[i] /\ request[r].expected = version[i]
    BY <2>2, <2>3 DEF TreeInv, RequestFits, Seen, Found, Current
  <2>. QED  BY <2>3, <2>4
<1>. QED  BY <1>1, TreeInvariant, PTL DEF TreeSpec, MovesAreCurrent

-----------------------------------------------------------------------------
(* The walks of the sidebar.                                                *)

(* Every tree whose walks end has levels: the inboxes at the root are on the
   first, and there are no more levels than inboxes. *)
Levelled(p, d) ==
  /\ d \in [Inboxes -> 1 .. Cardinality(Inboxes)]
  /\ \A j \in Inboxes : p[j] # Root => d[j] = d[p[j]] + 1

(* The walk of an inbox is that of its parent, a step later. *)
LEMMA WalkFromParent ==
  ASSUME NEW p, NEW j, j # Root
  PROVE  \A k \in 0 .. MaxDepth : Walk(p, j)[k+1] = Walk(p, p[j])[k]
<1>. DEFINE M == {k \in 0 .. MaxDepth : Walk(p, j)[k+1] = Walk(p, p[j])[k]}
<1>1. 0 \in M
  <2>1. 0 \in 0 .. MaxDepth /\ 0 + 1 = 1
    BY LengthsAreNaturals
  <2>2. Walk(p, j)[0 + 1] = Above(p, Walk(p, j)[0]) /\ Walk(p, j)[0] = j /\ Walk(p, p[j])[0] = p[j]
    BY <2>1, WalkIs
  <2>. QED  BY <2>1, <2>2 DEF Above
<1>2. ASSUME NEW k \in 0 .. MaxDepth, k \in M, k < MaxDepth
      PROVE  k + 1 \in M
  <2>1. k + 1 \in 0 .. MaxDepth
    BY <1>2, LengthsAreNaturals
  <2>2. Walk(p, j)[(k+1)+1] = Above(p, Walk(p, j)[k+1]) /\ Walk(p, p[j])[k+1] = Above(p, Walk(p, p[j])[k])
    BY <2>1, WalkIs
  <2>. QED  BY <1>2, <2>1, <2>2
<1>3. 0 .. MaxDepth \subseteq M
  <2>. HIDE DEF M
  <2>. QED  BY <1>1, <1>2, UpTo, LengthsAreNaturals
<1>. QED  BY <1>3

LEMMA TreeHasLevels ==
  ASSUME NEW p \in Parents, Ends(p)
  PROVE  \E d : Levelled(p, d)
<1>. DEFINE Tops(j) == {k \in Lengths : Walk(p, j)[k] = Root}
            d == [j \in Inboxes |-> CHOOSE m \in Tops(j) : \A k \in Tops(j) : m <= k]
<1>0. Root \notin Inboxes /\ IsFiniteSet(Inboxes)
  BY TreeAssumption
<1>1. ASSUME NEW j \in Inboxes
      PROVE  d[j] \in Tops(j) /\ \A k \in Tops(j) : d[j] <= k
  <2>1. Tops(j) # {} /\ Tops(j) \in SUBSET Nat
    BY LengthsAreNaturals DEF Ends, Lengths
  <2>2. \E m \in Tops(j) : \A k \in Tops(j) : m <= k
    <3>. HIDE DEF Tops
    <3>. QED  BY <2>1, Least
  <2>. HIDE DEF Tops
  <2>. QED  BY <2>2
<1>2. ASSUME NEW j \in Inboxes
      PROVE  d[j] \in 1 .. MaxDepth + 1
  <2>1. d[j] \in Lengths /\ Walk(p, j)[d[j]] = Root
    BY <1>1
  <2>2. d[j] # 0
    BY <1>0, <2>1, WalkIs
  <2>. HIDE DEF d
  <2>. QED  BY <2>1, <2>2, LengthsAreNaturals DEF Lengths
<1>3. ASSUME NEW j \in Inboxes, p[j] # Root
      PROVE  p[j] \in Inboxes /\ d[j] = d[p[j]] + 1
  <2>1. p[j] \in Inboxes
    BY <1>3 DEF Parents
  <2>. DEFINE q == p[j]
  <2>2. d[j] \in 1 .. MaxDepth + 1 /\ d[q] \in 1 .. MaxDepth + 1
    BY <1>2, <2>1
  <2>3. \A k \in 0 .. MaxDepth : Walk(p, j)[k+1] = Walk(p, q)[k]
    BY <1>0, WalkFromParent
  <2>4. d[j] - 1 \in 0 .. MaxDepth /\ (d[j] - 1) + 1 = d[j]
    BY <2>2, LengthsAreNaturals
  <2>5. d[q] <= d[j] - 1
    <3>1. Walk(p, q)[d[j] - 1] = Root
      BY <1>1, <2>3, <2>4
    <3>2. d[j] - 1 \in Lengths
      BY <2>4, LengthsAreNaturals DEF Lengths
    <3>. HIDE DEF d
    <3>. QED  BY <1>1, <2>1, <3>1, <3>2
  <2>6. d[j] <= d[q] + 1
    <3>1. CASE d[q] = MaxDepth + 1
      <4>. HIDE DEF d
      <4>. QED  BY <2>2, <3>1, LengthsAreNaturals
    <3>2. CASE d[q] # MaxDepth + 1
      <4>1. d[q] \in 0 .. MaxDepth
        <5>. HIDE DEF d
        <5>. QED  BY <2>2, <3>2, LengthsAreNaturals
      <4>2. Walk(p, j)[d[q] + 1] = Root
        BY <1>1, <2>1, <2>3, <4>1
      <4>3. d[q] + 1 \in Lengths
        <5>. HIDE DEF d
        <5>. QED  BY <4>1, LengthsAreNaturals DEF Lengths
      <4>. HIDE DEF d
      <4>. QED  BY <1>1, <4>2, <4>3
    <3>. QED  BY <3>1, <3>2
  <2>. HIDE DEF d
  <2>. QED  BY <2>1, <2>2, <2>5, <2>6, LengthsAreNaturals
<1>. DEFINE Low(m) == {j \in Inboxes : d[j] <= m}
            M == {m \in 0 .. MaxDepth + 1 : (\E j \in Inboxes : d[j] = m) => m <= Cardinality(Low(m))}
<1>4. ASSUME NEW m \in Nat
      PROVE  Low(m) \subseteq Inboxes /\ IsFiniteSet(Low(m)) /\ Cardinality(Low(m)) \in Nat
             /\ Cardinality(Low(m)) <= Cardinality(Inboxes)
  BY <1>0, FS_Subset, FS_CardinalityType
<1>5. 0 \in M
  <2>1. Cardinality(Low(0)) \in Nat
    BY <1>4
  <2>. HIDE DEF Low, d
  <2>. QED  BY <2>1, LengthsAreNaturals
<1>6. ASSUME NEW m \in 0 .. MaxDepth + 1, m \in M, m < MaxDepth + 1
      PROVE  m + 1 \in M
  <2>0. m \in Nat /\ m + 1 \in 0 .. MaxDepth + 1
    BY <1>6, LengthsAreNaturals
  <2>1. SUFFICES ASSUME NEW j \in Inboxes, d[j] = m + 1
                 PROVE  m + 1 <= Cardinality(Low(m + 1))
    BY <2>0
  <2>2. m <= Cardinality(Low(m))
    <3>1. CASE p[j] = Root
      <4>1. CASE m = 0
        <5>. HIDE DEF Low, d
        <5>. QED  BY <1>4, <2>0, <4>1
      <4>2. CASE m # 0
        <5>1. 0 \in 0 .. MaxDepth /\ 0 + 1 = 1 /\ 1 \in Lengths
          BY LengthsAreNaturals DEF Lengths
        <5>2. Walk(p, j)[0 + 1] = Walk(p, Root)[0] /\ Walk(p, Root)[0] = Root
          BY <1>0, <3>1, <5>1, WalkFromParent, WalkIs
        <5>3. d[j] <= 1
          BY <1>1, <5>1, <5>2
        <5>. HIDE DEF d
        <5>. QED  BY <2>0, <2>1, <4>2, <5>3
      <4>. QED  BY <4>1, <4>2
    <3>2. CASE p[j] # Root
      <4>1. p[j] \in Inboxes /\ d[p[j]] = m
        <5>1. d[p[j]] \in 1 .. MaxDepth + 1
          BY <1>2, <1>3, <3>2
        <5>. HIDE DEF d
        <5>. QED  BY <1>3, <2>0, <2>1, <3>2, <5>1
      <4>. HIDE DEF d, Low
      <4>. QED  BY <1>6, <4>1
    <3>. QED  BY <3>1, <3>2
  <2>3. j \in Low(m + 1) /\ j \notin Low(m) /\ Low(m) \subseteq Low(m + 1)
    <3>1. \A i \in Inboxes : d[i] \in Nat
      <4>. HIDE DEF d
      <4>. QED  BY <1>2, LengthsAreNaturals
    <3>. HIDE DEF d
    <3>. QED  BY <2>0, <2>1, <3>1
  <2>4. Cardinality(Low(m) \cup {j}) = Cardinality(Low(m)) + 1
    BY <1>4, <2>0, <2>3, FS_AddElement
  <2>5. Cardinality(Low(m) \cup {j}) <= Cardinality(Low(m + 1))
    <3>. HIDE DEF Low
    <3>1. IsFiniteSet(Low(m + 1)) /\ Low(m) \cup {j} \subseteq Low(m + 1)
      BY <1>4, <2>0, <2>3
    <3>. QED  BY <3>1, FS_Subset
  <2>. HIDE DEF Low
  <2>. QED  BY <1>4, <2>0, <2>2, <2>4, <2>5
<1>7. 0 .. MaxDepth + 1 \subseteq M
  <2>. HIDE DEF M
  <2>. QED  BY <1>5, <1>6, UpTo, LengthsAreNaturals
<1>8. ASSUME NEW j \in Inboxes
      PROVE  d[j] \in 1 .. Cardinality(Inboxes)
  <2>1. d[j] \in 0 .. MaxDepth + 1 /\ d[j] \in Nat /\ d[j] >= 1
    BY <1>2, LengthsAreNaturals
  <2>2. d[j] <= Cardinality(Low(d[j]))
    <3>. HIDE DEF Low, d
    <3>. QED  BY <1>7, <2>1
  <2>3. Cardinality(Low(d[j])) <= Cardinality(Inboxes) /\ Cardinality(Low(d[j])) \in Nat /\ Cardinality(Inboxes) \in Nat
    BY <1>0, <1>4, <2>1, FS_CardinalityType
  <2>. HIDE DEF Low, d
  <2>. QED  BY <2>1, <2>2, <2>3
<1>9. d \in [Inboxes -> 1 .. Cardinality(Inboxes)]
  BY <1>8
<1>. QED
  <2>. HIDE DEF d
  <2>. QED  BY <1>3, <1>9 DEF Levelled

(* f iterates the function g on S from a, as far as n. *)
Iterate(S, g, a, n, f) == f \in [0 .. n -> S] /\ f = [k \in 0 .. n |-> IF k = 0 THEN a ELSE g[f[k-1]]]

LEMMA Iterates ==
  ASSUME NEW S, NEW g \in [S -> S], NEW a \in S, NEW n \in Nat
  PROVE  \E f : Iterate(S, g, a, n, f)
<1>. DEFINE M == {m \in Nat : \E f : Iterate(S, g, a, m, f)}
<1>1. 0 \in M
  <2>. DEFINE f == [k \in 0 .. 0 |-> a]
  <2>1. f \in [0 .. 0 -> S] /\ f = [k \in 0 .. 0 |-> IF k = 0 THEN a ELSE g[f[k-1]]]
    OBVIOUS
  <2>2. Iterate(S, g, a, 0, f)
    BY <2>1 DEF Iterate
  <2>. QED  BY <2>2
<1>2. ASSUME NEW m \in 0 .. n, m \in M
      PROVE  m + 1 \in M
  <2>1. PICK f : Iterate(S, g, a, m, f)
    BY <1>2
  <2>. DEFINE h == [k \in 0 .. m + 1 |-> IF k = m + 1 THEN g[f[m]] ELSE f[k]]
  <2>2. ASSUME NEW k \in 0 .. m + 1
        PROVE  h[k] \in S /\ h[k] = IF k = 0 THEN a ELSE g[h[k-1]]
    <3>1. CASE k = m + 1
      <4>1. f[m] \in S
        BY <2>1 DEF Iterate
      <4>. QED  BY <3>1, <4>1
    <3>2. CASE k # m + 1
      <4>1. k \in 0 .. m /\ (k # 0 => k - 1 \in 0 .. m /\ k - 1 # m + 1)
        BY <3>2
      <4>2. f[k] \in S /\ f[k] = IF k = 0 THEN a ELSE g[f[k-1]]
        BY <2>1, <4>1 DEF Iterate
      <4>. QED  BY <3>2, <4>1, <4>2
    <3>. QED  BY <3>1, <3>2
  <2>3. h \in [0 .. m + 1 -> S] /\ h = [k \in 0 .. m + 1 |-> IF k = 0 THEN a ELSE g[h[k-1]]]
    BY <2>2
  <2>4. Iterate(S, g, a, m + 1, h)
    <3>. HIDE DEF h
    <3>. QED  BY <2>3 DEF Iterate
  <2>. HIDE DEF h
  <2>. QED  BY <2>4
<1>3. 0 .. n \subseteq M
  <2>. HIDE DEF M
  <2>. QED  BY <1>1, <1>2, UpTo
<1>. QED  BY <1>3

(* The inboxes of R with a parent in S. *)
Under(p, R, S) == {j \in R : p[j] \in S}

(* The levels of DrawnBelow(p, i, R). *)
Down(p, i, R) ==
  LET down[k \in Levels] == IF k = 0 THEN {i} ELSE {j \in R : p[j] \in down[k-1]}
  IN down

LEMMA CountIsNatural == Cardinality(Inboxes) \in Nat /\ IsFiniteSet(Inboxes) /\ Root \notin Inboxes
BY TreeAssumption, FS_CardinalityType

Descends(p, i, R, down) ==
  /\ down \in [Levels -> SUBSET Inboxes]
  /\ down[0] = {i}
  /\ \A k \in Levels : k # 0 => down[k] = Under(p, R, down[k-1])
  /\ \A j : j \in DrawnBelow(p, i, R) <=> \E k \in Levels : j \in down[k]

LEMMA DownIs ==
  ASSUME NEW p, NEW R \in SUBSET Inboxes, NEW i \in Inboxes
  PROVE  Descends(p, i, R, Down(p, i, R))
<1>. DEFINE N == Cardinality(Inboxes)
            Children(S) == Under(p, R, S)
            g == [S \in SUBSET Inboxes |-> Children(S)]
<1>1. g \in [SUBSET Inboxes -> SUBSET Inboxes] /\ {i} \in SUBSET Inboxes
  BY DEF Under
<1>2. PICK f \in [0 .. N -> SUBSET Inboxes] : f = [k \in 0 .. N |-> IF k = 0 THEN {i} ELSE g[f[k-1]]]
  <2>. DEFINE S == SUBSET Inboxes
              a == {i}
  <2>1. N \in Nat /\ g \in [S -> S] /\ a \in S
    BY <1>1, CountIsNatural
  <2>. HIDE DEF g, N, S, a
  <2>2. PICK f : Iterate(S, g, a, N, f)
    BY <2>1, Iterates
  <2>. QED  BY <2>2 DEF Iterate, S, a
<1>3. f = [k \in Levels |-> IF k = 0 THEN {i} ELSE Children(f[k-1])]
  <2>1. ASSUME NEW k \in 0 .. N, k # 0
        PROVE  g[f[k-1]] = Children(f[k-1])
    <3>1. k - 1 \in 0 .. N
      BY <2>1, CountIsNatural
    <3>2. f[k-1] \in SUBSET Inboxes
      BY <3>1
    <3>. HIDE DEF Children
    <3>. QED  BY <3>2
  <2>. HIDE DEF g, Children
  <2>. QED  BY <1>2, <2>1 DEF Levels
<1>. DEFINE down == Down(p, i, R)
<1>4. down = [k \in Levels |-> IF k = 0 THEN {i} ELSE Children(down[k-1])]
  BY <1>3 DEF Down, Under
<1>5. 0 \in Levels
  BY CountIsNatural DEF Levels
<1>6. down[0] = {i} /\ \A k \in Levels : k # 0 => down[k] = Children(down[k-1])
  <2>. HIDE DEF down, Children
  <2>. QED  BY <1>4, <1>5
<1>7. down \in [Levels -> SUBSET Inboxes]
  <2>1. \A k \in Levels : down[k] \in SUBSET Inboxes
    <3>1. \A S : Children(S) \in SUBSET Inboxes
      BY DEF Under
    <3>. HIDE DEF down, Children
    <3>. QED  BY <1>6, <3>1
  <2>. HIDE DEF down, Children
  <2>. QED  BY <1>4, <2>1
<1>8. \A j : j \in DrawnBelow(p, i, R) <=> \E k \in Levels : j \in down[k]
  <2>1. DrawnBelow(p, i, R) = UNION {down[k] : k \in Levels}
    BY DEF DrawnBelow, Down
  <2>. HIDE DEF down
  <2>. QED  BY <2>1
<1>. QED
  <2>1. down[0] = {i} /\ \A k \in Levels : k # 0 => down[k] = Under(p, R, down[k-1])
    BY <1>6
  <2>2. Descends(p, i, R, down)
    <3>. HIDE DEF down, Children
    <3>. QED  BY <1>7, <1>8, <2>1 DEF Descends
  <2>. QED  BY <2>2

(* What countInboxDescendants has found after each of its rounds. *)
Finding(p, i, R) ==
  LET found[k \in Levels] ==
        IF k = 0 THEN {i} \cap R ELSE found[k-1] \cup {j \in R : p[j] \in found[k-1]}
  IN found

Finds(p, i, R, found) ==
  /\ found \in [Levels -> SUBSET R]
  /\ found[0] = {i}
  /\ \A k \in Levels : k # 0 => found[k] = found[k-1] \cup Under(p, R, found[k-1])
  /\ Counted(p, i, R) = found[Cardinality(Inboxes)]

LEMMA FoundIs ==
  ASSUME NEW p, NEW R \in SUBSET Inboxes, NEW i \in R
  PROVE  Finds(p, i, R, Finding(p, i, R))
<1>. DEFINE N == Cardinality(Inboxes)
            More(S) == S \cup Under(p, R, S)
            g == [S \in SUBSET R |-> More(S)]
<1>1. g \in [SUBSET R -> SUBSET R] /\ {i} \cap R \in SUBSET R
  BY DEF Under
<1>2. PICK f \in [0 .. N -> SUBSET R] : f = [k \in 0 .. N |-> IF k = 0 THEN {i} \cap R ELSE g[f[k-1]]]
  <2>. DEFINE S == SUBSET R
              a == {i} \cap R
  <2>1. N \in Nat /\ g \in [S -> S] /\ a \in S
    BY <1>1, CountIsNatural
  <2>. HIDE DEF g, N, S, a
  <2>2. PICK f : Iterate(S, g, a, N, f)
    BY <2>1, Iterates
  <2>. QED  BY <2>2 DEF Iterate, S, a
<1>3. f = [k \in Levels |-> IF k = 0 THEN {i} \cap R ELSE More(f[k-1])]
  <2>1. ASSUME NEW k \in 0 .. N, k # 0
        PROVE  g[f[k-1]] = More(f[k-1])
    <3>1. k - 1 \in 0 .. N
      BY <2>1, CountIsNatural
    <3>2. f[k-1] \in SUBSET R
      BY <3>1
    <3>. HIDE DEF More
    <3>. QED  BY <3>2
  <2>. HIDE DEF g, More
  <2>. QED  BY <1>2, <2>1 DEF Levels
<1>. DEFINE found == Finding(p, i, R)
<1>4. found = [k \in Levels |-> IF k = 0 THEN {i} \cap R ELSE More(found[k-1])]
  BY <1>3 DEF Finding, Under
<1>5. 0 \in Levels
  BY CountIsNatural DEF Levels
<1>6. found[0] = {i} /\ \A k \in Levels : k # 0 => found[k] = More(found[k-1])
  <2>1. {i} \cap R = {i}
    OBVIOUS
  <2>. HIDE DEF found, More
  <2>. QED  BY <1>4, <1>5, <2>1
<1>7. found \in [Levels -> SUBSET R]
  <2>. DEFINE M == {k \in Levels : found[k] \in SUBSET R}
  <2>1. 0 \in M
    BY <1>5, <1>6
  <2>2. ASSUME NEW k \in 0 .. N, k \in M, k < N
        PROVE  k + 1 \in M
    <3>1. k + 1 \in Levels /\ k + 1 # 0 /\ (k + 1) - 1 = k
      BY <2>2, CountIsNatural DEF Levels
    <3>2. found[k+1] = More(found[k])
      <4>. HIDE DEF found, More
      <4>. QED  BY <1>6, <3>1
    <3>. HIDE DEF found
    <3>. QED  BY <2>2, <3>1, <3>2 DEF Under
  <2>3. 0 .. N \subseteq M
    <3>. HIDE DEF M
    <3>. QED  BY <2>1, <2>2, UpTo, CountIsNatural
  <2>. HIDE DEF found, More
  <2>. QED  BY <1>4, <2>3 DEF Levels
<1>8. Counted(p, i, R) = found[N]
  BY DEF Counted, Finding
<1>. QED
  <2>1. found[0] = {i} /\ \A k \in Levels : k # 0 => found[k] = found[k-1] \cup Under(p, R, found[k-1])
    BY <1>6
  <2>2. Counted(p, i, R) = found[Cardinality(Inboxes)]
    BY <1>8
  <2>3. Finds(p, i, R, found)
    <3>. HIDE DEF found, More, N
    <3>. QED  BY <1>7, <2>1, <2>2 DEF Finds
  <2>. QED  BY <2>3

(* The rows below i are i and the readable children of rows below i. *)
LEMMA BelowIs ==
  ASSUME NEW p \in Parents, NEW d, Levelled(p, d), NEW R \in SUBSET Inboxes, NEW i \in Inboxes
  PROVE  /\ i \in DrawnBelow(p, i, R)
         /\ \A j \in R : p[j] \in DrawnBelow(p, i, R) => j \in DrawnBelow(p, i, R)
         /\ \A j \in DrawnBelow(p, i, R) : j = i \/ (j \in R /\ p[j] \in DrawnBelow(p, i, R))
<1>. DEFINE N == Cardinality(Inboxes)
            down == Down(p, i, R)
            B == DrawnBelow(p, i, R)
<1>1. /\ down \in [Levels -> SUBSET Inboxes] /\ down[0] = {i}
      /\ \A k \in Levels : k # 0 => down[k] = Under(p, R, down[k-1])
      /\ \A j : j \in B <=> \E k \in Levels : j \in down[k]
  <2>1. Descends(p, i, R, down)
    BY DownIs
  <2>. HIDE DEF down
  <2>. QED  BY <2>1 DEF Descends
<1>2. N \in Nat /\ 0 \in Levels /\ Levels = 0 .. N /\ Root \notin Inboxes
  BY CountIsNatural DEF Levels
<1>. HIDE DEF down, B, N
<1>0. \A S : Under(p, R, S) \subseteq R /\ \A j \in R : j \in Under(p, R, S) <=> p[j] \in S
  BY DEF Under
<1>3. \A j \in Inboxes : d[j] \in 1 .. N /\ (p[j] # Root => d[j] = d[p[j]] + 1)
  BY DEF Levelled, N
<1>4. ASSUME NEW k \in Levels
      PROVE  \A j \in down[k] : d[j] = d[i] + k
  <2>. DEFINE M == {m \in Levels : \A j \in down[m] : d[j] = d[i] + m}
  <2>1. 0 \in M
    <3>1. d[i] \in Nat
      BY <1>2, <1>3
    <3>. QED  BY <1>1, <1>2, <3>1
  <2>2. ASSUME NEW m \in 0 .. N, m \in M, m < N
        PROVE  m + 1 \in M
    <3>1. m + 1 \in Levels /\ m + 1 # 0 /\ (m + 1) - 1 = m /\ m \in Levels
      BY <1>2, <2>2
    <3>2. down[m+1] = Under(p, R, down[m]) /\ down[m] \in SUBSET Inboxes
      BY <1>1, <3>1
    <3>3. ASSUME NEW j \in down[m+1]
          PROVE  d[j] = d[i] + (m + 1)
      <4>1. j \in Inboxes /\ p[j] \in Inboxes /\ p[j] \in down[m]
        BY <1>0, <3>2
      <4>2. d[j] = d[p[j]] + 1 /\ d[p[j]] = d[i] + m
        BY <1>2, <1>3, <2>2, <4>1
      <4>3. d[i] \in Nat
        BY <1>2, <1>3
      <4>. QED  BY <2>2, <4>2, <4>3
    <3>. QED  BY <3>1, <3>3
  <2>3. 0 .. N \subseteq M
    <3>. HIDE DEF M
    <3>. QED  BY <1>2, <2>1, <2>2, UpTo
  <2>. QED  BY <1>2, <2>3
<1>5. i \in B
  BY <1>1, <1>2
<1>6. ASSUME NEW j \in R, p[j] \in B
      PROVE  j \in B
  <2>1. PICK k \in Levels : p[j] \in down[k]
    BY <1>1, <1>6
  <2>2. p[j] \in Inboxes /\ j \in Inboxes
    BY <1>1, <2>1
  <2>3. d[j] = d[i] + k + 1
    <3>1. d[j] = d[p[j]] + 1 /\ d[p[j]] = d[i] + k
      BY <1>2, <1>3, <1>4, <2>1, <2>2
    <3>. QED  BY <3>1
  <2>4. d[j] <= N /\ d[i] \in Nat /\ d[i] >= 1 /\ k \in Nat
    BY <1>2, <1>3, <2>2
  <2>5. k + 1 \in Levels /\ k + 1 # 0 /\ (k + 1) - 1 = k
    BY <1>2, <2>3, <2>4
  <2>6. down[k+1] = Under(p, R, down[k])
    BY <1>1, <2>5
  <2>. QED  BY <1>0, <1>1, <2>1, <2>5, <2>6
<1>7. ASSUME NEW j \in B, j # i
      PROVE  j \in R /\ p[j] \in B
  <2>1. PICK k \in Levels : j \in down[k]
    BY <1>1
  <2>2. k # 0
    BY <1>1, <1>7, <2>1
  <2>3. k - 1 \in Levels
    BY <1>2, <2>2
  <2>. QED  BY <1>0, <1>1, <2>1, <2>2, <2>3
<1>. QED  BY <1>5, <1>6, <1>7 DEF B

(* Of any inboxes, one is on the first of their levels. *)
LEMMA Highest ==
  ASSUME NEW p, NEW d, Levelled(p, d), NEW T \in SUBSET Inboxes, T # {}
  PROVE  \E j \in T : \A x \in T : d[j] <= d[x]
<1>. DEFINE L == {d[x] : x \in T}
<1>1. L \in SUBSET Nat /\ L # {}
  BY CountIsNatural DEF Levelled
<1>2. \E m \in L : \A k \in L : m <= k
  <2>. HIDE DEF L
  <2>. QED  BY <1>1, Least
<1>. QED  BY <1>2

(* A set has all of R if it has whichever member of R has no parent in R, or
   one that the set has. *)
LEMMA Downward ==
  ASSUME NEW p \in Parents, NEW d, Levelled(p, d), NEW R \in SUBSET Inboxes, NEW S,
         \A j \in R : (p[j] \in R => p[j] \in S) => j \in S
  PROVE  R \subseteq S
<1>. DEFINE T == R \ S
<1>1. SUFFICES ASSUME T # {} PROVE FALSE
  OBVIOUS
<1>2. T \in SUBSET Inboxes
  OBVIOUS
<1>3. PICK j \in T : \A x \in T : d[j] <= d[x]
  <2>. HIDE DEF T
  <2>. QED  BY <1>1, <1>2, Highest
<1>4. p[j] \in R /\ p[j] \notin S
  OBVIOUS
<1>5. d[j] <= d[p[j]]
  BY <1>3, <1>4
<1>6. d[j] = d[p[j]] + 1 /\ d[p[j]] \in Nat
  <2>1. p[j] \in Inboxes /\ j \in Inboxes
    BY <1>4
  <2>2. p[j] # Root
    BY <2>1, CountIsNatural
  <2>. QED  BY <2>1, <2>2, CountIsNatural DEF Levelled
<1>. QED  BY <1>5, <1>6

(* The recursive query finds the rows below. *)
LEMMA CountedIsBelow ==
  ASSUME NEW p \in Parents, NEW d, Levelled(p, d), NEW R \in SUBSET Inboxes, NEW i \in R
  PROVE  Counted(p, i, R) = DrawnBelow(p, i, R)
<1>. DEFINE N == Cardinality(Inboxes)
            found == Finding(p, i, R)
            down == Down(p, i, R)
            B == DrawnBelow(p, i, R)
<1>1. /\ found \in [Levels -> SUBSET R] /\ found[0] = {i}
      /\ \A k \in Levels : k # 0 => found[k] = found[k-1] \cup Under(p, R, found[k-1])
      /\ Counted(p, i, R) = found[N]
  <2>1. Finds(p, i, R, found)
    BY FoundIs
  <2>. HIDE DEF found
  <2>. QED  BY <2>1 DEF Finds
<1>2. /\ down[0] = {i} /\ \A k \in Levels : k # 0 => down[k] = Under(p, R, down[k-1])
      /\ \A j : j \in B <=> \E k \in Levels : j \in down[k]
  <2>1. Descends(p, i, R, down)
    BY DownIs
  <2>. HIDE DEF down
  <2>. QED  BY <2>1 DEF Descends
<1>3. i \in B /\ \A j \in R : p[j] \in B => j \in B
  BY BelowIs
<1>4. N \in Nat /\ 0 \in Levels /\ N \in Levels /\ Levels = 0 .. N
  BY CountIsNatural DEF Levels
<1>. HIDE DEF found, down, B, N
<1>5. ASSUME NEW k \in 0 .. N, k < N
      PROVE  k + 1 \in Levels /\ found[k+1] = found[k] \cup Under(p, R, found[k]) /\ down[k+1] = Under(p, R, down[k])
  <2>1. k + 1 \in Levels /\ k + 1 # 0 /\ (k + 1) - 1 = k
    BY <1>4, <1>5
  <2>. QED  BY <1>1, <1>2, <2>1
<1>6. found[N] \subseteq B
  <2>. DEFINE M == {k \in Levels : found[k] \subseteq B}
  <2>1. 0 \in M
    BY <1>1, <1>3, <1>4
  <2>2. ASSUME NEW k \in 0 .. N, k \in M, k < N
        PROVE  k + 1 \in M
    BY <1>3, <1>5, <2>2 DEF Under
  <2>3. 0 .. N \subseteq M
    <3>. HIDE DEF M
    <3>. QED  BY <1>4, <2>1, <2>2, UpTo
  <2>. QED  BY <1>4, <2>3
<1>7. B \subseteq found[N]
  <2>. DEFINE M == {k \in Levels : \A m \in 0 .. k : down[m] \subseteq found[k]}
  <2>1. 0 \in M
    BY <1>1, <1>2, <1>4
  <2>2. ASSUME NEW k \in 0 .. N, k \in M, k < N
        PROVE  k + 1 \in M
    <3>1. ASSUME NEW m \in 0 .. k + 1
          PROVE  down[m] \subseteq found[k+1]
      <4>1. CASE m \in 0 .. k
        BY <1>5, <2>2, <4>1
      <4>2. CASE m = k + 1
        <5>1. down[k] \subseteq found[k]
          BY <2>2
        <5>. QED  BY <1>5, <2>2, <4>2, <5>1 DEF Under
      <4>. QED  BY <3>1, <4>1, <4>2
    <3>. QED  BY <1>5, <2>2, <3>1
  <2>3. 0 .. N \subseteq M
    <3>. HIDE DEF M
    <3>. QED  BY <1>4, <2>1, <2>2, UpTo
  <2>. QED  BY <1>2, <1>4, <2>3
<1>. QED  BY <1>1, <1>6, <1>7 DEF B

(* In every tree whose walks end, the three walks of the sidebar agree as far
   as Agree says, and what is drawn is whatever can be read. *)
LEMMA TreesAgree ==
  ASSUME NEW p \in Parents, Ends(p)
  PROVE  Agree(p)
<1>1. PICK d : Levelled(p, d)
  BY TreeHasLevels
<1>2. Root \notin Inboxes
  BY CountIsNatural
<1>. SUFFICES ASSUME NEW R \in SUBSET Inboxes
     PROVE  /\ Drawn(p, R) = R
            /\ \A i, j \in Rows(p, R) : i # j => DrawnBelow(p, i, R) \cap DrawnBelow(p, j, R) = {}
            /\ \A i \in R :
                 /\ Counted(p, i, R) = DrawnBelow(p, i, R)
                 /\ Unbroken(p, i, R) => Selected(p, i, R) = Counted(p, i, R)
                 /\ Counted(p, i, R) \subseteq Selected(p, i, R) /\ Selected(p, i, R) \subseteq R
            /\ \A i \in Inboxes, private, own \in BOOLEAN : ViewDrawn(i, private, own, R) = ViewOpens(i, private, own, R)
  BY DEF Agree
<1>. DEFINE B(i) == DrawnBelow(p, i, R)
<1>3. ASSUME NEW i \in Inboxes
      PROVE  /\ i \in B(i)
             /\ \A j \in R : p[j] \in B(i) => j \in B(i)
             /\ \A j \in B(i) : j = i \/ (j \in R /\ p[j] \in B(i))
  BY <1>1, BelowIs
<1>4. Rows(p, R) \subseteq R /\ \A i \in R : i \in Rows(p, R) <=> p[i] \notin R
  BY <1>2 DEF Rows
<1>5. \A i : i \in Drawn(p, R) <=> \E r \in Rows(p, R) : i \in B(r)
  BY DEF Drawn
<1>. HIDE DEF B
<1>6. Drawn(p, R) = R
  <2>1. Drawn(p, R) \subseteq R
    BY <1>3, <1>4, <1>5
  <2>2. ASSUME NEW j \in R, p[j] \in R => p[j] \in Drawn(p, R)
        PROVE  j \in Drawn(p, R)
    <3>1. CASE p[j] \in R
      <4>1. PICK r \in Rows(p, R) : p[j] \in B(r)
        BY <1>5, <2>2, <3>1
      <4>. QED  BY <1>3, <1>4, <1>5, <4>1
    <3>2. CASE p[j] \notin R
      BY <1>3, <1>4, <1>5, <3>2
    <3>. QED  BY <3>1, <3>2
  <2>3. R \subseteq Drawn(p, R)
    BY <1>1, <2>2, Downward
  <2>. QED  BY <2>1, <2>3
<1>7. ASSUME NEW i \in Rows(p, R), NEW j \in Rows(p, R), i # j
      PROVE  B(i) \cap B(j) = {}
  <2>. DEFINE S == {x \in Inboxes : ~ (x \in B(i) /\ x \in B(j))}
  <2>0. B(i) \subseteq R /\ B(j) \subseteq R
    BY <1>3, <1>4
  <2>1. ASSUME NEW x \in R, p[x] \in R => p[x] \in S
        PROVE  x \in S
    <3>1. SUFFICES ASSUME x \in B(i), x \in B(j) PROVE FALSE
      OBVIOUS
    <3>2. CASE x = i
      <4>1. p[x] \in R
        BY <1>3, <1>4, <1>7, <2>0, <3>1, <3>2
      <4>. QED  BY <1>4, <3>2, <4>1
    <3>3. CASE x = j
      <4>1. p[x] \in R
        BY <1>3, <1>4, <1>7, <2>0, <3>1, <3>3
      <4>. QED  BY <1>4, <3>3, <4>1
    <3>4. CASE x # i /\ x # j
      <4>1. p[x] \in B(i) /\ p[x] \in B(j)
        BY <1>3, <1>4, <3>1, <3>4
      <4>. QED  BY <2>0, <2>1, <4>1
    <3>. QED  BY <3>2, <3>3, <3>4
  <2>2. R \subseteq S
    <3>. HIDE DEF S
    <3>. QED  BY <1>1, <2>1, Downward
  <2>. QED  BY <2>0, <2>2
<1>8. ASSUME NEW i \in R
      PROVE  /\ Counted(p, i, R) = B(i)
             /\ Unbroken(p, i, R) => Selected(p, i, R) = B(i)
             /\ B(i) \subseteq Selected(p, i, R) /\ Selected(p, i, R) \subseteq R
  <2>1. Counted(p, i, R) = B(i)
    BY <1>1, CountedIsBelow DEF B
  <2>2. B(i) \subseteq R
    BY <1>3
  <2>3. CASE \E j \in R : p[j] = i
    <3>. DEFINE D == DrawnBelow(p, i, Inboxes)
    <3>1. Selected(p, i, R) = R \cap D
      BY <2>3 DEF Selected
    <3>2. i \in D /\ \A j \in Inboxes : p[j] \in D => j \in D
      <4>1. Inboxes \in SUBSET Inboxes
        OBVIOUS
      <4>. QED  BY <1>1, <4>1, BelowIs
    <3>5. \A j \in D : j = i \/ p[j] \in D
      <4>1. Inboxes \in SUBSET Inboxes
        OBVIOUS
      <4>. QED  BY <1>1, <4>1, BelowIs
    <3>6. Unbroken(p, i, R) => \A j \in R \cap D : j = i \/ p[j] \in R
      BY DEF Unbroken
    <3>. HIDE DEF D
    <3>. DEFINE S == {x \in Inboxes : x \in B(i) => x \in D}
    <3>3. ASSUME NEW x \in R, p[x] \in R => p[x] \in S
          PROVE  x \in S
      <4>1. SUFFICES ASSUME x \in B(i), x # i PROVE x \in D
        BY <3>2
      <4>2. p[x] \in B(i)
        BY <1>3, <4>1
      <4>. QED  BY <2>2, <3>2, <3>3, <4>2
    <3>4. R \subseteq S
      <4>. HIDE DEF S
      <4>. QED  BY <1>1, <3>3, Downward
    <3>7. ASSUME Unbroken(p, i, R)
          PROVE  R \cap D \subseteq B(i)
      <4>. DEFINE U == {x \in Inboxes : x \in D => x \in B(i)}
      <4>1. ASSUME NEW x \in R, p[x] \in R => p[x] \in U
            PROVE  x \in U
        <5>1. SUFFICES ASSUME x \in D, x # i PROVE x \in B(i)
          BY <1>3
        <5>2. p[x] \in R /\ p[x] \in D
          BY <3>5, <3>6, <3>7, <5>1
        <5>. QED  BY <1>3, <4>1, <5>2
      <4>2. R \subseteq U
        <5>. HIDE DEF U
        <5>. QED  BY <1>1, <4>1, Downward
      <4>. QED  BY <4>2
    <3>. QED  BY <2>1, <2>2, <3>1, <3>4, <3>7
  <2>4. CASE ~ \E j \in R : p[j] = i
    <3>1. Selected(p, i, R) = {i}
      BY <2>4 DEF Selected
    <3>. DEFINE S == {x \in Inboxes : x \in B(i) => x = i}
    <3>2. ASSUME NEW x \in R, p[x] \in R => p[x] \in S
          PROVE  x \in S
      <4>1. SUFFICES ASSUME x \in B(i), x # i PROVE FALSE
        OBVIOUS
      <4>2. p[x] \in B(i)
        BY <1>3, <4>1
      <4>. QED  BY <2>2, <2>4, <3>2, <4>2
    <3>3. R \subseteq S
      <4>. HIDE DEF S
      <4>. QED  BY <1>1, <3>2, Downward
    <3>4. i \in B(i)
      BY <1>3
    <3>. QED  BY <2>1, <2>2, <3>1, <3>3, <3>4
  <2>. QED  BY <2>1, <2>3, <2>4
<1>9. \A i \in Inboxes, private, own \in BOOLEAN : ViewDrawn(i, private, own, R) = ViewOpens(i, private, own, R)
  BY DEF ViewDrawn, ViewOpens
<1>. QED  BY <1>6, <1>7, <1>8, <1>9 DEF B

(* On the tree of any moment, whatever moves led to it and whatever the agent
   can read: getSidebar draws each inbox that can be read, below one row;
   countInboxDescendants counts what is drawn below a row; and a click lists
   just that, unless an inbox that cannot be read is between.  Then it may
   list more, against the documentation: CountedBelow. *)
THEOREM SidebarWalksAgree == TreeSpec => []WalksAgree
<1>1. TreeInv => WalksAgree
  BY TreesAgree DEF TreeInv, WalksAgree, Agreeing, Parents
<1>. QED  BY <1>1, TreeInvariant, PTL

-----------------------------------------------------------------------------
(* The preferences.                                                         *)

(* What tab t has under way for field f is what the agent last made of it. *)
InFlight == {"load", "permit", "write"}
Carries(t, f) ==
  LET q == tab[t].update IN
  IF tab[t].timer.field = f THEN tab[t].timer.ids = last[f]
  ELSE q.at \in InFlight /\ q.patch.field = f =>
         q.patch.ids = last[f] /\ (Loaded(t) => q.next[f] = last[f])

(* Of a field that nothing excuses, one tab at most has a change under way;
   and while none has, whoever is about to write the row keeps it. *)
Resting(f) == \A t \in Tabs : f \notin Busy(t)
Keeps(t, f) == Loaded(t) /\ tab[t].update.alone => tab[t].update.next[f] = last[f]
Stands(f) ==
  /\ last[f] \subseteq readable
  /\ \A t, u \in Tabs : f \in Busy(t) /\ f \in Busy(u) => t = u
  /\ \A t \in Tabs : Carries(t, f)
  /\ Resting(f) => kept[f] = last[f] /\ \A t \in Tabs : Keeps(t, f)

PreferencesInv == SidebarTypeOK /\ \A f \in Fields \ excused : Stands(f)

TabStates == [shown : Preferences, timer : Patches, before : Preferences, update : Updates]

LEMMA NothingIsUnderWay ==
  /\ NoField \notin Fields
  /\ NoPatch \in Patches /\ NoPatch.field = NoField
  /\ NoUpdate \in Updates /\ NoUpdate.at = "none" /\ NoUpdate.alone /\ NoUpdate.patch = NoPatch
  /\ DefaultPreferences \in Preferences
  /\ \A x \in Patches : x # NoPatch => x.field \in Fields /\ x.ids \in SUBSET Items
  /\ \A q \in Updates : q # NoUpdate => /\ q.at \in InFlight \cup {"answer"} /\ q.patch \in Patches \ {NoPatch}
                                       /\ q.next \in Preferences /\ q.alone \in BOOLEAN
BY SidebarAssumption DEF NoPatch, NoUpdate, Patches, Updates, Preferences, DefaultPreferences, Fields, InFlight

LEMMA TabHasState ==
  ASSUME SidebarTypeOK, NEW t \in Tabs
  PROVE  /\ tab[t] \in TabStates /\ DOMAIN tab = Tabs
         /\ tab[t].shown \in Preferences /\ tab[t].timer \in Patches
         /\ tab[t].before \in Preferences /\ tab[t].update \in Updates
BY DEF SidebarTypeOK, TabStates

LEMMA BusyWith ==
  ASSUME NEW t, NEW f \in Fields
  PROVE  f \in Busy(t) <=> tab[t].timer.field = f \/ (tab[t].update.at \in InFlight /\ tab[t].update.patch.field = f)
BY NothingIsUnderWay DEF Busy, InFlight

LEMMA PreferencesStart == SidebarInit => PreferencesInv
<1>. SUFFICES ASSUME SidebarInit PROVE PreferencesInv
  OBVIOUS
<1>1. SidebarTypeOK
  BY NothingIsUnderWay, SidebarAssumption DEF SidebarInit, SidebarTypeOK, FreshTab
<1>2. \A t \in Tabs : tab[t].timer = NoPatch /\ tab[t].update = NoUpdate
  BY DEF SidebarInit, FreshTab
<1>3. \A t \in Tabs, f \in Fields : f \notin Busy(t) /\ ~Loaded(t)
  BY <1>2, BusyWith, NothingIsUnderWay DEF Loaded, InFlight
<1>4. \A f \in Fields : last[f] = {} /\ kept[f] = {}
  BY DEF SidebarInit, DefaultPreferences
<1>5. ASSUME NEW f \in Fields PROVE Stands(f)
  <2>1. \A t \in Tabs : Carries(t, f)
    BY <1>2, NothingIsUnderWay DEF Carries, InFlight
  <2>. QED  BY <1>3, <1>4, <2>1 DEF Stands, Keeps
<1>. QED  BY <1>1, <1>5 DEF PreferencesInv

(* One tab goes on to c. *)
Goes(t, c) == tab'[t] = c /\ \A u \in Tabs \ {t} : tab'[u] = tab[u]

LEMMA TabGoesOn ==
  ASSUME SidebarTypeOK, NEW t \in Tabs, NEW c \in TabStates, Change(t, c)
  PROVE  tab' \in [Tabs -> TabStates] /\ Goes(t, c)
BY DEF SidebarTypeOK, TabStates, Change, Goes

LEMMA StandsAsBefore ==
  ASSUME NEW f \in Fields, Stands(f), NEW t \in Tabs, NEW c, Goes(t, c),
         last'[f] = last[f], kept'[f] = kept[f], readable \subseteq readable',
         (f \in Busy(t)) <=> (f \in Busy(t))',
         Carries(t, f)', Resting(f) => Keeps(t, f)'
  PROVE  Stands(f)'
<1>1. \A u \in Tabs \ {t} : tab'[u] = tab[u]
  BY DEF Goes
<1>2. \A u \in Tabs \ {t} :
        /\ (f \in Busy(u))' <=> (f \in Busy(u))
        /\ (Carries(u, f)') <=> Carries(u, f)
        /\ (Keeps(u, f)') <=> Keeps(u, f)
  BY <1>1 DEF Busy, Carries, Keeps, Loaded
<1>3. \A u \in Tabs : (f \in Busy(u))' <=> (f \in Busy(u))
  BY <1>2
<1>4. (Resting(f)') <=> Resting(f)
  BY <1>3 DEF Resting
<1>5. (last[f] \subseteq readable)'
  BY DEF Stands
<1>6. \A u, v \in Tabs : (f \in Busy(u))' /\ (f \in Busy(v))' => u = v
  BY <1>3 DEF Stands
<1>7. \A u \in Tabs : Carries(u, f)'
  BY <1>2 DEF Stands
<1>8. Resting(f)' => (kept[f] = last[f])' /\ \A u \in Tabs : Keeps(u, f)'
  BY <1>2, <1>4 DEF Stands
<1>. QED  BY <1>5, <1>6, <1>7, <1>8 DEF Stands

(* The walks agree on the tree of the moment, so that whatever the agent can
   read is drawn. *)
AllDrawn == Drawn(parent, readable) = readable

LEMMA ToggleKeepsPreferences ==
  ASSUME PreferencesInv, AllDrawn, NEW t \in Tabs, NEW g \in Fields, NEW i \in Items, Toggle(t, g, i)
  PROVE  PreferencesInv'
<1>. DEFINE now == tab[t].shown
            ids == IF i \in now[g] THEN now[g] \ {i} ELSE now[g] \cup {i}
            c == [tab[t] EXCEPT !.shown[g] = ids, !.timer = [field |-> g, ids |-> ids], !.before = now]
            met == \E u \in Tabs \ {t} : g \in Busy(u)
<1>1. /\ toggles < MaxToggles /\ toggles' = toggles + 1 /\ Change(t, c)
      /\ last' = [last EXCEPT ![g] = ids] /\ UNCHANGED <<readable, kept>>
      /\ excused' = (IF met \/ ~(ids \subseteq readable) THEN excused \cup {g} ELSE excused \ {g})
                    \cup ({tab[t].timer.field} \ {g, NoField})
  BY DEF Toggle, AllDrawn
<1>2. SidebarTypeOK /\ tab[t] \in TabStates /\ now \in Preferences /\ tab[t].timer \in Patches
  BY TabHasState DEF PreferencesInv
<1>3. ids \in SUBSET Items
  BY <1>2 DEF Preferences
<1>. HIDE DEF ids, met
<1>4. /\ c \in TabStates /\ c.timer = [field |-> g, ids |-> ids] /\ c.update = tab[t].update
  BY <1>2, <1>3, NothingIsUnderWay DEF TabStates, Preferences, Patches
<1>. HIDE DEF c
<1>5. tab' \in [Tabs -> TabStates] /\ Goes(t, c)
  BY <1>1, <1>2, <1>4, TabGoesOn
<1>6. SidebarTypeOK'
  <2>1. last' \in Preferences
    BY <1>1, <1>2, <1>3 DEF SidebarTypeOK, Preferences
  <2>2. {tab[t].timer.field} \ {g, NoField} \subseteq Fields
    BY <1>2, NothingIsUnderWay
  <2>3. excused' \subseteq Fields
    BY <1>1, <1>2, <2>2 DEF SidebarTypeOK
  <2>4. toggles' \in 0 .. MaxToggles
    BY <1>1, <1>2, SidebarAssumption DEF SidebarTypeOK
  <2>. QED  BY <1>1, <1>2, <1>5, <2>1, <2>3, <2>4 DEF SidebarTypeOK, TabStates
<1>7. tab'[t].timer = [field |-> g, ids |-> ids] /\ tab'[t].update = tab[t].update
  BY <1>4, <1>5 DEF Goes
<1>8. ASSUME NEW f \in Fields \ excused', f # g
      PROVE  Stands(f)'
  <2>1. f \notin excused /\ tab[t].timer.field # f
    BY <1>1, <1>8, NothingIsUnderWay
  <2>2. Stands(f) /\ last'[f] = last[f] /\ kept'[f] = kept[f]
    BY <1>1, <1>2, <1>8, <2>1 DEF PreferencesInv, SidebarTypeOK, Preferences
  <2>3. tab'[t].timer.field # f
    BY <1>7, <1>8
  <2>4. (f \in Busy(t)) <=> (f \in Busy(t))'
    BY <1>7, <1>8, <2>1, <2>3 DEF Busy
  <2>5. Carries(t, f)'
    <3>1. Carries(t, f)
      BY <2>2 DEF Stands
    <3>. QED  BY <1>7, <2>1, <2>2, <2>3, <3>1 DEF Carries, Loaded
  <2>6. Resting(f) => Keeps(t, f)'
    <3>1. Resting(f) => Keeps(t, f)
      BY <2>2 DEF Stands
    <3>. QED  BY <1>7, <2>2, <3>1 DEF Keeps, Loaded
  <2>. QED  BY <1>1, <1>5, <2>2, <2>4, <2>5, <2>6, StandsAsBefore
<1>9. ASSUME g \notin excused'
      PROVE  Stands(g)'
  <2>1. ids \subseteq readable /\ \A u \in Tabs \ {t} : g \notin Busy(u)
    BY <1>1, <1>9 DEF met
  <2>2. last'[g] = ids
    BY <1>1, <1>2 DEF SidebarTypeOK, Preferences
  <2>3. (g \in Busy(t))'
    BY <1>7, NothingIsUnderWay DEF Busy
  <2>4. \A u \in Tabs \ {t} : tab'[u] = tab[u] /\ (g \notin Busy(u))'
    BY <1>5, <2>1 DEF Goes, Busy
  <2>5. ASSUME NEW u \in Tabs PROVE Carries(u, g)'
    <3>1. CASE u = t
      BY <1>7, <2>2, <3>1 DEF Carries
    <3>2. CASE u # t
      <4>1. g \notin Busy(u) /\ tab'[u] = tab[u]
        BY <2>1, <2>4, <3>2
      <4>. QED  BY <4>1, BusyWith DEF Carries
    <3>. QED  BY <3>1, <3>2
  <2>6. ~Resting(g)'
    BY <2>3 DEF Resting
  <2>. QED  BY <1>1, <2>1, <2>2, <2>4, <2>5, <2>6 DEF Stands
<1>. QED  BY <1>6, <1>8, <1>9 DEF PreferencesInv

(* A step of a tab that changes no more than that tab. *)
Follows(t, f) ==
  /\ (f \in Busy(t)) <=> (f \in Busy(t))'
  /\ Carries(t, f)'
  /\ Resting(f) => Keeps(t, f)'

LEMMA TabStepKeepsPreferences ==
  ASSUME PreferencesInv, NEW t \in Tabs, NEW c \in TabStates, Change(t, c),
         UNCHANGED <<readable, kept, last, toggles>>,
         excused \subseteq excused', excused' \subseteq Fields,
         \A f \in Fields \ excused' : Stands(f) /\ tab'[t] = c => Follows(t, f)
  PROVE  PreferencesInv'
<1>1. tab' \in [Tabs -> TabStates] /\ Goes(t, c)
  BY TabGoesOn DEF PreferencesInv
<1>2. SidebarTypeOK'
  BY <1>1 DEF PreferencesInv, SidebarTypeOK, TabStates
<1>3. ASSUME NEW f \in Fields \ excused'
      PROVE  Stands(f)'
  <2>1. f \notin excused /\ Stands(f) /\ tab'[t] = c
    BY <1>1 DEF PreferencesInv, Goes
  <2>2. Follows(t, f)
    BY <2>1
  <2>3. last'[f] = last[f] /\ kept'[f] = kept[f] /\ readable \subseteq readable'
    OBVIOUS
  <2>. QED  BY <1>1, <2>1, <2>2, <2>3, StandsAsBefore DEF Follows
<1>. QED  BY <1>2, <1>3 DEF PreferencesInv

LEMMA TimerKeepsPreferences ==
  ASSUME PreferencesInv, NEW t \in Tabs, TimerFires(t)
  PROVE  PreferencesInv'
<1>. DEFINE q == [NoUpdate EXCEPT !.at = "load", !.patch = tab[t].timer]
            c == [tab[t] EXCEPT !.timer = NoPatch, !.update = q]
<1>1. /\ tab[t].timer # NoPatch /\ tab[t].update = NoUpdate /\ Change(t, c)
      /\ UNCHANGED <<readable, kept, last, excused, toggles>>
  BY DEF TimerFires
<1>2. SidebarTypeOK /\ tab[t] \in TabStates /\ tab[t].timer \in Patches
  BY TabHasState DEF PreferencesInv
<1>3. q \in Updates /\ q.at = "load" /\ q.patch = tab[t].timer
  BY <1>1, <1>2, NothingIsUnderWay DEF Updates, NoUpdate
<1>. HIDE DEF q
<1>4. c \in TabStates /\ c.timer = NoPatch /\ c.update = q
  BY <1>2, <1>3, NothingIsUnderWay DEF TabStates
<1>. HIDE DEF c
<1>5. ASSUME NEW f \in Fields \ excused', Stands(f), tab'[t] = c
      PROVE  Follows(t, f)
  <2>1. tab'[t].timer.field # f /\ tab'[t].update.at = "load" /\ tab'[t].update.patch = tab[t].timer
    BY <1>3, <1>4, <1>5, NothingIsUnderWay
  <2>2. (f \in Busy(t)) <=> (f \in Busy(t))'
    BY <1>1, <2>1, NothingIsUnderWay DEF Busy
  <2>3. Carries(t, f)'
    <3>1. Carries(t, f)
      BY <1>5 DEF Stands
    <3>. QED  BY <1>1, <2>1, <3>1 DEF Carries, Loaded
  <2>4. Keeps(t, f)'
    BY <2>1 DEF Keeps, Loaded
  <2>. QED  BY <2>2, <2>3, <2>4 DEF Follows
<1>. QED  BY <1>1, <1>2, <1>4, <1>5, TabStepKeepsPreferences DEF SidebarTypeOK

LEMMA LoadKeepsPreferences ==
  ASSUME PreferencesInv, NEW t \in Tabs, LoadPreferences(t)
  PROVE  PreferencesInv'
<1>. DEFINE p == tab[t].update.patch
            next == Merged(p)
            c == [tab[t] EXCEPT !.update.at = "permit", !.update.next = next]
<1>1. /\ tab[t].update.at = "load" /\ Change(t, c)
      /\ UNCHANGED <<readable, kept, last, excused, toggles>>
  BY DEF LoadPreferences
<1>2. SidebarTypeOK /\ tab[t] \in TabStates /\ tab[t].update \in Updates
  BY TabHasState DEF PreferencesInv
<1>3. tab[t].update # NoUpdate /\ p \in Patches \ {NoPatch} /\ p.field \in Fields /\ p.ids \in SUBSET Items
  BY <1>1, <1>2, NothingIsUnderWay
<1>4. /\ next \in Preferences /\ next[p.field] = p.ids
      /\ \A f \in Fields : f # p.field => next[f] = kept[f]
  BY <1>2, <1>3 DEF Merged, SidebarTypeOK, Preferences
<1>. HIDE DEF next
<1>5. /\ c \in TabStates /\ c.timer = tab[t].timer /\ c.update.at = "permit"
      /\ c.update.patch = p /\ c.update.next = next
  BY <1>2, <1>3, <1>4, NothingIsUnderWay DEF TabStates, Updates
<1>. HIDE DEF c, p
<1>6. ASSUME NEW f \in Fields \ excused', Stands(f), tab'[t] = c
      PROVE  Follows(t, f)
  <2>1. /\ tab'[t].timer = tab[t].timer /\ tab'[t].update.at = "permit"
        /\ tab'[t].update.patch = p /\ tab'[t].update.next = next
    BY <1>5, <1>6
  <2>2. (f \in Busy(t)) <=> (f \in Busy(t))'
    BY <1>1, <2>1 DEF Busy, p
  <2>3. Carries(t, f)'
    <3>1. Carries(t, f)
      BY <1>6 DEF Stands
    <3>. QED  BY <1>1, <1>4, <2>1, <3>1 DEF Carries, Loaded, InFlight, p
  <2>4. Resting(f) => Keeps(t, f)'
    <3>1. Resting(f) => kept[f] = last[f] /\ p.field # f
      <4>1. f \in Busy(t) <=> tab[t].timer.field = f \/ (tab[t].update.at \in InFlight /\ tab[t].update.patch.field = f)
        BY BusyWith
      <4>. QED  BY <1>1, <1>6, <4>1 DEF Stands, Resting, InFlight, p
    <3>. QED  BY <1>1, <1>4, <2>1, <3>1 DEF Keeps
  <2>. QED  BY <2>2, <2>3, <2>4 DEF Follows
<1>. QED  BY <1>1, <1>2, <1>5, <1>6, TabStepKeepsPreferences DEF SidebarTypeOK

LEMMA PermitKeepsPreferences ==
  ASSUME PreferencesInv, AllDrawn, NEW t \in Tabs, Permit(t)
  PROVE  PreferencesInv'
<1>. DEFINE q == tab[t].update
            next == Sanitized(q.next)
            c == [tab[t] EXCEPT !.update.at = "write", !.update.next = next]
<1>1. /\ q.at = "permit" /\ Change(t, c)
      /\ UNCHANGED <<readable, kept, last, excused, toggles>>
  BY DEF Permit
<1>2. SidebarTypeOK /\ tab[t] \in TabStates /\ q \in Updates
  BY TabHasState DEF PreferencesInv
<1>3. q # NoUpdate /\ q.patch \in Patches \ {NoPatch} /\ q.next \in Preferences /\ q.alone \in BOOLEAN
  BY <1>1, <1>2, NothingIsUnderWay
<1>4. next \in Preferences /\ \A f \in Fields : next[f] = q.next[f] \cap readable
  BY <1>3 DEF Sanitized, AllDrawn, Preferences
<1>. HIDE DEF next
<1>5. /\ c \in TabStates /\ c.timer = tab[t].timer /\ c.update.at = "write"
      /\ c.update.patch = q.patch /\ c.update.next = next /\ c.update.alone = q.alone
  BY <1>1, <1>2, <1>3, <1>4, NothingIsUnderWay DEF TabStates, Updates
<1>. HIDE DEF c, q
<1>6. ASSUME NEW f \in Fields \ excused', Stands(f), tab'[t] = c
      PROVE  Follows(t, f)
  <2>1. /\ tab'[t].timer = tab[t].timer /\ tab'[t].update.at = "write"
        /\ tab'[t].update.patch = q.patch /\ tab'[t].update.next = next /\ tab'[t].update.alone = q.alone
    BY <1>5, <1>6
  <2>2. (f \in Busy(t)) <=> (f \in Busy(t))'
    BY <1>1, <2>1 DEF Busy, q
  <2>3. last[f] \subseteq readable /\ last'[f] = last[f] /\ next[f] = q.next[f] \cap readable
    BY <1>1, <1>4, <1>6 DEF Stands
  <2>4. Carries(t, f)'
    <3>1. Carries(t, f)
      BY <1>6 DEF Stands
    <3>. QED  BY <1>1, <2>1, <2>3, <3>1 DEF Carries, Loaded, InFlight, q
  <2>5. Resting(f) => Keeps(t, f)'
    <3>1. Resting(f) => Keeps(t, f)
      BY <1>6 DEF Stands
    <3>. QED  BY <1>1, <2>1, <2>3, <3>1 DEF Keeps, Loaded, q
  <2>. QED  BY <2>2, <2>4, <2>5 DEF Follows
<1>. QED  BY <1>1, <1>2, <1>5, <1>6, TabStepKeepsPreferences DEF SidebarTypeOK

(* The answer to a request, also that it failed. *)
LEMMA EndKeepsPreferences ==
  ASSUME PreferencesInv, NEW t \in Tabs, NEW shown \in Preferences,
         Change(t, [tab[t] EXCEPT !.shown = shown, !.update = NoUpdate]),
         UNCHANGED <<readable, kept, last, toggles>>,
         tab[t].update # NoUpdate,
         \/ tab[t].update.at = "answer" /\ excused' = excused
         \/ excused' = excused \cup {tab[t].update.patch.field}
  PROVE  PreferencesInv'
<1>. DEFINE c == [tab[t] EXCEPT !.shown = shown, !.update = NoUpdate]
<1>1. SidebarTypeOK /\ tab[t] \in TabStates /\ tab[t].update \in Updates
  BY TabHasState DEF PreferencesInv
<1>2. c \in TabStates /\ c.timer = tab[t].timer /\ c.update = NoUpdate
  BY <1>1, NothingIsUnderWay DEF TabStates
<1>3. excused \subseteq excused' /\ excused' \subseteq Fields
  BY <1>1, NothingIsUnderWay DEF SidebarTypeOK
<1>. HIDE DEF c
<1>4. ASSUME NEW f \in Fields \ excused', Stands(f), tab'[t] = c
      PROVE  Follows(t, f)
  <2>1. tab'[t].timer = tab[t].timer /\ tab'[t].update = NoUpdate /\ NoUpdate.at = "none"
    BY <1>2, <1>4, NothingIsUnderWay
  <2>2. tab[t].update.at \in InFlight => tab[t].update.patch.field # f
    BY <1>4 DEF InFlight
  <2>3. (f \in Busy(t)) <=> (f \in Busy(t))'
    BY <2>1, <2>2 DEF Busy, InFlight
  <2>4. Carries(t, f)'
    <3>1. Carries(t, f)
      BY <1>4 DEF Stands
    <3>. QED  BY <2>1, <3>1 DEF Carries, InFlight
  <2>5. Keeps(t, f)'
    BY <2>1 DEF Keeps, Loaded
  <2>. QED  BY <2>3, <2>4, <2>5 DEF Follows
<1>5. Change(t, c)
  BY DEF c
<1>. QED  BY <1>2, <1>3, <1>4, <1>5, TabStepKeepsPreferences

LEMMA AnswerKeepsPreferences ==
  ASSUME PreferencesInv, NEW t \in Tabs, Answer(t) \/ UpdateFails(t)
  PROVE  PreferencesInv'
<1>1. SidebarTypeOK /\ tab[t].update \in Updates /\ tab[t].before \in Preferences
  BY TabHasState DEF PreferencesInv
<1>2. CASE Answer(t)
  <2>1. tab[t].update.at = "answer" /\ tab[t].update # NoUpdate /\ tab[t].update.next \in Preferences
    BY <1>1, <1>2, NothingIsUnderWay DEF Answer
  <2>. QED  BY <1>2, <2>1, EndKeepsPreferences DEF Answer
<1>3. CASE UpdateFails(t)
  BY <1>1, <1>3, EndKeepsPreferences DEF UpdateFails
<1>. QED  BY <1>2, <1>3

LEMMA RefetchKeepsPreferences ==
  ASSUME PreferencesInv, NEW t \in Tabs, Refetch(t)
  PROVE  PreferencesInv'
<1>. DEFINE c == [tab[t] EXCEPT !.shown = Sanitized(kept)]
<1>1. Change(t, c) /\ UNCHANGED <<readable, kept, last, excused, toggles>>
  BY DEF Refetch
<1>2. SidebarTypeOK /\ tab[t] \in TabStates
  BY TabHasState DEF PreferencesInv
<1>3. Sanitized(kept) \in Preferences
  BY <1>2 DEF SidebarTypeOK, Sanitized, Preferences
<1>4. c \in TabStates /\ c.timer = tab[t].timer /\ c.update = tab[t].update
  BY <1>2, <1>3 DEF TabStates
<1>. HIDE DEF c
<1>5. ASSUME NEW f \in Fields \ excused', Stands(f), tab'[t] = c
      PROVE  Follows(t, f)
  <2>1. tab'[t].timer = tab[t].timer /\ tab'[t].update = tab[t].update /\ last'[f] = last[f]
    BY <1>1, <1>4, <1>5
  <2>2. Carries(t, f) /\ (Resting(f) => Keeps(t, f))
    BY <1>5 DEF Stands
  <2>. QED  BY <2>1, <2>2 DEF Follows, Busy, Carries, Keeps, Loaded
<1>. QED  BY <1>1, <1>2, <1>4, <1>5, TabStepKeepsPreferences DEF SidebarTypeOK

(* The row is replaced by the next one of a tab.  If another tab had read the
   row before, every field is excused. *)
LEMMA UpsertKeepsPreferences ==
  ASSUME PreferencesInv, NEW t \in Tabs, Upsert(t)
  PROVE  PreferencesInv'
<1>. DEFINE mine == tab[t].update
            others == {u \in Tabs \ {t} : Loaded(u)}
            After(u) == IF u = t THEN [tab[u] EXCEPT !.update.at = "answer"]
                        ELSE IF u \in others THEN [tab[u] EXCEPT !.update.alone = FALSE] ELSE tab[u]
<1>1. /\ mine.at = "write" /\ kept' = mine.next /\ UNCHANGED <<readable, last, toggles>>
      /\ tab' = [u \in Tabs |-> After(u)]
      /\ excused' = IF mine.alone /\ others = {} THEN excused ELSE Fields
  BY DEF Upsert
<1>2. SidebarTypeOK /\ mine \in Updates /\ mine # NoUpdate /\ mine.patch \in Patches \ {NoPatch} /\ mine.next \in Preferences
  BY <1>1, TabHasState, NothingIsUnderWay DEF PreferencesInv
<1>3. ASSUME NEW u \in Tabs
      PROVE  /\ After(u) \in TabStates /\ After(u).timer = tab[u].timer
             /\ u = t => After(u).update.at = "answer"
             /\ u # t /\ u \notin others => After(u) = tab[u]
  <2>1. tab[u] \in TabStates /\ tab[u].update \in Updates
    BY <1>2, TabHasState
  <2>2. CASE u = t
    BY <1>2, <2>1, <2>2, NothingIsUnderWay DEF TabStates, Updates
  <2>3. CASE u # t /\ u \in others
    <3>1. tab[u].update # NoUpdate
      BY <2>3, NothingIsUnderWay DEF Loaded
    <3>. QED  BY <2>1, <2>3, <3>1, NothingIsUnderWay DEF TabStates, Updates
  <2>4. CASE u # t /\ u \notin others
    BY <2>1, <2>4
  <2>. QED  BY <2>2, <2>3, <2>4
<1>. HIDE DEF After, mine
<1>4. SidebarTypeOK'
  BY <1>1, <1>2, <1>3 DEF SidebarTypeOK, TabStates
<1>5. ASSUME NEW f \in Fields \ excused'
      PROVE  Stands(f)'
  <2>1. mine.alone /\ others = {} /\ f \notin excused
    BY <1>1, <1>5
  <2>2. Stands(f) /\ last'[f] = last[f] /\ kept'[f] = mine.next[f]
    BY <1>1, <2>1 DEF PreferencesInv
  <2>3. /\ tab'[t].timer = tab[t].timer /\ tab'[t].update.at = "answer"
        /\ \A u \in Tabs \ {t} : tab'[u] = tab[u]
    BY <1>1, <1>3, <2>1
  <2>4. \A u \in Tabs : ~Loaded(u)'
    BY <2>1, <2>3 DEF Loaded
  <2>5. /\ f \in Busy(t) <=> tab[t].timer.field = f \/ mine.patch.field = f
        /\ (f \in Busy(t))' <=> tab[t].timer.field = f
    BY <1>1, <2>3, NothingIsUnderWay DEF Busy, mine
  <2>6. \A u \in Tabs \ {t} : ((f \in Busy(u))') <=> (f \in Busy(u))
    BY <2>3 DEF Busy
  <2>7. \A u, v \in Tabs : (f \in Busy(u))' /\ (f \in Busy(v))' => u = v
    BY <2>2, <2>5, <2>6 DEF Stands
  <2>8. \A u \in Tabs : Carries(u, f)'
    <3>1. ASSUME NEW u \in Tabs \ {t} PROVE Carries(u, f)'
      <4>1. Carries(u, f)
        BY <2>2 DEF Stands
      <4>. QED  BY <2>2, <2>3, <4>1 DEF Carries, Loaded
    <3>2. Carries(t, f)'
      <4>1. Carries(t, f)
        BY <2>2 DEF Stands
      <4>. QED  BY <2>2, <2>3, <4>1 DEF Carries, InFlight
    <3>. QED  BY <3>1, <3>2
  <2>9. Resting(f)' => kept'[f] = last'[f]
    <3>1. SUFFICES ASSUME Resting(f)' PROVE mine.next[f] = last[f]
      BY <2>2
    <3>2. tab[t].timer.field # f /\ \A u \in Tabs \ {t} : f \notin Busy(u)
      BY <2>5, <2>6, <3>1 DEF Resting
    <3>3. CASE mine.patch.field = f
      <4>1. Carries(t, f)
        BY <2>2 DEF Stands
      <4>. QED  BY <1>1, <3>2, <3>3, <4>1 DEF Carries, Loaded, InFlight, mine
    <3>4. CASE mine.patch.field # f
      <4>1. Resting(f)
        BY <2>5, <3>2, <3>4 DEF Resting
      <4>2. Keeps(t, f)
        BY <2>2, <4>1 DEF Stands
      <4>. QED  BY <1>1, <2>1, <4>2 DEF Keeps, Loaded, mine
    <3>. QED  BY <3>3, <3>4
  <2>10. (last[f] \subseteq readable)'
    BY <1>1, <2>2 DEF Stands
  <2>. QED  BY <2>4, <2>7, <2>8, <2>9, <2>10 DEF Stands, Keeps
<1>. QED  BY <1>4, <1>5 DEF PreferencesInv

LEMMA RegrantKeepsPreferences ==
  ASSUME PreferencesInv, NEW R \in SUBSET Inboxes, Regrant(R)
  PROVE  PreferencesInv'
<1>1. readable' = R /\ excused' = (IF readable \subseteq R THEN excused ELSE Fields) /\ UNCHANGED <<kept, tab, last, toggles>>
  BY DEF Regrant
<1>2. SidebarTypeOK'
  BY <1>1 DEF PreferencesInv, SidebarTypeOK
<1>3. ASSUME NEW f \in Fields \ excused'
      PROVE  Stands(f)'
  <2>1. Stands(f) /\ readable \subseteq readable'
    BY <1>1 DEF PreferencesInv
  <2>. QED  BY <1>1, <2>1 DEF Stands, Resting, Carries, Keeps, Loaded, Busy
<1>. QED  BY <1>2, <1>3 DEF PreferencesInv

-----------------------------------------------------------------------------
(* The sidebar over the tree.                                               *)

SidebarStep == (TreeNext /\ UNCHANGED sidebarVars) \/ (SidebarNext /\ UNCHANGED treeVars)

LEMMA ReadableIsDrawn == TreeInv /\ PreferencesInv => AllDrawn
BY TreesAgree DEF TreeInv, PreferencesInv, SidebarTypeOK, AllDrawn, Agree

LEMMA PreferencesStep ==
  ASSUME PreferencesInv, AllDrawn, SidebarNext
  PROVE  PreferencesInv'
<1>1. ASSUME NEW R \in SUBSET Inboxes, Regrant(R) PROVE PreferencesInv'
  BY <1>1, RegrantKeepsPreferences
<1>2. ASSUME NEW t \in Tabs, NEW f \in Fields, NEW i \in Items, Toggle(t, f, i) PROVE PreferencesInv'
  BY <1>2, ToggleKeepsPreferences
<1>3. ASSUME NEW t \in Tabs, TimerFires(t) \/ LoadPreferences(t) PROVE PreferencesInv'
  BY <1>3, TimerKeepsPreferences, LoadKeepsPreferences
<1>4. ASSUME NEW t \in Tabs, Permit(t) \/ Upsert(t) PROVE PreferencesInv'
  BY <1>4, PermitKeepsPreferences, UpsertKeepsPreferences
<1>5. ASSUME NEW t \in Tabs, Answer(t) \/ UpdateFails(t) \/ Refetch(t) PROVE PreferencesInv'
  BY <1>5, AnswerKeepsPreferences, RefetchKeepsPreferences
<1>. QED  BY <1>1, <1>2, <1>3, <1>4, <1>5 DEF SidebarNext

THEOREM SidebarInvariant == SidebarSpec => [](TreeInv /\ PreferencesInv)
<1>1. TreeInit /\ SidebarInit => TreeInv /\ PreferencesInv
  BY TreeStarts, PreferencesStart
<1>2. TreeInv /\ PreferencesInv /\ [SidebarStep]_<<treeVars, sidebarVars>> => TreeInv' /\ PreferencesInv'
  <2>. SUFFICES ASSUME TreeInv, PreferencesInv, [SidebarStep]_<<treeVars, sidebarVars>>
                PROVE  TreeInv' /\ PreferencesInv'
    OBVIOUS
  <2>0. /\ TreeNext \/ UNCHANGED treeVars
        /\ SidebarNext \/ UNCHANGED sidebarVars
    BY DEF SidebarStep
  <2>1. TreeInv'
    <3>1. [TreeNext]_treeVars
      BY <2>0
    <3>. QED  BY <3>1, TreeStep
  <2>2. CASE UNCHANGED sidebarVars
    <3>1. readable' = readable /\ kept' = kept /\ tab' = tab /\ last' = last /\ excused' = excused /\ toggles' = toggles
      BY <2>2 DEF sidebarVars
    <3>2. SidebarTypeOK'
      BY <3>1 DEF PreferencesInv, SidebarTypeOK
    <3>3. ASSUME NEW f \in Fields \ excused' PROVE Stands(f)'
      <4>1. Stands(f)
        BY <3>1 DEF PreferencesInv
      <4>. QED  BY <3>1, <4>1 DEF Stands, Resting, Carries, Keeps, Loaded, InFlight, Busy
    <3>. QED  BY <2>1, <3>2, <3>3 DEF PreferencesInv
  <2>3. CASE SidebarNext
    <3>1. PreferencesInv /\ AllDrawn
      BY ReadableIsDrawn
    <3>. QED  BY <2>1, <2>3, <3>1, PreferencesStep
  <2>. QED  BY <2>0, <2>1, <2>2, <2>3
<1>. QED  BY <1>1, <1>2, PTL DEF SidebarSpec, SidebarStep

(* Whatever the agent last made of a field is stored when the tabs are at
   rest, although updateSidebarPreferences reads the row, asks for the
   permission and replaces the whole row in three steps, while other tabs,
   the tree and the rights of the agent change: unless one of the events that
   excuse the field came between. *)
THEOREM SidebarStaysTrue == SidebarSpec => []SidebarIsTrue
<1>1. TreeInv => WalksAgree
  BY TreesAgree DEF TreeInv, WalksAgree, Agreeing, Parents
<1>2. PreferencesInv => LastChangesStand
  BY DEF PreferencesInv, Stands, Resting, LastChangesStand
<1>. QED  BY <1>1, <1>2, SidebarInvariant, PTL DEF SidebarIsTrue

-----------------------------------------------------------------------------
(* Channels and their default inboxes.                                      *)

Links == [Channels -> [Boxes -> {"none", "plain", "default"}]]

(* At most one link of a channel is the default. *)
Single(l) ==
  \A c \in Channels : \A x, y \in Boxes : l[c][x] = "default" /\ l[c][y] = "default" => x = y

RoutingInv == RoutingTypeOK /\ Single(link)

LEMMA SingleIsOne ==
  ASSUME NEW c \in Channels, Single(link)
  PROVE  Cardinality(DefaultsOf(c)) <= 1
<1>1. CASE DefaultsOf(c) = {}
  BY <1>1, FS_EmptySet
<1>2. CASE DefaultsOf(c) # {}
  <2>1. PICK x \in DefaultsOf(c) : TRUE
    BY <1>2
  <2>2. DefaultsOf(c) = {x}
    BY <2>1 DEF Single, DefaultsOf
  <2>. QED  BY <2>2, FS_Singleton
<1>. QED  BY <1>1, <1>2

(* Links that lose defaults stay single. *)
LEMMA FewerDefaults ==
  ASSUME NEW l, Single(link),
         \A c \in Channels, x \in Boxes : l[c][x] = "default" => link[c][x] = "default"
  PROVE  Single(l)
BY DEF Single

(* A link is made plain where there was none. *)
LEMMA PlainLink ==
  ASSUME RoutingInv, NEW c, NEW b,
         link' = [link EXCEPT ![c][b] = IF @ = "none" THEN "plain" ELSE @]
  PROVE  link' \in Links /\ Single(link')
<1>1. link \in Links /\ Single(link)
  BY DEF RoutingInv, RoutingTypeOK, Links
<1>2. link' \in Links
  BY <1>1 DEF Links
<1>3. \A d \in Channels, x \in Boxes : link'[d][x] = "default" => link[d][x] = "default"
  BY <1>1 DEF Links
<1>. QED  BY <1>1, <1>2, <1>3, FewerDefaults

(* A link is taken away. *)
LEMMA NoLink ==
  ASSUME RoutingInv, NEW c, NEW b, link' = [link EXCEPT ![c][b] = "none"]
  PROVE  link' \in Links /\ Single(link')
<1>1. link \in Links /\ Single(link)
  BY DEF RoutingInv, RoutingTypeOK, Links
<1>2. link' \in Links
  BY <1>1 DEF Links
<1>3. \A d \in Channels, x \in Boxes : link'[d][x] = "default" => link[d][x] = "default"
  BY <1>1 DEF Links
<1>. QED  BY <1>1, <1>2, <1>3, FewerDefaults

(* Requests stay typed. *)
Edits == [op : EditOps, at : EditStages, channel : Channels \cup {Nowhere},
          box : Boxes \cup {Nowhere}, revive : BOOLEAN]

LEMMA NoEditIsEdit == NoEdit \in Edits
BY DEF NoEdit, Edits, EditOps, EditStages

LEMMA OpenTyped ==
  ASSUME edit \in [Editors -> Edits], NEW e \in Editors, NEW op \in EditOps, NEW stage \in EditStages,
         NEW c \in Channels \cup {Nowhere}, NEW b \in Boxes \cup {Nowhere}, Open(e, op, stage, c, b)
  PROVE  edit' \in [Editors -> Edits]
<1>1. [NoEdit EXCEPT !.op = op, !.at = stage, !.channel = c, !.box = b] \in Edits
  BY DEF NoEdit, Edits
<1>. QED  BY <1>1 DEF Open

LEMMA AdvanceTyped ==
  ASSUME edit \in [Editors -> Edits], NEW e \in Editors, NEW stage \in EditStages, Advance(e, stage)
  PROVE  edit' \in [Editors -> Edits]
<1>1. [edit[e] EXCEPT !.at = stage] \in Edits
  BY DEF Edits
<1>. QED  BY <1>1 DEF Advance

LEMMA CloseTyped ==
  ASSUME edit \in [Editors -> Edits], NEW e \in Editors, Close(e)
  PROVE  edit' \in [Editors -> Edits]
BY NoEditIsEdit DEF Close

LEMMA TypedEdits == RoutingInv => edit \in [Editors -> Edits]
BY DEF RoutingInv, RoutingTypeOK, Edits

(* A step that changes requests alone. *)
LEMMA ConfigStays ==
  ASSUME RoutingInv, edit' \in [Editors -> Edits], UNCHANGED config
  PROVE  RoutingInv'
<1>1. UNCHANGED <<phones, status, token, box, link>>
  BY DEF config, stored
<1>. QED  BY <1>1 DEF RoutingInv, RoutingTypeOK, Single, Edits

LEMMA BeginningsKeepRouting ==
  ASSUME RoutingInv, NEW e \in Editors,
         \/ \E c \in Channels : BeginUpdate(e, c) \/ BeginDeleteChannel(e, c) \/ BeginConnect(e, c)
         \/ \E c \in Channels, b \in Boxes :
              BeginCreate(e, c, b) \/ BeginUnlink(e, c, b) \/ BeginDefault(e, c, b)
         \/ \E b \in Boxes : BeginArchive(e, b)
  PROVE  RoutingInv'
<1>1. UNCHANGED config
  BY DEF BeginUpdate, BeginDeleteChannel, BeginConnect, BeginCreate, BeginUnlink, BeginDefault, BeginArchive
<1>2. PICK op \in EditOps, stage \in EditStages, d \in Channels \cup {Nowhere}, x \in Boxes \cup {Nowhere} :
        Open(e, op, stage, d, x)
  BY DEF BeginUpdate, BeginDeleteChannel, BeginConnect, BeginCreate, BeginUnlink, BeginDefault, BeginArchive,
         EditOps, EditStages
<1>. QED  BY <1>1, <1>2, OpenTyped, TypedEdits, ConfigStays

LEMMA ChecksKeepRouting ==
  ASSUME RoutingInv, NEW e \in Editors, CheckArchive(e) \/ CheckInbox(e) \/ Quit(e) \/ ReadIdentity(e)
  PROVE  RoutingInv'
<1>1. UNCHANGED config
  BY DEF CheckArchive, CheckInbox, Quit, ReadIdentity
<1>2. CASE Close(e)
  BY <1>1, <1>2, CloseTyped, TypedEdits, ConfigStays
<1>3. CASE Advance(e, "write") \/ Advance(e, "link")
  BY <1>1, <1>3, AdvanceTyped, TypedEdits, ConfigStays DEF EditStages
<1>4. CASE ReadIdentity(e)
  <2>. DEFINE s == [edit[e] EXCEPT !.at = "write", !.revive = status[edit[e].channel] = "deleted"]
  <2>1. edit \in [Editors -> Edits]
    BY TypedEdits
  <2>2. "write" \in EditStages /\ (status[edit[e].channel] = "deleted") \in BOOLEAN
    BY DEF EditStages
  <2>3. s \in Edits
    BY <2>1, <2>2 DEF Edits
  <2>4. edit' = [edit EXCEPT ![e] = s]
    BY <1>4, <2>1 DEF ReadIdentity
  <2>. HIDE DEF s
  <2>. QED  BY <1>1, <2>1, <2>3, <2>4, ConfigStays
<1>. QED  BY <1>2, <1>3, <1>4 DEF CheckArchive, CheckInbox, Quit

LEMMA EstablishRouting ==
  ASSUME RoutingInv, phones' = phones,
         status' \in [Channels -> {"none", "active", "disconnected", "deleted"}],
         token' \in [Channels -> BOOLEAN], box' \in [Boxes -> {"none", "open", "archived"}],
         link' \in Links, Single(link'), edit' \in [Editors -> Edits]
  PROVE  RoutingInv'
<1>1. RoutingTypeOK'
  BY DEF RoutingInv, RoutingTypeOK, Links, Edits
<1>2. Single(link)'
  BY DEF Single
<1>. QED  BY <1>1, <1>2 DEF RoutingInv

LEMMA RoutingTyped ==
  ASSUME RoutingInv
  PROVE  /\ status \in [Channels -> {"none", "active", "disconnected", "deleted"}]
         /\ token \in [Channels -> BOOLEAN] /\ box \in [Boxes -> {"none", "open", "archived"}]
         /\ link \in Links /\ Single(link) /\ edit \in [Editors -> Edits]
BY DEF RoutingInv, RoutingTypeOK, Links, Edits

(* The batch of a creation meets the index one_default_per_channel. *)
LEMMA CreateKeepsRouting ==
  ASSUME RoutingInv, NEW e \in Editors, Create(e)
  PROVE  RoutingInv'
<1>. DEFINE c == edit[e].channel
            b == edit[e].box
<1>1. edit' \in [Editors -> Edits]
  BY CloseTyped, TypedEdits DEF Create
<1>2. phones' = phones /\ box' = box
  BY DEF Create
<1>3. /\ status' \in [Channels -> {"none", "active", "disconnected", "deleted"}]
      /\ token' \in [Channels -> BOOLEAN]
  BY RoutingTyped DEF Create, stored
<1>4. CASE link' = link
  BY <1>1, <1>2, <1>3, <1>4, RoutingTyped, EstablishRouting
<1>5. CASE link' # link
  <2>1. link' = [link EXCEPT ![c][b] = "default"] /\ ~RefusesDefault(c, b)
    BY <1>5 DEF Create
  <2>2. link' \in Links
    BY <2>1, RoutingTyped DEF Links
  <2>3. \A x \in Boxes : link[c][x] # "default"
    BY <2>1 DEF RefusesDefault, DefaultsOf
  <2>4. Single(link')
    <3>1. ASSUME NEW d \in Channels, NEW x \in Boxes, NEW y \in Boxes,
                 link'[d][x] = "default", link'[d][y] = "default"
          PROVE  x = y
      <4>1. CASE d = c
        BY <2>1, <2>3, <3>1, <4>1, RoutingTyped DEF Links
      <4>2. CASE d # c
        BY <2>1, <3>1, <4>2, RoutingTyped DEF Links, Single
      <4>. QED  BY <4>1, <4>2
    <3>. QED  BY <3>1 DEF Single
  <2>. QED  BY <1>1, <1>2, <1>3, <2>2, <2>4, RoutingTyped, EstablishRouting
<1>. QED  BY <1>4, <1>5

LEMMA ChannelWritesKeepRouting ==
  ASSUME RoutingInv, NEW e \in Editors,
         UpdateToken(e) \/ DeleteChannel(e) \/ ConnectToken(e) \/ \E c \in Channels : Disconnect(e, c)
  PROVE  RoutingInv'
<1>1. edit' \in [Editors -> Edits]
  BY CloseTyped, TypedEdits DEF UpdateToken, DeleteChannel, ConnectToken, Disconnect
<1>2. phones' = phones /\ box' = box
  BY DEF UpdateToken, DeleteChannel, ConnectToken, Disconnect
<1>3. /\ status' \in [Channels -> {"none", "active", "disconnected", "deleted"}]
      /\ token' \in [Channels -> BOOLEAN]
  BY RoutingTyped DEF UpdateToken, DeleteChannel, ConnectToken, Disconnect
<1>4. link' \in Links /\ Single(link')
  <2>1. CASE link' = link
    BY <2>1, RoutingTyped
  <2>2. CASE link' = [link EXCEPT ![edit[e].channel] = [b \in Boxes |-> "none"]]
    <3>1. link' \in Links
      BY <2>2, RoutingTyped DEF Links
    <3>2. \A c \in Channels, x \in Boxes : link'[c][x] = "default" => link[c][x] = "default"
      BY <2>2, RoutingTyped DEF Links
    <3>. QED  BY <3>1, <3>2, RoutingTyped, FewerDefaults
  <2>. QED  BY <2>1, <2>2 DEF UpdateToken, DeleteChannel, ConnectToken, Disconnect
<1>. QED  BY <1>1, <1>2, <1>3, <1>4, RoutingTyped, EstablishRouting

LEMMA InboxWritesKeepRouting ==
  ASSUME RoutingInv, NEW e \in Editors,
         \/ \E b \in Boxes, c \in Channels \cup {Nowhere} : CreateInbox(e, b, c)
         \/ \E b \in Boxes : Unarchive(e, b)
         \/ Archive(e)
  PROVE  RoutingInv'
<1>1. UNCHANGED <<phones, status, token, link>>
  BY DEF CreateInbox, Unarchive, Archive, stored
<1>2. box' \in [Boxes -> {"none", "open", "archived"}]
  BY RoutingTyped DEF CreateInbox, Unarchive, Archive
<1>3. edit' \in [Editors -> Edits]
  <2>1. CASE Archive(e) \/ UNCHANGED edit
    BY <2>1, CloseTyped, TypedEdits DEF Archive
  <2>2. CASE \E b \in Boxes, c \in Channels \cup {Nowhere} : Open(e, "default", "inbox", c, b)
    BY <2>2, OpenTyped, TypedEdits DEF EditOps, EditStages
  <2>. QED  BY <2>1, <2>2 DEF CreateInbox, Unarchive
<1>. QED  BY <1>1, <1>2, <1>3, RoutingTyped, EstablishRouting

LEMMA LinkWritesKeepRouting ==
  ASSUME RoutingInv, NEW e \in Editors,
         \/ \E c \in Channels, b \in Boxes : LinkPlain(e, c, b)
         \/ Unlink(e) \/ EnsureLink(e)
  PROVE  RoutingInv'
<1>1. UNCHANGED <<phones, status, token, box>>
  BY DEF LinkPlain, Unlink, EnsureLink, stored
<1>2. link' \in Links /\ Single(link')
  <2>1. ASSUME NEW c \in Channels, NEW b \in Boxes, LinkPlain(e, c, b)
        PROVE  link' \in Links /\ Single(link')
    BY <2>1, PlainLink DEF LinkPlain
  <2>2. CASE Unlink(e)
    BY <2>2, NoLink DEF Unlink
  <2>3. CASE EnsureLink(e)
    BY <2>3, PlainLink DEF EnsureLink
  <2>. QED  BY <2>1, <2>2, <2>3
<1>3. edit' \in [Editors -> Edits]
  <2>1. "promote" \in EditStages
    BY DEF EditStages
  <2>. QED  BY <2>1, CloseTyped, AdvanceTyped, TypedEdits DEF LinkPlain, Unlink, EnsureLink
<1>. QED  BY <1>1, <1>2, <1>3, RoutingTyped, EstablishRouting

(* After the batch of setDefaultInbox no other inbox is the default. *)
LEMMA PromoteKeepsRouting ==
  ASSUME RoutingInv, NEW e \in Editors, Promote(e)
  PROVE  RoutingInv'
<1>. DEFINE c == edit[e].channel
            b == edit[e].box
            promoted == [x \in Boxes |->
              IF link[c][x] = "none" THEN "none" ELSE IF x = b THEN "default" ELSE "plain"]
<1>1. UNCHANGED <<phones, status, token, box>> /\ link' = [link EXCEPT ![c] = promoted]
  BY RoutingTyped DEF Promote, stored, Links
<1>2. edit' \in [Editors -> Edits]
  BY CloseTyped, TypedEdits DEF Promote
<1>3. promoted \in [Boxes -> {"none", "plain", "default"}]
  OBVIOUS
<1>4. \A x \in Boxes : promoted[x] = "default" => x = b
  OBVIOUS
<1>. HIDE DEF promoted, c, b
<1>5. link' \in Links
  BY <1>1, <1>3, RoutingTyped DEF Links
<1>6. Single(link')
  <2>1. ASSUME NEW d \in Channels, NEW x \in Boxes, NEW y \in Boxes,
               link'[d][x] = "default", link'[d][y] = "default"
        PROVE  x = y
    <3>1. CASE d = c
      BY <1>1, <1>4, <2>1, <3>1, RoutingTyped DEF Links
    <3>2. CASE d # c
      BY <1>1, <2>1, <3>2, RoutingTyped DEF Links, Single
    <3>. QED  BY <3>1, <3>2
  <2>. QED  BY <2>1 DEF Single
<1>. QED  BY <1>1, <1>2, <1>5, <1>6, RoutingTyped, EstablishRouting

LEMMA RoutingStarts == RoutingInit => RoutingInv
BY NoEditIsEdit DEF RoutingInit, RoutingInv, RoutingTypeOK, Single, Edits

LEMMA RoutingStep == RoutingInv /\ [RoutingNext]_routingVars => RoutingInv'
<1>. SUFFICES ASSUME RoutingInv, [RoutingNext]_routingVars
              PROVE  RoutingInv'
  OBVIOUS
<1>1. CASE UNCHANGED routingVars
  <2>1. UNCHANGED config /\ edit' \in [Editors -> Edits]
    BY <1>1, RoutingTyped DEF routingVars, config, stored
  <2>. QED  BY <2>1, ConfigStays
<1>2. ASSUME NEW e \in Editors,
             \/ \E c \in Channels : BeginUpdate(e, c) \/ BeginDeleteChannel(e, c) \/ BeginConnect(e, c)
             \/ \E c \in Channels, b \in Boxes :
                  BeginCreate(e, c, b) \/ BeginUnlink(e, c, b) \/ BeginDefault(e, c, b)
             \/ \E b \in Boxes : BeginArchive(e, b)
      PROVE  RoutingInv'
  BY <1>2, BeginningsKeepRouting
<1>3. ASSUME NEW e \in Editors,
             \/ \E b \in Boxes, c \in Channels \cup {Nowhere} : CreateInbox(e, b, c)
             \/ \E b \in Boxes : Unarchive(e, b)
             \/ Archive(e)
      PROVE  RoutingInv'
  BY <1>3, InboxWritesKeepRouting
<1>4. ASSUME NEW e \in Editors,
             \/ UpdateToken(e) \/ DeleteChannel(e) \/ ConnectToken(e)
             \/ \E c \in Channels : Disconnect(e, c)
      PROVE  RoutingInv'
  BY <1>4, ChannelWritesKeepRouting
<1>5. ASSUME NEW e \in Editors,
             \/ \E c \in Channels, b \in Boxes : LinkPlain(e, c, b)
             \/ Unlink(e) \/ EnsureLink(e)
      PROVE  RoutingInv'
  BY <1>5, LinkWritesKeepRouting
<1>6. ASSUME NEW e \in Editors,
             \/ ReadIdentity(e) \/ Create(e) \/ CheckArchive(e) \/ CheckInbox(e)
             \/ Promote(e) \/ Quit(e)
      PROVE  RoutingInv'
  BY <1>6, ChecksKeepRouting, CreateKeepsRouting, PromoteKeepsRouting
<1>. QED  BY <1>1, <1>2, <1>3, <1>4, <1>5, <1>6 DEF RoutingNext

THEOREM RoutingInvariant == RoutingSpec => []RoutingInv
<1>. QED  BY RoutingStarts, RoutingStep, PTL DEF RoutingSpec

(* A channel never has two defaults, so that routeInbound finds one place for
   an inbound message at most, however creations, promotions and removals of
   several administrators overlap. *)
THEOREM ChannelsHaveOneDefault == RoutingSpec => []OneDefault
<1>1. RoutingInv => OneDefault
  BY SingleIsOne DEF RoutingInv, OneDefault
<1>. QED  BY <1>1, RoutingInvariant, PTL
=============================================================================
