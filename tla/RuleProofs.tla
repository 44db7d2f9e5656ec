------------------------------ MODULE RuleProofs ------------------------------
(***************************************************************************)
(* An evaluation of the rules that meets no administrator does what the    *)
(* book says of its message, for any rules, messages and workspace.        *)
(*                                                                         *)
(* The proof reads an evaluation as a prefix of the effects of the book:   *)
(* what it has made of the conversation, or has buffered for it, is what   *)
(* the effects of the rules before the candidate make of it, with those of *)
(* the actions of the candidate that were applied.                         *)
(***************************************************************************)
EXTENDS RuleBook, SequenceTheorems, NaturalsInduction, WellFoundedInduction, TLAPS

-----------------------------------------------------------------------------
(* The least member of a set of naturals. *)
LEMMA Least ==
  ASSUME NEW T \in SUBSET Nat, T # {}
  PROVE  \E m \in T : \A k \in T : m <= k
<1>. DEFINE R == OpToRel(<, Nat)
<1>1. IsWellFoundedOn(R, Nat)
  BY NatLessThanWellFounded
<1>2. \E m \in T : \A k \in T : <<k, m>> \notin R
  <2>. HIDE DEF R
  <2>. QED  BY <1>1, WFMin
<1>3. ASSUME NEW k \in Nat, NEW m \in Nat, <<k, m>> \notin R
      PROVE  m <= k
  BY <1>3 DEF OpToRel
<1>. QED  BY <1>2, <1>3

(* What holds of 0 and of the successors of those that it holds of, up to n,
   holds up to n: M is the set of which it holds. *)
LEMMA UpTo ==
  ASSUME NEW n \in Nat, NEW M, 0 \in M, \A k \in 0 .. n : k \in M /\ k < n => k + 1 \in M
  PROVE  0 .. n \subseteq M
<1>. DEFINE T == {k \in 0 .. n : k \notin M}
<1>1. SUFFICES ASSUME T # {} PROVE FALSE
  OBVIOUS
<1>2. PICK m \in T : \A k \in T : m <= k
  <2>1. T \in SUBSET Nat
    OBVIOUS
  <2>. HIDE DEF T
  <2>. QED  BY <1>1, <2>1, Least
<1>3. m \in 0 .. n /\ m \notin M /\ m # 0
  BY <1>2
<1>4. m - 1 \in 0 .. n /\ m - 1 < n /\ (m - 1) + 1 = m
  BY <1>3
<1>5. m - 1 \in M
  BY <1>2, <1>4
<1>. QED  BY <1>3, <1>4, <1>5

-----------------------------------------------------------------------------
(* Sequences.                                                               *)

(* The least and the greatest of a set of positions. *)
LEMMA MinIs ==
  ASSUME NEW I \in SUBSET Nat, I # {}
  PROVE  Min(I) \in I /\ \A k \in I : Min(I) <= k
<1>1. \E m \in I : \A k \in I : m <= k
  BY Least
<1>. QED  BY <1>1 DEF Min

LEMMA MaxIs ==
  ASSUME NEW n \in Nat, NEW I \in SUBSET (1 .. n), I # {}
  PROVE  Max(I) \in I /\ \A k \in I : k <= Max(I)
<1>. DEFINE T == {n - k : k \in I}
<1>1. T \in SUBSET Nat /\ T # {}
  OBVIOUS
<1>2. PICK m \in T : \A k \in T : m <= k
  <2>. HIDE DEF T
  <2>. QED  BY <1>1, Least
<1>3. PICK x \in I : m = n - x
  BY <1>2
<1>4. ASSUME NEW k \in I PROVE x >= k
  <2>1. n - k \in T
    OBVIOUS
  <2>. QED  BY <1>2, <1>3, <2>1
<1>5. \E y \in I : \A k \in I : y >= k
  BY <1>4
<1>6. Max(I) \in I /\ \A k \in I : Max(I) >= k
  BY <1>5 DEF Max
<1>. QED  BY <1>6

(* Lists of n sequences, and two that begin with the same n.  F[k] is the
   first k of the sequences f joined. *)
Lists(S, n, f) == f \in [1 .. n -> Seq(S)]
Same(f, g, n) == \A k \in 1 .. n : f[k] = g[k]
Joins(S, f, n, F) ==
  /\ F \in [0 .. n -> Seq(S)]
  /\ F[0] = <<>>
  /\ \A k \in 1 .. n : F[k] = F[k-1] \o f[k]

LEMMA JoinExists ==
  ASSUME NEW S, NEW n \in Nat, NEW f, Lists(S, n, f)
  PROVE  \E F : Joins(S, f, n, F)
<1>. DEFINE M == {m \in 0 .. n : \E F : Joins(S, f, m, F)}
<1>1. 0 \in M
  <2>. DEFINE F == [k \in 0 .. 0 |-> <<>>]
  <2>1. <<>> \in Seq(S)
    OBVIOUS
  <2>2. Joins(S, f, 0, F)
    BY <2>1 DEF Joins
  <2>. QED  BY <2>2
<1>2. ASSUME NEW m \in 0 .. n, m \in M, m < n
      PROVE  m + 1 \in M
  <2>1. PICK F : Joins(S, f, m, F)
    BY <1>2
  <2>. DEFINE G == [k \in 0 .. m + 1 |-> IF k = m + 1 THEN F[m] \o f[m+1] ELSE F[k]]
  <2>2. F \in [0 .. m -> Seq(S)] /\ F[m] \in Seq(S) /\ f[m+1] \in Seq(S)
    BY <1>2, <2>1 DEF Joins, Lists
  <2>3. F[m] \o f[m+1] \in Seq(S)
    BY <2>2, ConcatProperties
  <2>4. G \in [0 .. m + 1 -> Seq(S)] /\ G[0] = <<>>
    BY <2>1, <2>2, <2>3 DEF Joins
  <2>5. ASSUME NEW k \in 1 .. m + 1 PROVE G[k] = G[k-1] \o f[k]
    <3>1. CASE k = m + 1
      <4>1. k - 1 = m /\ m \in 0 .. m + 1 /\ m # m + 1 /\ k \in 0 .. m + 1
        BY <3>1
      <4>2. G[k] = F[m] \o f[m+1] /\ G[k-1] = F[m]
        BY <3>1, <4>1
      <4>. QED  BY <3>1, <4>2
    <3>2. CASE k # m + 1
      <4>1. k \in 1 .. m /\ k - 1 \in 0 .. m + 1 /\ k - 1 # m + 1 /\ k \in 0 .. m + 1
        BY <3>2
      <4>2. F[k] = F[k-1] \o f[k]
        BY <2>1, <4>1 DEF Joins
      <4>3. G[k] = F[k] /\ G[k-1] = F[k-1]
        BY <3>2, <4>1
      <4>. QED  BY <4>2, <4>3
    <3>. QED  BY <3>1, <3>2
  <2>6. Joins(S, f, m + 1, G)
    <3>. HIDE DEF G
    <3>. QED  BY <2>4, <2>5 DEF Joins
  <2>. HIDE DEF G
  <2>. QED  BY <1>2, <2>6
<1>3. 0 .. n \subseteq M
  <2>. HIDE DEF M
  <2>. QED  BY <1>1, <1>2, UpTo
<1>. QED  BY <1>3

LEMMA JoinsAreOne ==
  ASSUME NEW S, NEW n \in Nat, NEW f, NEW g, NEW F, NEW G, NEW l \in Nat, l <= n,
         Joins(S, f, l, F), Joins(S, g, n, G), Same(f, g, l)
  PROVE  \A k \in 0 .. l : F[k] = G[k]
<1>. DEFINE M == {k \in 0 .. l : F[k] = G[k]}
<1>1. 0 \in M
  BY DEF Joins
<1>2. ASSUME NEW k \in 0 .. l, k \in M, k < l
      PROVE  k + 1 \in M
  <2>1. F[k] = G[k] /\ k + 1 \in 1 .. l /\ k + 1 \in 1 .. n /\ (k + 1) - 1 = k
    BY <1>2
  <2>2. F[k+1] = F[k] \o f[k+1] /\ G[k+1] = G[k] \o g[k+1] /\ f[k+1] = g[k+1]
    BY <2>1 DEF Joins, Same
  <2>3. F[k+1] = G[k+1]
    BY <2>1, <2>2
  <2>4. k + 1 \in 0 .. l
    BY <2>1
  <2>. QED  BY <2>3, <2>4
<1>3. 0 .. l \subseteq M
  <2>. HIDE DEF M
  <2>. QED  BY <1>1, <1>2, UpTo
<1>. QED  BY <1>3

(* The recursion in FlattenSeq. *)
Flattens(f, n, h) == h = [i \in 1 .. n |-> IF i = 1 THEN f[i] ELSE h[i-1] \o f[i]]

LEMMA FlattenIs ==
  ASSUME NEW S, NEW n \in Nat, NEW f, Lists(S, n, f)
  PROVE  \E F : Joins(S, f, n, F) /\ FlattenSeq(f) = F[n]
<1>. DEFINE h == CHOOSE g : Flattens(f, n, g)
<1>1. f \in Seq(Seq(S)) /\ Len(f) = n
  BY DEF Lists
<1>2. FlattenSeq(f) = IF n = 0 THEN f ELSE h[n]
  BY <1>1 DEF FlattenSeq, Flattens
<1>3. PICK F : Joins(S, f, n, F)
  BY JoinExists
<1>4. CASE n = 0
  <2>1. f = <<>> /\ F[0] = <<>>
    BY <1>3, <1>4 DEF Joins, Lists
  <2>. QED  BY <1>2, <1>3, <1>4, <2>1
<1>5. CASE n # 0
  <2>. DEFINE g == [i \in 1 .. n |-> F[i]]
  <2>1. ASSUME NEW i \in 1 .. n PROVE g[i] = IF i = 1 THEN f[i] ELSE g[i-1] \o f[i]
    <3>1. F[i] = F[i-1] \o f[i] /\ F[0] = <<>> /\ f[i] \in Seq(S)
      BY <1>3 DEF Joins, Lists
    <3>2. CASE i = 1
      <4>1. <<>> \o f[i] = f[i]
        BY <3>1, ConcatEmptySeq
      <4>2. F[i-1] = <<>>
        BY <3>1, <3>2
      <4>. QED  BY <3>1, <3>2, <4>1, <4>2
    <3>3. CASE i # 1
      <4>1. i - 1 \in 1 .. n
        BY <3>3
      <4>2. g[i] = F[i] /\ g[i-1] = F[i-1]
        BY <4>1
      <4>. QED  BY <3>1, <3>3, <4>2
    <3>. QED  BY <3>2, <3>3
  <2>2. Flattens(f, n, g)
    BY <2>1 DEF Flattens
  <2>3. Flattens(f, n, h)
    <3>. HIDE DEF g
    <3>. QED  BY <2>2
  <2>. HIDE DEF h
  <2>. DEFINE M == {k \in 0 .. n : k # 0 => h[k] = F[k]}
  <2>4. 0 \in M
    OBVIOUS
  <2>5. ASSUME NEW k \in 0 .. n, k \in M, k < n
        PROVE  k + 1 \in M
    <3>1. k + 1 \in 1 .. n /\ (k + 1) - 1 = k
      <4>. HIDE DEF M
      <4>. QED  BY <2>5
    <3>2. h[k+1] = IF k + 1 = 1 THEN f[k+1] ELSE h[k] \o f[k+1]
      <4>. DEFINE i == k + 1
      <4>1. h[i] = IF i = 1 THEN f[i] ELSE h[i-1] \o f[i]
        BY <2>3, <3>1 DEF Flattens
      <4>. QED  BY <3>1, <4>1
    <3>3. F[k+1] = F[k] \o f[k+1] /\ F[0] = <<>> /\ f[k+1] \in Seq(S)
      BY <1>3, <3>1 DEF Joins, Lists
    <3>4. <<>> \o f[k+1] = f[k+1]
      BY <3>3, ConcatEmptySeq
    <3>5. h[k+1] = F[k+1]
      <4>1. CASE k = 0
        <5>1. h[k+1] = f[k+1] /\ F[k] = <<>>
          BY <3>2, <3>3, <4>1
        <5>. QED  BY <3>3, <3>4, <5>1
      <4>2. CASE k # 0
        <5>1. h[k] = F[k] /\ k + 1 # 1
          BY <2>5, <4>2
        <5>. QED  BY <3>2, <3>3, <5>1
      <4>. QED  BY <4>1, <4>2
    <3>6. k + 1 \in 0 .. n
      BY <3>1
    <3>. QED  BY <3>5, <3>6
  <2>6. 0 .. n \subseteq M
    <3>. HIDE DEF M
    <3>. QED  BY <2>4, <2>5, UpTo
  <2>7. h[n] = F[n]
    BY <1>5, <2>6
  <2>. QED  BY <1>2, <1>3, <1>5, <2>7
<1>. QED  BY <1>4, <1>5

(* FlattenSeq of none, and of one more. *)
LEMMA FlattenNone ==
  ASSUME NEW S, NEW f, Lists(S, 0, f)
  PROVE  FlattenSeq(f) = <<>>
<1>1. PICK F : Joins(S, f, 0, F) /\ FlattenSeq(f) = F[0]
  BY FlattenIs
<1>. QED  BY <1>1 DEF Joins

LEMMA FlattensAgree ==
  ASSUME NEW S, NEW n \in Nat, NEW m \in Nat, n <= m,
         NEW f, NEW g, Lists(S, n, f), Lists(S, m, g), Same(f, g, n)
  PROVE  \E F, G : /\ Joins(S, f, n, F) /\ FlattenSeq(f) = F[n]
                  /\ Joins(S, g, m, G) /\ FlattenSeq(g) = G[m]
                  /\ \A k \in 0 .. n : F[k] = G[k]
<1>1. PICK F : Joins(S, f, n, F) /\ FlattenSeq(f) = F[n]
  BY FlattenIs
<1>2. PICK G : Joins(S, g, m, G) /\ FlattenSeq(g) = G[m]
  BY FlattenIs
<1>3. \A k \in 0 .. n : F[k] = G[k]
  BY <1>1, <1>2, JoinsAreOne
<1>. QED  BY <1>1, <1>2, <1>3

LEMMA FlattenOneMore ==
  ASSUME NEW S, NEW n \in Nat, NEW m \in Nat, m = n + 1,
         NEW f, NEW g, Lists(S, n, f), Lists(S, m, g), Same(f, g, n)
  PROVE  /\ FlattenSeq(f) \in Seq(S) /\ FlattenSeq(g) \in Seq(S)
         /\ FlattenSeq(g) = FlattenSeq(f) \o g[m]
<1>1. n <= m /\ m \in 1 .. m /\ m \in 0 .. m /\ n \in 0 .. n /\ m - 1 = n
  OBVIOUS
<1>2. PICK F, G : /\ Joins(S, f, n, F) /\ FlattenSeq(f) = F[n]
                  /\ Joins(S, g, m, G) /\ FlattenSeq(g) = G[m]
                  /\ \A k \in 0 .. n : F[k] = G[k]
  BY <1>1, FlattensAgree
<1>3. G[m] = G[n] \o g[m]
  <2>1. m \in 1 .. m /\ \A k \in 1 .. m : G[k] = G[k-1] \o g[k]
    BY <1>1, <1>2 DEF Joins
  <2>2. G[m] = G[m-1] \o g[m]
    BY <2>1
  <2>. QED  BY <1>1, <2>2
<1>4. G[m] \in Seq(S) /\ F[n] \in Seq(S)
  BY <1>1, <1>2 DEF Joins
<1>5. F[n] = G[n]
  BY <1>1, <1>2
<1>. QED  BY <1>2, <1>3, <1>4, <1>5

-----------------------------------------------------------------------------
(* One more effect.                                                         *)

Effect == STRING \X Values

LEMMA FirstIs ==
  ASSUME NEW n \in Nat, NEW I \in SUBSET (1 .. n)
  PROVE  LET r == IF I # {} THEN Min(I) ELSE 0
         IN  /\ I = {} => r = 0
             /\ I # {} => r \in I /\ \A k \in I : r <= k
<1>1. I \in SUBSET Nat
  OBVIOUS
<1>. QED  BY <1>1, MinIs

LEMMA LastIs ==
  ASSUME NEW n \in Nat, NEW I \in SUBSET (1 .. n)
  PROVE  LET r == IF I # {} THEN Max(I) ELSE 0
         IN  /\ I = {} => r = 0
             /\ I # {} => r \in I /\ \A k \in I : k <= r
BY MaxIs

(* The positions in D, and those in D and one more. *)
LEMMA OneMorePosition ==
  ASSUME NEW S, NEW D \in Seq(S), NEW e \in S, NEW P
  PROVE  LET E == Append(D, e)
             n == Len(D)
             I == {i \in 1 .. n : D[i] \in P}
             J == {i \in 1 .. Len(E) : E[i] \in P}
         IN  /\ E \in Seq(S) /\ Len(E) = n + 1 /\ E[n+1] = e /\ \A i \in 1 .. n : E[i] = D[i]
             /\ J = I \cup (IF e \in P THEN {n + 1} ELSE {})
             /\ I \subseteq 1 .. n
<1>. DEFINE E == Append(D, e)
            n == Len(D)
            I == {i \in 1 .. n : D[i] \in P}
            J == {i \in 1 .. Len(E) : E[i] \in P}
<1>1. n \in Nat /\ E \in Seq(S) /\ Len(E) = n + 1 /\ E[n+1] = e /\ \A i \in 1 .. n : E[i] = D[i]
  BY AppendProperties
<1>. HIDE DEF E, n
<1>2. 1 .. n + 1 = (1 .. n) \cup {n + 1} /\ n + 1 \notin 1 .. n
  BY <1>1
<1>3. ASSUME NEW i PROVE i \in J <=> i \in I \/ (e \in P /\ i = n + 1)
  BY <1>1, <1>2
<1>4. J = I \cup (IF e \in P THEN {n + 1} ELSE {})
  BY <1>3
<1>. QED  BY <1>1, <1>4 DEF E, n

(* The first and the last position of a member of P in D, or 0. *)
PositionsIn(D, P) == {i \in 1 .. Len(D) : D[i] \in P}
FirstIn(D, P) == IF PositionsIn(D, P) # {} THEN Min(PositionsIn(D, P)) ELSE 0
LastIn(D, P) == IF PositionsIn(D, P) # {} THEN Max(PositionsIn(D, P)) ELSE 0

LEMMA FirstOfOneMore ==
  ASSUME NEW S, NEW D \in Seq(S), NEW e \in S, NEW P
  PROVE  LET E == Append(D, e)
             r == FirstIn(D, P)
             q == FirstIn(E, P)
         IN  /\ r # 0 => r \in 1 .. Len(D) /\ q = r /\ E[q] = D[r]
             /\ r = 0 /\ e \in P => q # 0 /\ E[q] = e
             /\ r = 0 /\ e \notin P => q = 0
<1>. DEFINE E == Append(D, e)
            n == Len(D)
            I == {i \in 1 .. n : D[i] \in P}
            J == {i \in 1 .. Len(E) : E[i] \in P}
            r == IF I # {} THEN Min(I) ELSE 0
            q == IF J # {} THEN Min(J) ELSE 0
<1>1. /\ n \in Nat /\ Len(E) = n + 1 /\ E[n+1] = e /\ \A i \in 1 .. n : E[i] = D[i]
      /\ J = I \cup (IF e \in P THEN {n + 1} ELSE {})
      /\ I \subseteq 1 .. n
  BY OneMorePosition
<1>2. /\ I = {} => r = 0
      /\ I # {} => r \in I /\ \A k \in I : r <= k
  <2>. HIDE DEF I, n
  <2>. QED  BY <1>1, FirstIs
<1>3. /\ J = {} => q = 0
      /\ J # {} => q \in J /\ \A k \in J : q <= k
  <2>1. J \in SUBSET (1 .. n + 1) /\ n + 1 \in Nat
    BY <1>1
  <2>. HIDE DEF J, n
  <2>. QED  BY <2>1, FirstIs
<1>. HIDE DEF E, I, J, r, q, n, FirstIn, PositionsIn
<1>4. /\ r # 0 => r \in 1 .. n /\ q = r /\ E[q] = D[r]
      /\ r = 0 /\ e \in P => q # 0 /\ E[q] = e
      /\ r = 0 /\ e \notin P => q = 0
  <2>1. CASE I # {}
    <3>1. r \in 1 .. n /\ r \in J /\ J # {} /\ q \in J
      BY <1>1, <1>2, <1>3, <2>1
    <3>2. q <= r
      BY <1>3, <3>1
    <3>3. q \in I
      BY <1>1, <3>1, <3>2
    <3>4. r <= q
      BY <1>2, <2>1, <3>3
    <3>5. q = r
      BY <1>1, <3>1, <3>2, <3>3, <3>4
    <3>. QED  BY <1>1, <2>1, <3>1, <3>5
  <2>2. CASE I = {} /\ e \in P
    <3>1. J = {n + 1} /\ q = n + 1 /\ r = 0 /\ n + 1 # 0
      BY <1>1, <1>2, <1>3, <2>2
    <3>. QED  BY <1>1, <2>2, <3>1
  <2>3. CASE I = {} /\ e \notin P
    <3>1. J = {} /\ q = 0 /\ r = 0
      BY <1>1, <1>2, <1>3, <2>3
    <3>. QED  BY <1>1, <2>3, <3>1
  <2>. QED  BY <2>1, <2>2, <2>3
<1>. QED  BY <1>4 DEF E, I, J, r, q, n, FirstIn, PositionsIn

LEMMA LastOfOneMore ==
  ASSUME NEW S, NEW D \in Seq(S), NEW e \in S, NEW P
  PROVE  LET E == Append(D, e)
             r == LastIn(D, P)
             q == LastIn(E, P)
         IN  /\ e \in P => q # 0 /\ E[q] = e
             /\ e \notin P /\ r # 0 => q = r /\ E[q] = D[r]
             /\ e \notin P /\ r = 0 => q = 0
<1>. DEFINE E == Append(D, e)
            n == Len(D)
            I == {i \in 1 .. n : D[i] \in P}
            J == {i \in 1 .. Len(E) : E[i] \in P}
            r == IF I # {} THEN Max(I) ELSE 0
            q == IF J # {} THEN Max(J) ELSE 0
<1>1. /\ n \in Nat /\ Len(E) = n + 1 /\ E[n+1] = e /\ \A i \in 1 .. n : E[i] = D[i]
      /\ J = I \cup (IF e \in P THEN {n + 1} ELSE {})
      /\ I \subseteq 1 .. n
  BY OneMorePosition
<1>2. /\ I = {} => r = 0
      /\ I # {} => r \in I /\ \A k \in I : k <= r
  <2>. HIDE DEF I, n
  <2>. QED  BY <1>1, LastIs
<1>3. /\ J = {} => q = 0
      /\ J # {} => q \in J /\ \A k \in J : k <= q
  <2>1. J \in SUBSET (1 .. n + 1) /\ n + 1 \in Nat
    BY <1>1
  <2>. HIDE DEF J, n
  <2>. QED  BY <2>1, LastIs
<1>. HIDE DEF E, I, J, r, q, n
<1>4. ASSUME e \in P PROVE q # 0 /\ E[q] = e
  <2>1. n + 1 \in J /\ J # {} /\ q \in J
    BY <1>1, <1>3, <1>4
  <2>2. q = n + 1
    <3>1. n + 1 <= q
      BY <1>3, <2>1
    <3>2. q \in 1 .. n + 1
      BY <1>1, <2>1
    <3>. QED  BY <1>1, <3>1, <3>2
  <2>3. q # 0 /\ E[q] = e
    BY <1>1, <2>2
  <2>. QED  BY <1>4, <2>3
<1>5. ASSUME e \notin P PROVE q = r /\ (r # 0 => E[q] = D[r])
  <2>1. J = I /\ q = r
    BY <1>1, <1>5 DEF q, r
  <2>2. r # 0 => r \in 1 .. n
    BY <1>1, <1>2
  <2>3. r # 0 => E[q] = D[r]
    BY <1>1, <2>1, <2>2
  <2>. QED  BY <1>5, <2>1, <2>3
<1>6. /\ e \in P => q # 0 /\ E[q] = e
      /\ e \notin P /\ r # 0 => q = r /\ E[q] = D[r]
      /\ e \notin P /\ r = 0 => q = 0
  BY <1>4, <1>5
<1>. QED  BY <1>6 DEF E, I, J, r, q, n, LastIn, PositionsIn

(* A positive test of the first or last effect of a kind. *)
Chooses(x) == x[1] \in Routing /\ Applies(x[1], x[2])
Concerns(x, t) == x[1] \in {"add_tag", "remove_tag"} /\ x[2] = t

LEMMA RouteIs ==
  ASSUME NEW D \in Seq(Effect), NEW e \in Effect
  PROVE  LET E == Append(D, e)
         IN  /\ Route(D) # 0 => Route(E) = Route(D) /\ E[Route(E)] = D[Route(D)]
             /\ Route(D) = 0 /\ Chooses(e) => Route(E) # 0 /\ E[Route(E)] = e
             /\ Route(D) = 0 /\ ~Chooses(e) => Route(E) = 0
<1>. DEFINE E == Append(D, e)
            P == {x \in Effect : Chooses(x)}
            I == {i \in 1 .. Len(D) : D[i] \in P}
            J == {i \in 1 .. Len(E) : E[i] \in P}
<1>1. E \in Seq(Effect)
  BY AppendProperties
<1>2. I = {i \in 1 .. Len(D) : Chooses(D[i])}
  OBVIOUS
<1>3. J = {i \in 1 .. Len(E) : Chooses(E[i])}
  <2>. HIDE DEF E
  <2>. QED  BY <1>1
<1>4. Route(D) = FirstIn(D, P)
  BY <1>2 DEF Route, SelectInSeq, Chooses, FirstIn, PositionsIn
<1>5. Route(E) = FirstIn(E, P)
  <2>. HIDE DEF E
  <2>. QED  BY <1>3 DEF Route, SelectInSeq, Chooses, FirstIn, PositionsIn
<1>6. e \in P <=> Chooses(e)
  OBVIOUS
<1>. DEFINE r == FirstIn(D, P)
            q == FirstIn(E, P)
<1>7. /\ r # 0 => r \in 1 .. Len(D) /\ q = r /\ E[q] = D[r]
      /\ r = 0 /\ e \in P => q # 0 /\ E[q] = e
      /\ r = 0 /\ e \notin P => q = 0
  <2>. HIDE DEF P
  <2>. HIDE DEF I, J
  <2>. QED  BY FirstOfOneMore, ZenonT(30)
<1>. HIDE DEF P, I, J, E, r, q
<1>8. /\ Route(D) # 0 => Route(E) = Route(D) /\ E[Route(E)] = D[Route(D)]
      /\ Route(D) = 0 /\ Chooses(e) => Route(E) # 0 /\ E[Route(E)] = e
      /\ Route(D) = 0 /\ ~Chooses(e) => Route(E) = 0
  BY <1>4, <1>5, <1>6, <1>7 DEF r, q
<1>. QED  BY <1>8 DEF E

LEMMA LastStatusIs ==
  ASSUME NEW D \in Seq(Effect), NEW e \in Effect
  PROVE  LET E == Append(D, e)
         IN  /\ Restates(e[1], e[2]) => LastStatus(E) # 0 /\ E[LastStatus(E)] = e
             /\ ~Restates(e[1], e[2]) /\ LastStatus(D) # 0 => LastStatus(E) # 0 /\ E[LastStatus(E)] = D[LastStatus(D)]
             /\ ~Restates(e[1], e[2]) /\ LastStatus(D) = 0 => LastStatus(E) = 0
<1>. DEFINE E == Append(D, e)
            P == {x \in Effect : Restates(x[1], x[2])}
            I == {i \in 1 .. Len(D) : D[i] \in P}
            J == {i \in 1 .. Len(E) : E[i] \in P}
<1>1. E \in Seq(Effect)
  BY AppendProperties
<1>2. I = {i \in 1 .. Len(D) : Restates(D[i][1], D[i][2])}
  OBVIOUS
<1>3. J = {i \in 1 .. Len(E) : Restates(E[i][1], E[i][2])}
  <2>. HIDE DEF E
  <2>. QED  BY <1>1
<1>4. LastStatus(D) = LastIn(D, P)
  BY <1>2 DEF LastStatus, SelectLastInSeq, LastIn, PositionsIn
<1>5. LastStatus(E) = LastIn(E, P)
  <2>. HIDE DEF E
  <2>. QED  BY <1>3 DEF LastStatus, SelectLastInSeq, LastIn, PositionsIn
<1>6. e \in P <=> Restates(e[1], e[2])
  OBVIOUS
<1>. DEFINE r == LastIn(D, P)
            q == LastIn(E, P)
<1>7. /\ e \in P => q # 0 /\ E[q] = e
      /\ e \notin P /\ r # 0 => q = r /\ E[q] = D[r]
      /\ e \notin P /\ r = 0 => q = 0
  <2>. HIDE DEF P
  <2>. QED  BY LastOfOneMore
<1>. HIDE DEF P, I, J, E, r, q
<1>8. /\ Restates(e[1], e[2]) => LastStatus(E) # 0 /\ E[LastStatus(E)] = e
      /\ ~Restates(e[1], e[2]) /\ LastStatus(D) # 0 => LastStatus(E) # 0 /\ E[LastStatus(E)] = D[LastStatus(D)]
      /\ ~Restates(e[1], e[2]) /\ LastStatus(D) = 0 => LastStatus(E) = 0
  BY <1>4, <1>5, <1>6, <1>7 DEF r, q
<1>. QED  BY <1>8 DEF E

LEMMA TagIs ==
  ASSUME NEW D \in Seq(Effect), NEW e \in Effect, NEW t
  PROVE  TagIsOn(Append(D, e), t) <=> IF Concerns(e, t) THEN e[1] = "add_tag" ELSE TagIsOn(D, t)
<1>. DEFINE E == Append(D, e)
            P == {x \in Effect : Concerns(x, t)}
            I == {i \in 1 .. Len(D) : D[i] \in P}
            J == {i \in 1 .. Len(E) : E[i] \in P}
            r == LastIn(D, P)
            q == LastIn(E, P)
<1>1. E \in Seq(Effect)
  BY AppendProperties
<1>2. I = {i \in 1 .. Len(D) : Concerns(D[i], t)}
  OBVIOUS
<1>3. J = {i \in 1 .. Len(E) : Concerns(E[i], t)}
  <2>. HIDE DEF E
  <2>. QED  BY <1>1
<1>4. TagIsOn(D, t) <=> r # 0 /\ D[r][1] = "add_tag"
  BY <1>2 DEF TagIsOn, SelectLastInSeq, Concerns, LastIn, PositionsIn
<1>5. TagIsOn(E, t) <=> q # 0 /\ E[q][1] = "add_tag"
  <2>. HIDE DEF E
  <2>. QED  BY <1>3 DEF TagIsOn, SelectLastInSeq, Concerns, LastIn, PositionsIn
<1>6. e \in P <=> Concerns(e, t)
  OBVIOUS
<1>7. /\ e \in P => q # 0 /\ E[q] = e
      /\ e \notin P /\ r # 0 => q = r /\ E[q] = D[r]
      /\ e \notin P /\ r = 0 => q = 0
  <2>. HIDE DEF P
  <2>. QED  BY LastOfOneMore
<1>. HIDE DEF P, I, J, E, r, q
<1>8. TagIsOn(E, t) <=> IF Concerns(e, t) THEN e[1] = "add_tag" ELSE TagIsOn(D, t)
  BY <1>4, <1>5, <1>6, <1>7
<1>. QED  BY <1>8 DEF E

(* Of a conversation nothing has been made by no effect. *)
LEMMA NoEffects ==
  /\ Route(<<>>) = 0
  /\ \A from \in Situations : Placed(<<>>, from) = from
  /\ \A t : ~TagIsOn(<<>>, t)
  /\ Replies(<<>>) = <<>>
<1>1. \A i : i \notin 1 .. Len(<<>>)
  OBVIOUS
<1>2. Route(<<>>) = 0
  BY <1>1 DEF Route, SelectInSeq
<1>3. LastStatus(<<>>) = 0
  BY <1>1 DEF LastStatus, SelectLastInSeq
<1>4. \A t : ~TagIsOn(<<>>, t)
  BY <1>1 DEF TagIsOn, SelectLastInSeq
<1>5. ASSUME NEW from \in Situations
      PROVE  Placed(<<>>, from) = from
  BY <1>2, <1>3 DEF Placed, Routes, Situations
<1>6. Replies(<<>>) = <<>>
  <2>. DEFINE f == [i \in DOMAIN <<>> |-> Says(<<>>[i][1], <<>>[i][2])]
  <2>1. Lists(Texts, 0, f)
    BY DEF Lists
  <2>2. FlattenSeq(f) = <<>>
    <3>. HIDE DEF f
    <3>. QED  BY <2>1, FlattenNone
  <2>. QED  BY <2>2 DEF Replies
<1>. QED  BY <1>2, <1>4, <1>5, <1>6

LEMMA PlacedIs ==
  ASSUME NEW D \in Seq(Effect), NEW e \in Effect, NEW from
  PROVE  LET wins == Route(D) = 0 /\ Chooses(e)
         IN  Placed(Append(D, e), from) =
               [inbox    |-> IF wins /\ e[1] = "move_inbox" THEN e[2] ELSE Placed(D, from).inbox,
                assignee |-> IF wins /\ e[1] = "assign_user" THEN e[2] ELSE Placed(D, from).assignee,
                status   |-> IF Restates(e[1], e[2]) THEN StatusOf[e[2]] ELSE Placed(D, from).status]
<1>. DEFINE E == Append(D, e)
            wins == Route(D) = 0 /\ Chooses(e)
<1>1. \A type : Routes(E, type) <=> IF wins THEN e[1] = type ELSE Routes(D, type)
  BY RouteIs DEF Routes
<1>2. Route(D) # 0 => E[Route(E)] = D[Route(D)]
  BY RouteIs
<1>3. wins => E[Route(E)] = e
  BY RouteIs
<1>4. IF Restates(e[1], e[2]) THEN LastStatus(E) # 0 /\ E[LastStatus(E)] = e
      ELSE (LastStatus(E) = 0 <=> LastStatus(D) = 0) /\ (LastStatus(D) # 0 => E[LastStatus(E)] = D[LastStatus(D)])
  BY LastStatusIs
<1>5. \A type : Routes(D, type) => Route(D) # 0
  BY DEF Routes
<1>. HIDE DEF E, wins
<1>6. Placed(E, from).inbox = IF wins /\ e[1] = "move_inbox" THEN e[2] ELSE Placed(D, from).inbox
  BY <1>1, <1>2, <1>3, <1>5 DEF Placed, wins
<1>7. Placed(E, from).assignee = IF wins /\ e[1] = "assign_user" THEN e[2] ELSE Placed(D, from).assignee
  BY <1>1, <1>2, <1>3, <1>5 DEF Placed, wins
<1>8. Placed(E, from).status = IF Restates(e[1], e[2]) THEN StatusOf[e[2]] ELSE Placed(D, from).status
  BY <1>4 DEF Placed
<1>9. Placed(E, from) = [inbox |-> Placed(E, from).inbox, assignee |-> Placed(E, from).assignee, status |-> Placed(E, from).status]
  BY DEF Placed
<1>. QED  BY <1>6, <1>7, <1>8, <1>9 DEF E, wins

LEMMA SaysIs ==
  ASSUME RuleTypeOK, NEW type, NEW y
  PROVE  Says(type, y) \in Seq(Texts)
BY DEF Says, RuleTypeOK

LEMMA RepliesAre ==
  ASSUME RuleTypeOK, NEW D \in Seq(Effect), NEW e \in Effect
  PROVE  /\ Replies(D) \in Seq(Texts)
         /\ Replies(Append(D, e)) = Replies(D) \o Says(e[1], e[2])
<1>. DEFINE E == Append(D, e)
            n == Len(D)
            m == n + 1
            f == [i \in DOMAIN D |-> Says(D[i][1], D[i][2])]
            g == [i \in DOMAIN E |-> Says(E[i][1], E[i][2])]
<1>1. /\ n \in Nat /\ m \in Nat /\ DOMAIN D = 1 .. n /\ DOMAIN E = 1 .. m
      /\ E[m] = e /\ \A i \in 1 .. n : E[i] = D[i]
  <2>1. n \in Nat /\ DOMAIN D = 1 .. n
    OBVIOUS
  <2>2. E \in Seq(Effect) /\ Len(E) = n + 1 /\ E[n+1] = e /\ \A i \in 1 .. n : E[i] = D[i]
    BY AppendProperties
  <2>3. DOMAIN E = 1 .. Len(E)
    <3>. HIDE DEF E
    <3>. QED  BY <2>2
  <2>. QED  BY <2>1, <2>2, <2>3
<1>. HIDE DEF E, n
<1>2. Lists(Texts, n, f)
  BY <1>1, SaysIs DEF Lists
<1>3. Lists(Texts, m, g)
  BY <1>1, SaysIs DEF Lists
<1>4. Same(f, g, n)
  <2>1. ASSUME NEW k \in 1 .. n PROVE f[k] = g[k]
    <3>1. k \in 1 .. m
      BY <1>1
    <3>. QED  BY <1>1, <3>1
  <2>. HIDE DEF f, g
  <2>. QED  BY <2>1 DEF Same
<1>5. g[m] = Says(e[1], e[2])
  BY <1>1
<1>0. m = n + 1
  OBVIOUS
<1>8. n \in Nat /\ m \in Nat
  BY <1>1
<1>. HIDE DEF m
<1>6. /\ FlattenSeq(f) \in Seq(Texts)
      /\ FlattenSeq(g) = FlattenSeq(f) \o g[m]
  <2>. HIDE DEF f, g
  <2>. QED  BY <1>0, <1>8, <1>2, <1>3, <1>4, FlattenOneMore
<1>7. FlattenSeq(f) = Replies(D) /\ FlattenSeq(g) = Replies(E)
  BY DEF Replies
<1>. HIDE DEF f, g
<1>. QED  BY <1>5, <1>6, <1>7 DEF E

-----------------------------------------------------------------------------
(* Where an evaluation is.                                                  *)

(* The conversation and the evaluation are as the effects D make them. *)
Does(D) ==
  /\ run.won <=> Route(D) # 0
  /\ run.out = Placed(D, run.from)
  /\ message \in Emails =>
       /\ run.adds \ run.drops = {t \in Values : TagIsOn(D, t)}
       /\ run.says = Replies(D)
  /\ message \notin Emails =>
       /\ tagged = {t \in known : TagIsOn(D, t)} /\ scheduled = Replies(D)
       /\ run.adds = {} /\ run.drops = {} /\ run.says = <<>>

(* The candidates from rule j on. *)
Onwards(j) == {<<k, rule[k].stop>> : k \in {i \in Book : j <= i /\ rule[i].on}}
Stopped(j) == \E i \in Matching : i < j /\ rule[i].stop

(* The first n actions of rule c, of which none failed. *)
Behind(c, n) == EffectsUpTo(c-1) \o SubSeq(rule[c].acts, 1, n)
Unfailing(c, n) == \A i \in 1 .. n : ~Fails(rule[c].acts[i][1], rule[c].acts[i][2])

(* Where an evaluation is that met no administrator: in front of rule j, at
   the actions of a rule that runs, or within them. *)
InFront(j) ==
  /\ Does(EffectsUpTo(j-1))
  /\ run.todo = IF Stopped(j) THEN {} ELSE Onwards(j)
AtActions(c) ==
  /\ c \in Runs
  /\ Does(EffectsUpTo(c-1))
  /\ run.todo = Onwards(c)
Within(c, n) ==
  /\ c \in Runs
  /\ n < Len(rule[c].acts) /\ Unfailing(c, n)
  /\ run.acts = SubSeq(rule[c].acts, n + 1, Len(rule[c].acts))
  /\ Does(Behind(c, n))
  /\ run.todo = Onwards(c)

Reads ==
  /\ run.at = "conditions" => \E j \in 1 .. Size + 1 : InFront(j)
  /\ run.at = "actions" => \E c \in Book : AtActions(c)
  /\ run.at = "apply" => \E c \in Book : \E n \in 0 .. Len(rule[c].acts) : Within(c, n)
  /\ run.at = "done" => OutcomeIsReference

(* Until an evaluation is over, only that of a chat message has written. *)
Unwritten ==
  run.at # "done" /\ (message \in Emails \/ run.at = "idle") => tagged = {} /\ scheduled = <<>>

(* An evaluation at a rule has it, and one that applies has an action. *)
Underway ==
  /\ run.at \in {"actions", "apply"} => run.todo # {}
  /\ run.at = "apply" => run.acts # <<>>

(* Only an email keeps the tags that it will add. *)
Unbuffered == message \notin Emails => run.adds = {}

RuleInv ==
  /\ RuleTypeOK
  /\ Underway
  /\ Unbuffered
  /\ Unwritten
  /\ run.calm => Reads

-----------------------------------------------------------------------------
(* The effects of the book.                                                 *)

LEMMA RowIs ==
  ASSUME RuleTypeOK, NEW k \in Book
  PROVE  /\ rule[k].on \in BOOLEAN /\ rule[k].stop \in BOOLEAN
         /\ rule[k].acts \in Seq(Effect) /\ rule[k].conds \in Seq(Nat \X STRING)
BY DEF RuleTypeOK, RuleRows, Effect

LEMMA EffectiveIs ==
  ASSUME RuleTypeOK, NEW k \in Book
  PROVE  /\ Effective(k) \in Seq(Effect)
         /\ \A n \in 0 .. Len(rule[k].acts) :
              /\ Unfailing(k, n)
              /\ n < Len(rule[k].acts) => Fails(rule[k].acts[n+1][1], rule[k].acts[n+1][2])
              => Effective(k) = SubSeq(rule[k].acts, 1, n)
<1>. DEFINE a == rule[k].acts
            l == Len(a)
            I == {i \in 1 .. l : Fails(a[i][1], a[i][2])}
            u == IF I # {} THEN Min(I) ELSE 0
<1>1. a \in Seq(Effect) /\ l \in Nat
  BY RowIs
<1>2. /\ I = {} => u = 0
      /\ I # {} => u \in I /\ \A i \in I : u <= i
  <2>. HIDE DEF a, l
  <2>1. I \in SUBSET (1 .. l)
    OBVIOUS
  <2>. HIDE DEF I
  <2>. QED  BY <1>1, <2>1, FirstIs
<1>3. UpToFailure(a) = u
  BY DEF UpToFailure, SelectInSeq
<1>4. Effective(k) = IF u = 0 THEN a ELSE SubSeq(a, 1, u - 1)
  BY <1>3 DEF Effective
<1>9. \A i \in 1 .. l : a[i] \in Effect
  <2>. HIDE DEF a
  <2>. QED  BY <1>1
<1>5. SubSeq(a, 1, l) = a
  BY <1>1, SubSeqFull
<1>6. ASSUME NEW n \in 0 .. l, Unfailing(k, n), n < l => Fails(a[n+1][1], a[n+1][2])
      PROVE  Effective(k) = SubSeq(a, 1, n)
  <2>1. \A i \in 1 .. n : i \notin I
    BY <1>6 DEF Unfailing
  <2>. HIDE DEF a, l, u
  <2>2. n < l => n + 1 \in I
    BY <1>1, <1>6
  <2>3. CASE n < l
    <3>1. I # {} /\ u \in I /\ u <= n + 1 /\ u \in 1 .. l
      BY <1>2, <2>2, <2>3
    <3>2. u = n + 1
      BY <1>1, <2>1, <3>1
    <3>. QED  BY <1>4, <3>2
  <2>4. CASE ~(n < l)
    <3>1. n = l
      BY <1>1, <2>4
    <3>2. I = {}
      BY <2>1, <3>1
    <3>. QED  BY <1>2, <1>4, <1>5, <3>1, <3>2
  <2>. QED  BY <2>3, <2>4
<1>7. Effective(k) \in Seq(Effect)
  <2>. HIDE DEF a, l, u
  <2>1. CASE u = 0
    BY <1>1, <1>4, <2>1
  <2>2. CASE u # 0
    <3>1. u \in 1 .. l
      BY <1>2, <2>2
    <3>2. \A i \in 1 .. u - 1 : i \in 1 .. l
      BY <1>1, <3>1
    <3>3. \A i \in 1 .. u - 1 : a[i] \in Effect
      BY <1>9, <3>2
    <3>4. SubSeq(a, 1, u - 1) \in Seq(Effect)
      BY <1>1, <3>1, <3>3, SubSeqProperties
    <3>. QED  BY <1>4, <2>2, <3>4
  <2>. QED  BY <2>1, <2>2
<1>8. \A n \in 0 .. l : Unfailing(k, n) /\ (n < l => Fails(a[n+1][1], a[n+1][2])) => Effective(k) = SubSeq(a, 1, n)
  BY <1>6
<1>. QED  BY <1>7, <1>8

(* What the rule k adds. *)
Share(k) == IF k \in Runs THEN Effective(k) ELSE <<>>

LEMMA ShareIs ==
  ASSUME RuleTypeOK, NEW k \in Book
  PROVE  Share(k) \in Seq(Effect)
BY EffectiveIs DEF Share

LEMMA EffectsNone == EffectsUpTo(0) = <<>>
<1>. DEFINE f == [k \in 1 .. 0 |-> Share(k)]
<1>1. Lists(Effect, 0, f)
  BY DEF Lists
<1>2. FlattenSeq(f) = <<>>
  <2>. HIDE DEF f
  <2>. QED  BY <1>1, FlattenNone
<1>. QED  BY <1>2 DEF EffectsUpTo, Share

LEMMA EffectsNext ==
  ASSUME RuleTypeOK, NEW m \in Book
  PROVE  /\ EffectsUpTo(m-1) \in Seq(Effect) /\ EffectsUpTo(m) \in Seq(Effect)
         /\ EffectsUpTo(m) = EffectsUpTo(m-1) \o Share(m)
<1>. DEFINE n == m - 1
            f == [k \in 1 .. n |-> Share(k)]
            g == [k \in 1 .. m |-> Share(k)]
<1>1. m \in Nat /\ n \in Nat /\ m = n + 1 /\ m \in 1 .. m /\ Size \in Nat
      /\ (\A k \in 1 .. m : k \in Book) /\ \A k \in 1 .. n : k \in 1 .. m
  BY RuleAssumption DEF Book
<1>. HIDE DEF n
<1>2. Lists(Effect, n, f)
  BY <1>1, ShareIs DEF Lists
<1>3. Lists(Effect, m, g)
  BY <1>1, ShareIs DEF Lists
<1>4. Same(f, g, n)
  BY <1>1 DEF Same
<1>5. g[m] = Share(m)
  BY <1>1
<1>6. n \in Nat /\ m \in Nat /\ m = n + 1
  BY <1>1
<1>7. FlattenSeq(f) = EffectsUpTo(n) /\ FlattenSeq(g) = EffectsUpTo(m)
  BY DEF EffectsUpTo, Share
<1>8. /\ FlattenSeq(f) \in Seq(Effect) /\ FlattenSeq(g) \in Seq(Effect)
      /\ FlattenSeq(g) = FlattenSeq(f) \o g[m]
  <2>. HIDE DEF f, g
  <2>. QED  BY <1>2, <1>3, <1>4, <1>6, FlattenOneMore
<1>. HIDE DEF f, g
<1>. QED  BY <1>5, <1>7, <1>8 DEF n

LEMMA EffectsAre ==
  ASSUME RuleTypeOK, NEW n \in 0 .. Size
  PROVE  EffectsUpTo(n) \in Seq(Effect)
<1>1. CASE n = 0
  <2>1. <<>> \in Seq(Effect)
    OBVIOUS
  <2>. QED  BY <1>1, <2>1, EffectsNone
<1>2. CASE n # 0
  <2>1. n \in Book
    BY <1>2, RuleAssumption DEF Book
  <2>. QED  BY <2>1, EffectsNext
<1>. QED  BY <1>1, <1>2

(* Rules that do not run have no part in the effects. *)
LEMMA EffectsSkip ==
  ASSUME RuleTypeOK, NEW i \in 0 .. Size, NEW j \in 0 .. Size, i <= j,
         \A k \in Book : i < k /\ k <= j => k \notin Runs
  PROVE  EffectsUpTo(j) = EffectsUpTo(i)
<1>. DEFINE M == {k \in 0 .. Size : i <= k /\ k <= j => EffectsUpTo(k) = EffectsUpTo(i)}
<1>1. 0 \in M /\ Size \in Nat
  BY RuleAssumption
<1>2. ASSUME NEW k \in 0 .. Size, k \in M, k < Size
      PROVE  k + 1 \in M
  <2>1. k + 1 \in Book /\ k + 1 \in 0 .. Size /\ (k + 1) - 1 = k
    BY <1>1, <1>2 DEF Book
  <2>2. ASSUME i <= k + 1, k + 1 <= j, k + 1 # i
        PROVE  EffectsUpTo(k+1) = EffectsUpTo(i)
    <3>1. i <= k /\ k <= j /\ i < k + 1
      BY <1>1, <1>2, <2>2
    <3>2. Share(k+1) = <<>>
      BY <2>1, <2>2, <3>1 DEF Share
    <3>3. EffectsUpTo(k) \in Seq(Effect) /\ EffectsUpTo(k+1) = EffectsUpTo(k) \o Share(k+1)
      <4>. DEFINE m == k + 1
      <4>1. m \in Book /\ m - 1 = k
        BY <2>1
      <4>. HIDE DEF m
      <4>2. EffectsUpTo(m-1) \in Seq(Effect) /\ EffectsUpTo(m) = EffectsUpTo(m-1) \o Share(m)
        BY <4>1, EffectsNext
      <4>. QED  BY <4>1, <4>2 DEF m
    <3>4. EffectsUpTo(k+1) = EffectsUpTo(k)
      BY <3>2, <3>3, ConcatEmptySeq
    <3>. QED  BY <1>2, <3>1, <3>4
  <2>. QED  BY <2>1, <2>2
<1>3. 0 .. Size \subseteq M
  <2>. HIDE DEF M
  <2>. QED  BY <1>1, <1>2, UpTo
<1>. QED  BY <1>3

-----------------------------------------------------------------------------
(* The candidates.                                                          *)

LEMMA CandidateIs ==
  ASSUME NEW j \in Nat, run.todo = Onwards(j), run.todo # {}
  PROVE  \E c \in Book :
           /\ j <= c /\ rule[c].on
           /\ Candidate = <<c, rule[c].stop>>
           /\ run.todo = Onwards(c) /\ Rest = Onwards(c + 1)
           /\ \A k \in Book : j <= k /\ k < c => ~rule[k].on
<1>. DEFINE T == {i \in Book : j <= i /\ rule[i].on}
<1>1. T \in SUBSET Nat /\ T # {} /\ Book \subseteq Nat
  <2>1. Book \subseteq Nat
    BY RuleAssumption DEF Book
  <2>2. run.todo = {<<k, rule[k].stop>> : k \in T}
    BY DEF Onwards
  <2>3. T # {}
    <3>. HIDE DEF T
    <3>. QED  BY <2>2
  <2>. QED  BY <2>1, <2>3
<1>2. PICK c \in T : \A k \in T : c <= k
  <2>. HIDE DEF T
  <2>. QED  BY <1>1, Least
<1>3. c \in Book /\ j <= c /\ rule[c].on /\ c \in Nat
  BY <1>1, <1>2
<1>4. \A k \in Book : j <= k /\ k < c => ~rule[k].on
  BY <1>1, <1>2
<1>5. \A d \in run.todo : \E k \in T : d = <<k, rule[k].stop>>
  BY DEF Onwards
<1>6. <<c, rule[c].stop>> \in run.todo
  BY <1>2 DEF Onwards
<1>7. Candidate \in run.todo /\ \A d \in run.todo : Candidate[1] <= d[1]
  <2>1. \A d \in run.todo : c <= d[1]
    BY <1>2, <1>5
  <2>2. \E m \in run.todo : \A d \in run.todo : m[1] <= d[1]
    BY <1>6, <2>1
  <2>. QED  BY <2>2 DEF Candidate
<1>8. Candidate = <<c, rule[c].stop>>
  <2>1. PICK k \in T : Candidate = <<k, rule[k].stop>>
    BY <1>5, <1>7
  <2>2. k <= c /\ c <= k /\ k \in Nat
    BY <1>1, <1>2, <1>6, <1>7, <2>1
  <2>3. k = c
    BY <1>3, <2>2
  <2>. QED  BY <2>1, <2>3
<1>9. ASSUME NEW k \in Book PROVE j <= k /\ rule[k].on <=> c <= k /\ rule[k].on
  BY <1>1, <1>2, <1>3
<1>10. run.todo = Onwards(c)
  BY <1>9 DEF Onwards
<1>11. ASSUME NEW k \in Book PROVE c + 1 <= k <=> c <= k /\ k # c
  BY <1>1, <1>3
<1>12. Rest = Onwards(c + 1)
  BY <1>8, <1>10, <1>11 DEF Onwards, Rest
<1>. QED  BY <1>3, <1>4, <1>8, <1>10, <1>12

(* The candidate is the rule that runs. *)
LEMMA CandidateRuns ==
  ASSUME NEW c \in Book, rule[c].on, run.todo = Onwards(c)
  PROVE  Candidate = <<c, rule[c].stop>> /\ Rest = Onwards(c + 1)
<1>1. c \in Nat /\ Book \subseteq Nat
  BY RuleAssumption DEF Book
<1>2. <<c, rule[c].stop>> \in run.todo
  BY <1>1 DEF Onwards
<1>3. PICK d \in Book : /\ c <= d /\ rule[d].on
                        /\ Candidate = <<d, rule[d].stop>>
                        /\ Rest = Onwards(d + 1)
                        /\ \A k \in Book : c <= k /\ k < d => ~rule[k].on
  BY <1>1, <1>2, CandidateIs
<1>4. d = c
  BY <1>1, <1>3
<1>. QED  BY <1>3, <1>4

-----------------------------------------------------------------------------
(* A step that leaves the book alone.                                       *)

SameBook == UNCHANGED <<rule, member, known, canned, message>>

LEMMA FailsSame == ASSUME SameBook PROVE \A type, x : Fails(type, x)' <=> Fails(type, x)
BY DEF SameBook, Fails

LEMMA RouteSame == ASSUME SameBook, NEW D PROVE Route(D)' = Route(D)
BY DEF SameBook, Route, SelectInSeq, Applies

LEMMA StatusSame == ASSUME NEW D PROVE LastStatus(D)' = LastStatus(D)
BY DEF LastStatus, SelectLastInSeq, Restates

LEMMA PlacedSame == ASSUME SameBook, NEW D, NEW from PROVE Placed(D, from)' = Placed(D, from)
BY RouteSame, StatusSame DEF Placed, Routes

LEMMA TagSame == ASSUME NEW D, NEW t PROVE TagIsOn(D, t)' <=> TagIsOn(D, t)
BY DEF TagIsOn, SelectLastInSeq

LEMMA RepliesSame == ASSUME SameBook, NEW D PROVE Replies(D)' = Replies(D)
<1>1. \A i \in DOMAIN D : Says(D[i][1], D[i][2])' = Says(D[i][1], D[i][2])
  BY DEF SameBook, Says
<1>. DEFINE f == [i \in DOMAIN D |-> Says(D[i][1], D[i][2])]
<1>2. f' = f
  BY <1>1
<1>3. FlattenSeq(f)' = FlattenSeq(f)
  <2>. HIDE DEF f
  <2>. QED  BY <1>2
<1>. QED  BY <1>3 DEF Replies

LEMMA RunsSame ==
  ASSUME SameBook
  PROVE  /\ Matching' = Matching /\ Runs' = Runs
         /\ \A j : (Stopped(j)' <=> Stopped(j)) /\ Onwards(j)' = Onwards(j)
<1>1. Matching' = Matching
  BY DEF SameBook, Matching, Matches
<1>2. rule' = rule
  BY DEF SameBook
<1>3. Runs' = Runs
  BY <1>1, <1>2 DEF Runs
<1>4. \A j : Stopped(j)' <=> Stopped(j)
  BY <1>1, <1>2 DEF Stopped
<1>5. \A j : Onwards(j)' = Onwards(j)
  BY <1>2 DEF Onwards
<1>. QED  BY <1>1, <1>3, <1>4, <1>5

LEMMA EffectiveSame == ASSUME SameBook, NEW k PROVE Effective(k)' = Effective(k)
<1>1. \A a : UpToFailure(a)' = UpToFailure(a)
  BY DEF SameBook, UpToFailure, SelectInSeq, Fails
<1>2. rule[k].acts' = rule[k].acts
  BY DEF SameBook
<1>. DEFINE a == rule[k].acts
<1>3. UpToFailure(a)' = UpToFailure(a)
  <2>1. a' = a
    BY <1>2
  <2>. HIDE DEF a
  <2>. QED  BY <1>1, <2>1
<1>. QED  BY <1>2, <1>3 DEF Effective

LEMMA EffectsSame == ASSUME SameBook, NEW n PROVE EffectsUpTo(n)' = EffectsUpTo(n)
<1>. DEFINE f == [k \in 1 .. n |-> IF k \in Runs THEN Effective(k) ELSE <<>>]
<1>1. f' = f
  BY RunsSame, EffectiveSame
<1>2. FlattenSeq(f)' = FlattenSeq(f)
  <2>. HIDE DEF f
  <2>. QED  BY <1>1
<1>. QED  BY <1>2 DEF EffectsUpTo

-----------------------------------------------------------------------------
(* One action.                                                              *)

(* The situation after a step that leaves the book alone. *)
LEMMA DoesThen ==
  ASSUME SameBook, NEW D,
         run'.won <=> Route(D) # 0,
         run'.out = Placed(D, run'.from),
         message \in Emails =>
           /\ run'.adds \ run'.drops = {t \in Values : TagIsOn(D, t)}
           /\ run'.says = Replies(D),
         message \notin Emails =>
           /\ tagged' = {t \in known : TagIsOn(D, t)} /\ scheduled' = Replies(D)
           /\ run'.adds = {} /\ run'.drops = {} /\ run'.says = <<>>
  PROVE  Does(D)'
<1>1. Route(D)' = Route(D) /\ Replies(D)' = Replies(D)
  BY RouteSame, RepliesSame
<1>2. \A f : Placed(D, f)' = Placed(D, f)
  BY PlacedSame
<1>3. \A t : TagIsOn(D, t)' <=> TagIsOn(D, t)
  BY TagSame
<1>4. known' = known /\ message' = message
  BY DEF SameBook
<1>5. (run.won <=> Route(D) # 0)'
  BY <1>1
<1>6. (run.out = Placed(D, run.from))'
  BY <1>2
<1>7. {t \in Values : TagIsOn(D, t)}' = {t \in Values : TagIsOn(D, t)}
  BY <1>3
<1>8. {t \in known : TagIsOn(D, t)}' = {t \in known : TagIsOn(D, t)}
  BY <1>3, <1>4
<1>. QED  BY <1>1, <1>4, <1>5, <1>6, <1>7, <1>8 DEF Does

LEMMA ContinueIs ==
  ASSUME NEW r \in Evaluations
  PROVE  /\ Continue(r) = IF r.acts # <<>> THEN [r EXCEPT !.at = "apply"]
                          ELSE [r EXCEPT !.at = "conditions", !.todo = IF Candidate[2] THEN {} ELSE Rest]
         /\ \A f \in {"acts", "won", "from", "out", "adds", "drops", "says", "calm"} : Continue(r)[f] = r[f]
         /\ r.acts # <<>> => Continue(r).at = "apply" /\ Continue(r).todo = r.todo
         /\ r.acts = <<>> => Continue(r).at = "conditions" /\ Continue(r).todo = IF Candidate[2] THEN {} ELSE Rest
BY DEF Continue, Evaluations

(* An action takes the evaluation on. *)
LEMMA ApplyContinues ==
  ASSUME RuleTypeOK, Apply, run.acts # <<>>
  PROVE  \E r \in Evaluations :
           LET e == run.acts[1]
               wins == Chooses(e) /\ ~run.won
               acts == IF Fails(e[1], e[2]) THEN <<>> ELSE Tail(run.acts)
           IN  /\ run' = Continue(r) /\ run \in Evaluations /\ e \in Effect /\ acts \in Seq(Effect)
               /\ r.acts = acts /\ r.from = run.from /\ r.calm = run.calm /\ r.todo = run.todo
               /\ r.won = (run.won \/ wins)
               /\ r.out = [inbox |-> IF wins /\ e[1] = "move_inbox" THEN e[2] ELSE run.out.inbox,
                           assignee |-> IF wins /\ e[1] = "assign_user" THEN e[2] ELSE run.out.assignee,
                           status |-> IF Restates(e[1], e[2]) THEN StatusOf[e[2]] ELSE run.out.status]
               /\ r.adds = IF message \in Emails /\ e[1] = "add_tag" THEN run.adds \cup {e[2]} ELSE run.adds
               /\ r.drops = IF message \in Emails /\ e[1] = "remove_tag" THEN run.drops \cup {e[2]}
                            ELSE IF e[1] = "add_tag" THEN run.drops \ {e[2]} ELSE run.drops
               /\ r.says = IF message \in Emails THEN run.says \o Says(e[1], e[2]) ELSE run.says
<1>. DEFINE e == run.acts[1]
            type == e[1]
            x == e[2]
            wins == type \in Routing /\ Wins /\ Applies(type, x)
            out == run.out
            acts == IF Fails(type, x) THEN <<>> ELSE Tail(run.acts)
            says == IF message \in Emails THEN run.says \o Says(type, x) ELSE run.says
            place == [inbox |-> IF wins /\ type = "move_inbox" THEN x ELSE out.inbox,
                      assignee |-> IF wins /\ type = "assign_user" THEN x ELSE out.assignee,
                      status |-> IF Restates(type, x) THEN StatusOf[x] ELSE out.status]
            adds == IF message \in Emails /\ type = "add_tag" THEN run.adds \cup {x} ELSE run.adds
            drops == IF message \in Emails /\ type = "remove_tag" THEN run.drops \cup {x}
                     ELSE IF type = "add_tag" THEN run.drops \ {x} ELSE run.drops
            r == [run EXCEPT !.acts = acts, !.won = @ \/ wins, !.out = place,
                             !.adds = adds, !.drops = drops, !.says = says]
<1>1. run \in Evaluations /\ run.acts \in Seq(Effect) /\ run.at = "apply"
  BY DEF RuleTypeOK, Evaluations, Apply, Unread, Effect
<1>2. e \in Effect /\ Tail(run.acts) \in Seq(Effect) /\ x \in Values
  BY <1>1, HeadTailProperties DEF Effect
<1>3. acts \in Seq(Effect)
  BY <1>2
<1>4. wins \in BOOLEAN /\ (wins <=> Chooses(e) /\ ~run.won)
  BY DEF Chooses, Wins
<1>5. run' = Continue(r)
  BY DEF Apply
<1>6. place \in Situations
  <2>1. out \in Situations
    BY <1>1 DEF Evaluations
  <2>2. type = "move_inbox" /\ wins => x \in Destinations
    BY DEF Applies
  <2>3. type = "assign_user" /\ wins => x \in Agents
    BY DEF Applies, RuleTypeOK
  <2>4. Restates(type, x) => StatusOf[x] \in {"open", "archived"}
    BY DEF Restates, StatusOf
  <2>. HIDE DEF wins, x, type, out
  <2>. QED  BY <2>1, <2>2, <2>3, <2>4 DEF Situations
<1>7. says \in Seq(Texts)
  <2>1. run.says \in Seq(Texts)
    BY <1>1 DEF Evaluations
  <2>. QED  BY <2>1, SaysIs, ConcatProperties
<1>8. adds \in SUBSET Values /\ drops \in SUBSET Values
  <2>1. run.adds \in SUBSET Values /\ run.drops \in SUBSET Values
    BY <1>1 DEF Evaluations
  <2>. QED  BY <1>2, <2>1
<1>. HIDE DEF acts, wins, says, place, adds, drops
<1>9. r \in Evaluations
  BY <1>1, <1>3, <1>4, <1>6, <1>7, <1>8 DEF Evaluations, Effect
<1>10. /\ r.acts = acts /\ r.won = (run.won \/ wins) /\ r.out = place /\ r.adds = adds /\ r.drops = drops
       /\ r.says = says /\ r.from = run.from /\ r.calm = run.calm /\ r.todo = run.todo
  BY <1>1 DEF Evaluations
<1>. HIDE DEF r
<1>11. r.won = (run.won \/ (Chooses(e) /\ ~run.won))
  BY <1>4, <1>10
<1>12. r.out = [inbox |-> IF Chooses(e) /\ ~run.won /\ e[1] = "move_inbox" THEN e[2] ELSE run.out.inbox,
               assignee |-> IF Chooses(e) /\ ~run.won /\ e[1] = "assign_user" THEN e[2] ELSE run.out.assignee,
               status |-> IF Restates(e[1], e[2]) THEN StatusOf[e[2]] ELSE run.out.status]
  BY <1>4, <1>10 DEF place
<1>. QED  BY <1>1, <1>2, <1>3, <1>5, <1>9, <1>10, <1>11, <1>12 DEF adds, drops, says, acts

(* The evaluation after an action. *)
LEMMA ApplyIs ==
  ASSUME RuleTypeOK, Apply, run.acts # <<>>
  PROVE  LET e == run.acts[1]
             wins == Chooses(e) /\ ~run.won
             acts == IF Fails(e[1], e[2]) THEN <<>> ELSE Tail(run.acts)
         IN  /\ e \in Effect /\ SameBook /\ run \in Evaluations /\ acts \in Seq(Effect)
             /\ run'.acts = acts /\ run'.from = run.from /\ run'.calm = run.calm
             /\ run'.won = (run.won \/ wins)
             /\ run'.out = [inbox |-> IF wins /\ e[1] = "move_inbox" THEN e[2] ELSE run.out.inbox,
                            assignee |-> IF wins /\ e[1] = "assign_user" THEN e[2] ELSE run.out.assignee,
                            status |-> IF Restates(e[1], e[2]) THEN StatusOf[e[2]] ELSE run.out.status]
             /\ run'.adds = IF message \in Emails /\ e[1] = "add_tag" THEN run.adds \cup {e[2]} ELSE run.adds
             /\ run'.drops = IF message \in Emails /\ e[1] = "remove_tag" THEN run.drops \cup {e[2]}
                             ELSE IF e[1] = "add_tag" THEN run.drops \ {e[2]} ELSE run.drops
             /\ run'.says = IF message \in Emails THEN run.says \o Says(e[1], e[2]) ELSE run.says
             /\ acts # <<>> => run'.at = "apply" /\ run'.todo = run.todo
             /\ acts = <<>> => run'.at = "conditions" /\ run'.todo = IF Candidate[2] THEN {} ELSE Rest
<1>1. PICK r \in Evaluations :
        LET e == run.acts[1]
            wins == Chooses(e) /\ ~run.won
            acts == IF Fails(e[1], e[2]) THEN <<>> ELSE Tail(run.acts)
        IN  /\ run' = Continue(r) /\ run \in Evaluations /\ e \in Effect /\ acts \in Seq(Effect)
            /\ r.acts = acts /\ r.from = run.from /\ r.calm = run.calm /\ r.todo = run.todo
            /\ r.won = (run.won \/ wins)
            /\ r.out = [inbox |-> IF wins /\ e[1] = "move_inbox" THEN e[2] ELSE run.out.inbox,
                        assignee |-> IF wins /\ e[1] = "assign_user" THEN e[2] ELSE run.out.assignee,
                        status |-> IF Restates(e[1], e[2]) THEN StatusOf[e[2]] ELSE run.out.status]
            /\ r.adds = IF message \in Emails /\ e[1] = "add_tag" THEN run.adds \cup {e[2]} ELSE run.adds
            /\ r.drops = IF message \in Emails /\ e[1] = "remove_tag" THEN run.drops \cup {e[2]}
                         ELSE IF e[1] = "add_tag" THEN run.drops \ {e[2]} ELSE run.drops
            /\ r.says = IF message \in Emails THEN run.says \o Says(e[1], e[2]) ELSE run.says
  BY ApplyContinues
<1>2. /\ \A f \in {"acts", "won", "from", "out", "adds", "drops", "says", "calm"} : run'[f] = r[f]
      /\ r.acts # <<>> => run'.at = "apply" /\ run'.todo = r.todo
      /\ r.acts = <<>> => run'.at = "conditions" /\ run'.todo = IF Candidate[2] THEN {} ELSE Rest
  BY <1>1, ContinueIs
<1>3. SameBook
  BY DEF Apply, SameBook, configuration, workspace
<1>. QED  BY <1>1, <1>2, <1>3

(* An action that does not fail adds its effect. *)
LEMMA AppliedAction ==
  ASSUME RuleTypeOK, Apply, run.acts # <<>>, ~Fails(run.acts[1][1], run.acts[1][2]),
         NEW D \in Seq(Effect), Does(D), NEW e, e = run.acts[1]
  PROVE  Does(Append(D, e))'
<1>. DEFINE E == Append(D, e)
            wins == Chooses(e) /\ ~run.won
<1>1. e \in Effect /\ SameBook /\ run \in Evaluations /\ e[2] \in Values
  BY ApplyIs DEF Effect
<1>2. run.won <=> Route(D) # 0
  BY DEF Does
<1>3. run'.won <=> Route(E) # 0
  <2>1. run'.won = (run.won \/ wins)
    BY ApplyIs
  <2>2. /\ Route(D) # 0 => Route(E) = Route(D)
        /\ Route(D) = 0 /\ Chooses(e) => Route(E) # 0
        /\ Route(D) = 0 /\ ~Chooses(e) => Route(E) = 0
    BY <1>1, RouteIs
  <2>. HIDE DEF E
  <2>. QED  BY <1>2, <2>1, <2>2
<1>4. run'.out = Placed(E, run'.from)
  <2>1. run'.from = run.from /\ run.out = Placed(D, run.from)
    BY ApplyIs DEF Does
  <2>2. run'.out = [inbox |-> IF wins /\ e[1] = "move_inbox" THEN e[2] ELSE run.out.inbox,
                    assignee |-> IF wins /\ e[1] = "assign_user" THEN e[2] ELSE run.out.assignee,
                    status |-> IF Restates(e[1], e[2]) THEN StatusOf[e[2]] ELSE run.out.status]
    BY ApplyIs
  <2>3. Placed(E, run.from) =
          [inbox |-> IF Route(D) = 0 /\ Chooses(e) /\ e[1] = "move_inbox" THEN e[2] ELSE Placed(D, run.from).inbox,
           assignee |-> IF Route(D) = 0 /\ Chooses(e) /\ e[1] = "assign_user" THEN e[2] ELSE Placed(D, run.from).assignee,
           status |-> IF Restates(e[1], e[2]) THEN StatusOf[e[2]] ELSE Placed(D, run.from).status]
    BY <1>1, PlacedIs
  <2>. HIDE DEF E
  <2>. QED  BY <1>2, <2>1, <2>2, <2>3
<1>5. \A t : TagIsOn(E, t) <=> IF Concerns(e, t) THEN e[1] = "add_tag" ELSE TagIsOn(D, t)
  BY <1>1, TagIs
<1>6. Replies(E) = Replies(D) \o Says(e[1], e[2])
  BY <1>1, RepliesAre
<1>7. ASSUME message \in Emails
      PROVE  /\ run'.adds \ run'.drops = {t \in Values : TagIsOn(E, t)}
             /\ run'.says = Replies(E)
  <2>1. run.adds \ run.drops = {t \in Values : TagIsOn(D, t)} /\ run.says = Replies(D)
    BY <1>7 DEF Does
  <2>2. /\ run'.adds = IF e[1] = "add_tag" THEN run.adds \cup {e[2]} ELSE run.adds
        /\ run'.drops = IF e[1] = "remove_tag" THEN run.drops \cup {e[2]}
                        ELSE IF e[1] = "add_tag" THEN run.drops \ {e[2]} ELSE run.drops
        /\ run'.says = run.says \o Says(e[1], e[2])
    BY <1>7, ApplyIs
  <2>. HIDE DEF E
  <2>3. ASSUME NEW t
        PROVE  t \in run'.adds \ run'.drops <=> t \in Values /\ TagIsOn(E, t)
    BY <1>1, <1>5, <2>1, <2>2 DEF Concerns
  <2>. QED  BY <1>6, <2>1, <2>2, <2>3
<1>8. ASSUME message \notin Emails
      PROVE  /\ tagged' = {t \in known : TagIsOn(E, t)} /\ scheduled' = Replies(E)
             /\ run'.adds = {} /\ run'.drops = {} /\ run'.says = <<>>
  <2>1. /\ tagged = {t \in known : TagIsOn(D, t)} /\ scheduled = Replies(D)
        /\ run.adds = {} /\ run.drops = {} /\ run.says = <<>>
    BY <1>8 DEF Does
  <2>2. run'.adds = {} /\ run'.drops = {} /\ run'.says = <<>>
    BY <1>8, <2>1, ApplyIs
  <2>3. /\ scheduled' = scheduled \o Says(e[1], e[2])
        /\ tagged' = IF e[1] = "add_tag" THEN tagged \cup ({e[2]} \cap known)
                     ELSE IF e[1] = "remove_tag" THEN tagged \ {e[2]} ELSE tagged
    BY <1>8 DEF Apply
  <2>. HIDE DEF E
  <2>4. ASSUME NEW t
        PROVE  t \in tagged' <=> t \in known /\ TagIsOn(E, t)
    BY <1>5, <2>1, <2>3 DEF Concerns
  <2>. QED  BY <1>6, <2>1, <2>2, <2>3, <2>4
<1>. HIDE DEF E
<1>9. Does(E)'
  BY <1>1, <1>3, <1>4, <1>7, <1>8, DoesThen
<1>. QED  BY <1>9 DEF E

(* One that fails has no effect. *)
LEMMA FailedAction ==
  ASSUME RuleTypeOK, Apply, run.acts # <<>>, Fails(run.acts[1][1], run.acts[1][2]),
         NEW D \in Seq(Effect), Does(D)
  PROVE  Does(D)'
<1>. DEFINE e == run.acts[1]
<1>1. /\ SameBook /\ run \in Evaluations
      /\ run'.won = (run.won \/ (Chooses(e) /\ ~run.won)) /\ run'.from = run.from
      /\ run'.adds = IF message \in Emails /\ e[1] = "add_tag" THEN run.adds \cup {e[2]} ELSE run.adds
      /\ run'.drops = IF message \in Emails /\ e[1] = "remove_tag" THEN run.drops \cup {e[2]}
                      ELSE IF e[1] = "add_tag" THEN run.drops \ {e[2]} ELSE run.drops
      /\ run'.says = IF message \in Emails THEN run.says \o Says(e[1], e[2]) ELSE run.says
      /\ run'.out = [inbox |-> IF Chooses(e) /\ ~run.won /\ e[1] = "move_inbox" THEN e[2] ELSE run.out.inbox,
                     assignee |-> IF Chooses(e) /\ ~run.won /\ e[1] = "assign_user" THEN e[2] ELSE run.out.assignee,
                     status |-> IF Restates(e[1], e[2]) THEN StatusOf[e[2]] ELSE run.out.status]
  BY ApplyIs
<1>2. e[1] = "add_tag" /\ e[2] \notin known /\ message \notin Emails
  BY DEF Fails
<1>3. ~Chooses(e) /\ ~Restates(e[1], e[2]) /\ Says(e[1], e[2]) = <<>>
  BY <1>2 DEF Chooses, Routing, Restates, Says
<1>4. /\ scheduled' = scheduled \o Says(e[1], e[2])
      /\ tagged' = tagged \cup ({e[2]} \cap known)
  BY <1>2 DEF Apply
<1>5. /\ run.won <=> Route(D) # 0
      /\ run.out = Placed(D, run.from)
      /\ tagged = {t \in known : TagIsOn(D, t)} /\ scheduled = Replies(D)
      /\ run.adds = {} /\ run.drops = {} /\ run.says = <<>>
  BY <1>2 DEF Does
<1>. HIDE DEF e
<1>6. run'.out = run.out
  <2>1. run.out \in Situations
    BY <1>1 DEF Evaluations
  <2>. QED  BY <1>1, <1>3, <2>1 DEF Situations
<1>7. tagged' = tagged /\ scheduled' = scheduled
  <2>1. scheduled \in Seq(Texts)
    BY DEF RuleTypeOK
  <2>. QED  BY <1>2, <1>3, <1>4, <2>1, ConcatEmptySeq
<1>8. run'.won <=> Route(D) # 0
  BY <1>1, <1>3, <1>5
<1>9. run'.out = Placed(D, run'.from)
  BY <1>1, <1>5, <1>6
<1>10. /\ tagged' = {t \in known : TagIsOn(D, t)} /\ scheduled' = Replies(D)
       /\ run'.adds = {} /\ run'.drops = {} /\ run'.says = <<>>
  BY <1>1, <1>2, <1>5, <1>7
<1>. QED  BY <1>1, <1>2, <1>8, <1>9, <1>10, DoesThen

-----------------------------------------------------------------------------
(* One rule.                                                                *)

LEMMA RunsIn ==
  ASSUME NEW c \in Book
  PROVE  /\ c \in Runs => c \in Matching /\ rule[c].on /\ ~Stopped(c)
         /\ c \in Matching /\ ~Stopped(c) => c \in Runs
         /\ Stopped(c + 1) <=> Stopped(c) \/ (c \in Matching /\ rule[c].stop)
<1>1. Book \subseteq Nat /\ c \in Nat /\ Matching \subseteq Book
  BY RuleAssumption DEF Book, Matching
<1>2. c \in Runs => c \in Matching /\ rule[c].on /\ ~Stopped(c)
  BY DEF Runs, Matching, Stopped
<1>3. c \in Matching /\ ~Stopped(c) => c \in Runs
  BY DEF Runs, Stopped
<1>4. ASSUME NEW i \in Matching PROVE i < c + 1 <=> i < c \/ i = c
  BY <1>1
<1>5. Stopped(c + 1) <=> Stopped(c) \/ (c \in Matching /\ rule[c].stop)
  BY <1>1, <1>4 DEF Stopped
<1>. QED  BY <1>2, <1>3, <1>5

(* Between rule j and the next candidate no rule runs. *)
LEMMA NextCandidate ==
  ASSUME RuleTypeOK, NEW j \in 1 .. Size + 1, InFront(j), run.todo # {}
  PROVE  \E c \in Book :
           /\ rule[c].on /\ Candidate = <<c, rule[c].stop>>
           /\ run.todo = Onwards(c) /\ Rest = Onwards(c + 1)
           /\ ~Stopped(c) /\ Does(EffectsUpTo(c-1))
<1>1. ~Stopped(j) /\ run.todo = Onwards(j) /\ j \in Nat /\ j - 1 \in 0 .. Size /\ Size \in Nat
  BY RuleAssumption DEF InFront
<1>2. PICK c \in Book : /\ j <= c /\ rule[c].on
                        /\ Candidate = <<c, rule[c].stop>>
                        /\ run.todo = Onwards(c) /\ Rest = Onwards(c + 1)
                        /\ \A k \in Book : j <= k /\ k < c => ~rule[k].on
  BY <1>1, CandidateIs
<1>3. c \in Nat /\ c - 1 \in 0 .. Size /\ j - 1 <= c - 1 /\ Book \subseteq Nat
  BY <1>1, <1>2 DEF Book
<1>4. \A k \in Book : j <= k /\ k < c => k \notin Matching
  BY <1>2 DEF Matching
<1>5. ~Stopped(c)
  <2>1. ASSUME NEW i \in Matching, i < c, rule[i].stop PROVE FALSE
    <3>1. i \in Book /\ i \in Nat
      BY <1>3, <2>1 DEF Matching
    <3>2. ~(j <= i)
      BY <1>4, <2>1, <3>1
    <3>. QED  BY <1>1, <2>1, <3>1, <3>2 DEF Stopped
  <2>. QED  BY <2>1 DEF Stopped
<1>6. EffectsUpTo(c-1) = EffectsUpTo(j-1)
  <2>1. ASSUME NEW k \in Book, j - 1 < k, k <= c - 1 PROVE k \notin Runs
    <3>1. j <= k /\ k < c
      BY <1>1, <1>3, <2>1
    <3>. QED  BY <1>4, <3>1 DEF Runs
  <2>. DEFINE a == j - 1
              b == c - 1
  <2>2. a \in 0 .. Size /\ b \in 0 .. Size /\ a <= b /\ \A k \in Book : a < k /\ k <= b => k \notin Runs
    BY <1>1, <1>3, <2>1
  <2>. HIDE DEF a, b
  <2>3. EffectsUpTo(b) = EffectsUpTo(a)
    BY <2>2, EffectsSkip
  <2>. QED  BY <2>3 DEF a, b
<1>7. Does(EffectsUpTo(c-1))
  BY <1>6 DEF InFront
<1>. QED  BY <1>2, <1>5, <1>7

(* After the last action that a rule applies, the effects are those up to
   the rule, and what is left is in front of the next. *)
LEMMA AfterRule ==
  ASSUME RuleTypeOK, SameBook, NEW c \in Book, NEW n \in 0 .. Len(rule[c].acts),
         c \in Runs, Unfailing(c, n),
         n < Len(rule[c].acts) => Fails(rule[c].acts[n+1][1], rule[c].acts[n+1][2]),
         Does(Behind(c, n))',
         run'.todo = IF rule[c].stop THEN {} ELSE Onwards(c + 1)
  PROVE  \E j \in 1 .. Size + 1 : InFront(j)'
<1>1. c + 1 \in 1 .. Size + 1 /\ (c + 1) - 1 = c /\ c \in Nat
  BY RuleAssumption DEF Book
<1>2. Stopped(c + 1) <=> rule[c].stop
  BY RunsIn
<1>3. EffectsUpTo(c) = Behind(c, n)
  <2>1. Share(c) = SubSeq(rule[c].acts, 1, n)
    BY EffectiveIs DEF Share
  <2>. QED  BY <2>1, EffectsNext DEF Behind
<1>4. Does(EffectsUpTo(c))'
  <2>1. EffectsUpTo(c)' = EffectsUpTo(c) /\ Behind(c, n)' = EffectsUpTo(c)
    <3>1. EffectsUpTo(c-1)' = EffectsUpTo(c-1) /\ EffectsUpTo(c)' = EffectsUpTo(c)
      BY EffectsSame
    <3>2. rule' = rule
      BY DEF SameBook
    <3>. QED  BY <1>3, <3>1, <3>2 DEF Behind
  <2>. QED  BY <2>1 DEF Does
<1>5. run'.todo = IF Stopped(c + 1)' THEN {} ELSE Onwards(c + 1)'
  BY <1>2, RunsSame
<1>6. InFront(c + 1)'
  BY <1>1, <1>4, <1>5 DEF InFront
<1>. QED  BY <1>1, <1>6

-----------------------------------------------------------------------------
(* The evaluation, step by step.                                            *)

(* Does, of effects that are the same after the step. *)
LEMMA DoesSame ==
  ASSUME SameBook, NEW D, Does(D),
         run'.won = run.won, run'.out = run.out, run'.from = run.from,
         run'.adds = run.adds, run'.drops = run.drops, run'.says = run.says,
         tagged' = tagged, scheduled' = scheduled
  PROVE  Does(D)'
BY DoesThen DEF Does

LEMMA EvaluationIs ==
  ASSUME RuleTypeOK, run.at # "idle"
  PROVE  run \in Evaluations
BY DEF RuleTypeOK, Unread

LEMMA BeginStep ==
  ASSUME RuleInv, Begin
  PROVE  (run.calm => Reads)' /\ Unwritten'
<1>. DEFINE from == IF message \in Emails THEN routed ELSE Fresh
<1>1. run = Unread /\ tagged = {} /\ scheduled = <<>>
  BY DEF RuleInv, Unwritten, Begin, Unread
<1>2. SameBook /\ tagged' = {} /\ scheduled' = <<>> /\ message' = message
  BY <1>1 DEF Begin, SameBook, configuration, workspace, conversation
<1>3. from \in Situations
  BY RuleAssumption DEF RuleInv, RuleTypeOK, Fresh, Situations
<1>4. /\ run'.at = "conditions" /\ run'.won = FALSE /\ run'.from = from /\ run'.out = from
      /\ run'.adds = {} /\ run'.drops = {} /\ run'.says = <<>>
      /\ run'.todo = {<<k, rule[k].stop>> : k \in {i \in Book : rule[i].on}}
  BY <1>1 DEF Begin, Unread
<1>. HIDE DEF from
<1>5. Does(<<>>)'
  <2>1. run'.won <=> Route(<<>>) # 0
    BY <1>4, NoEffects
  <2>2. run'.out = Placed(<<>>, run'.from)
    BY <1>3, <1>4, NoEffects
  <2>3. \A t : ~TagIsOn(<<>>, t)
    BY NoEffects
  <2>4. Replies(<<>>) = <<>>
    BY NoEffects
  <2>. QED  BY <1>2, <1>4, <2>1, <2>2, <2>3, <2>4, DoesThen
<1>6. Does(EffectsUpTo(0))'
  <2>1. EffectsUpTo(0) = <<>> /\ EffectsUpTo(0)' = EffectsUpTo(0)
    BY <1>2, EffectsNone, EffectsSame
  <2>. QED  BY <1>5, <2>1 DEF Does
<1>7. ~Stopped(1)
  BY RuleAssumption DEF Stopped, Matching, Book
<1>8. run'.todo = Onwards(1)
  BY <1>4 DEF Onwards, Book
<1>9. InFront(1)'
  <2>1. run'.todo = IF Stopped(1)' THEN {} ELSE Onwards(1)'
    BY <1>2, <1>7, <1>8, RunsSame
  <2>2. 1 - 1 = 0
    OBVIOUS
  <2>. QED  BY <1>6, <2>1, <2>2 DEF InFront
<1>10. Reads'
  <2>1. 1 \in 1 .. Size + 1
    BY RuleAssumption
  <2>. QED  BY <1>4, <1>9, <2>1 DEF Reads
<1>11. Unwritten'
  BY <1>2 DEF Unwritten
<1>. QED  BY <1>10, <1>11

LEMMA ReadConditionsStep ==
  ASSUME RuleInv, ReadConditions
  PROVE  (run.calm => Reads)' /\ Unwritten'
<1>1. SameBook /\ tagged' = tagged /\ scheduled' = scheduled /\ message' = message
  BY DEF ReadConditions, SameBook, configuration, workspace, conversation
<1>2. run \in Evaluations /\ run.at = "conditions" /\ run.todo # {} /\ RuleTypeOK
  BY EvaluationIs DEF RuleInv, ReadConditions
<1>. DEFINE holds == Matches(rule[Candidate[1]].conds, Facts[message])
<1>3. /\ holds => run' = [run EXCEPT !.at = "actions"]
      /\ ~holds => run' = [run EXCEPT !.todo = Rest]
  BY DEF ReadConditions
<1>. HIDE DEF holds
<1>4. /\ run'.won = run.won /\ run'.out = run.out /\ run'.from = run.from
      /\ run'.adds = run.adds /\ run'.drops = run.drops /\ run'.says = run.says /\ run'.calm = run.calm
      /\ holds => run'.at = "actions" /\ run'.todo = run.todo
      /\ ~holds => run'.at = "conditions" /\ run'.todo = Rest
  BY <1>2, <1>3 DEF Evaluations
<1>5. Unwritten'
  BY <1>1, <1>2, <1>4 DEF RuleInv, Unwritten
<1>6. ASSUME run.calm PROVE Reads'
  <2>1. PICK j \in 1 .. Size + 1 : InFront(j)
    BY <1>2, <1>6 DEF RuleInv, Reads
  <2>2. PICK c \in Book :
          /\ rule[c].on /\ Candidate = <<c, rule[c].stop>>
          /\ run.todo = Onwards(c) /\ Rest = Onwards(c + 1)
          /\ ~Stopped(c) /\ Does(EffectsUpTo(c-1))
    BY <1>2, <2>1, NextCandidate
  <2>. DEFINE D == EffectsUpTo(c-1)
  <2>3. Does(EffectsUpTo(c-1))' /\ EffectsUpTo(c-1)' = EffectsUpTo(c-1)
    <3>1. PICK X : X = EffectsUpTo(c-1)
      OBVIOUS
    <3>2. Does(X)'
      BY <1>1, <1>4, <2>2, <3>1, DoesSame
    <3>3. EffectsUpTo(c-1)' = X
      BY <1>1, <3>1, EffectsSame
    <3>. QED  BY <3>1, <3>2, <3>3 DEF Does
  <2>4. holds <=> c \in Matching
    BY <2>2 DEF holds, Matching
  <2>5. CASE holds
    <3>1. c \in Runs' /\ run'.todo = Onwards(c)'
      BY <1>1, <1>4, <2>2, <2>4, <2>5, RunsIn, RunsSame
    <3>2. AtActions(c)'
      BY <2>3, <3>1 DEF AtActions
    <3>. QED  BY <1>4, <2>5, <3>2 DEF Reads
  <2>6. CASE ~holds
    <3>1. c + 1 \in 1 .. Size + 1 /\ (c + 1) - 1 = c
      BY RuleAssumption DEF Book
    <3>2. ~Stopped(c + 1)
      BY <2>2, <2>4, <2>6, RunsIn
    <3>3. EffectsUpTo(c) = EffectsUpTo(c-1)
      <4>1. Share(c) = <<>>
        BY <2>4, <2>6, RunsIn DEF Share
      <4>. QED  BY <1>2, <4>1, EffectsNext, ConcatEmptySeq
    <3>4. Does(EffectsUpTo(c))'
      <4>1. EffectsUpTo(c)' = EffectsUpTo(c-1)'
        BY <1>1, <2>3, <3>3, EffectsSame
      <4>. QED  BY <2>3, <4>1 DEF Does
    <3>5. run'.todo = IF Stopped(c + 1)' THEN {} ELSE Onwards(c + 1)'
      BY <1>1, <1>4, <2>2, <2>6, <3>2, RunsSame
    <3>6. InFront(c + 1)'
      BY <3>1, <3>4, <3>5 DEF InFront
    <3>. QED  BY <1>4, <2>6, <3>1, <3>6 DEF Reads
  <2>. QED  BY <2>5, <2>6
<1>. QED  BY <1>4, <1>5, <1>6

LEMMA ReadActionsStep ==
  ASSUME RuleInv, ReadActions
  PROVE  (run.calm => Reads)' /\ Unwritten'
<1>. DEFINE r == [run EXCEPT !.acts = rule[Candidate[1]].acts]
<1>1. SameBook /\ tagged' = tagged /\ scheduled' = scheduled /\ message' = message
  BY DEF ReadActions, SameBook, configuration, workspace, conversation
<1>2. run \in Evaluations /\ run.at = "actions" /\ RuleTypeOK
  BY EvaluationIs DEF RuleInv, ReadActions
<1>3. Candidate \in Book \X BOOLEAN => r \in Evaluations
  <2>1. \A k \in Book : rule[k].acts \in Seq(Effect)
    BY <1>2, RowIs
  <2>. QED  BY <1>2, <2>1 DEF Evaluations, Effect
<1>4. run' = Continue(r)
  BY DEF ReadActions
<1>5. run'.at \in {"apply", "conditions"} /\ run'.calm = run.calm
  BY <1>2, <1>4 DEF Continue, Evaluations
<1>6. Unwritten'
  BY <1>1, <1>2, <1>5 DEF RuleInv, Unwritten
<1>7. ASSUME run.calm PROVE Reads'
  <2>1. PICK c \in Book : AtActions(c)
    BY <1>2, <1>7 DEF RuleInv, Reads
  <2>2. c \in Runs /\ Does(EffectsUpTo(c-1)) /\ run.todo = Onwards(c) /\ rule[c].on
    BY <2>1, RunsIn DEF AtActions
  <2>3. Candidate = <<c, rule[c].stop>> /\ Rest = Onwards(c + 1)
    BY <2>2, CandidateRuns
  <2>4. rule[c].acts \in Seq(Effect) /\ rule[c].stop \in BOOLEAN /\ Len(rule[c].acts) \in Nat
    BY <1>2, RowIs
  <2>5. r \in Evaluations
    BY <1>3, <2>3, <2>4
  <2>6. /\ r.acts = rule[c].acts /\ r.won = run.won /\ r.out = run.out /\ r.from = run.from
        /\ r.adds = run.adds /\ r.drops = run.drops /\ r.says = run.says /\ r.todo = run.todo
    BY <1>2, <2>3 DEF Evaluations
  <2>. HIDE DEF r
  <2>7. /\ run'.acts = rule[c].acts /\ run'.won = run.won /\ run'.out = run.out /\ run'.from = run.from
        /\ run'.adds = run.adds /\ run'.drops = run.drops /\ run'.says = run.says
        /\ rule[c].acts # <<>> => run'.at = "apply" /\ run'.todo = Onwards(c)
        /\ rule[c].acts = <<>> => run'.at = "conditions" /\ run'.todo = IF rule[c].stop THEN {} ELSE Onwards(c + 1)
    BY <1>4, <2>2, <2>3, <2>5, <2>6, ContinueIs
  <2>8. EffectsUpTo(c-1) \in Seq(Effect)
    BY <1>2, EffectsNext
  <2>9. Behind(c, 0) = EffectsUpTo(c-1) /\ Unfailing(c, 0)
    <3>1. SubSeq(rule[c].acts, 1, 0) = <<>>
      BY SubSeqEmpty
    <3>. QED  BY <2>8, <3>1, ConcatEmptySeq DEF Behind, Unfailing
  <2>10. Does(Behind(c, 0))'
    <3>1. PICK X : X = EffectsUpTo(c-1)
      OBVIOUS
    <3>2. Does(X)'
      BY <1>1, <2>2, <2>7, <3>1, DoesSame
    <3>3. Behind(c, 0)' = X
      <4>1. EffectsUpTo(c-1)' = X /\ rule' = rule
        BY <1>1, <3>1, EffectsSame DEF SameBook
      <4>. QED  BY <2>9, <3>1, <4>1 DEF Behind
    <3>. QED  BY <3>2, <3>3 DEF Does
  <2>11. CASE rule[c].acts # <<>>
    <3>1. 0 < Len(rule[c].acts)
      BY <2>4, <2>11, EmptySeq
    <3>2. run'.acts = SubSeq(rule[c].acts, 0 + 1, Len(rule[c].acts))
      BY <2>4, <2>7, SubSeqFull
    <3>3. c \in Runs' /\ run'.todo = Onwards(c)' /\ rule' = rule
      BY <1>1, <2>2, <2>7, <2>11, RunsSame DEF SameBook
    <3>4. Unfailing(c, 0)'
      BY DEF Unfailing
    <3>5. Within(c, 0)'
      BY <2>10, <3>1, <3>2, <3>3, <3>4 DEF Within
    <3>6. 0 \in 0 .. Len(rule'[c].acts)
      BY <2>4, <3>3
    <3>. QED  BY <2>7, <2>11, <3>5, <3>6 DEF Reads
  <2>12. CASE rule[c].acts = <<>>
    <3>1. Len(rule[c].acts) = 0
      BY <2>12
    <3>2. \E j \in 1 .. Size + 1 : InFront(j)'
      BY <1>1, <1>2, <2>2, <2>4, <2>7, <2>9, <2>10, <2>12, <3>1, AfterRule
    <3>. QED  BY <2>7, <2>12, <3>2 DEF Reads
  <2>. QED  BY <2>11, <2>12
<1>. QED  BY <1>5, <1>6, <1>7

(* The actions that are left after the first n. *)
LEMMA ActionsLeft ==
  ASSUME NEW a \in Seq(Effect), NEW n \in Nat, n < Len(a)
  PROVE  LET s == SubSeq(a, n + 1, Len(a))
         IN  /\ s[1] = a[n+1] /\ a[n+1] \in Effect
             /\ Tail(s) = SubSeq(a, n + 1 + 1, Len(a))
             /\ n + 1 = Len(a) => Tail(s) = <<>>
             /\ n + 1 # Len(a) => Tail(s) # <<>>
             /\ SubSeq(a, 1, n + 1) = Append(SubSeq(a, 1, n), a[n+1])
             /\ SubSeq(a, 1, n) \in Seq(Effect)
<1>. DEFINE l == Len(a)
            m == n + 1
            s == SubSeq(a, m, l)
<1>1. l \in Nat /\ m \in 1 .. l /\ l \in m .. l /\ m - 1 = n /\ \A i \in 1 .. l : a[i] \in Effect
  BY ElementOfSeq
<1>. HIDE DEF l, m
<1>2. Head(s) = a[m] /\ Tail(s) = SubSeq(a, m + 1, l)
  BY <1>1, HeadTailOfSubSeq DEF l
<1>3. s \in Seq(Effect) /\ Len(s) = l - m + 1
  <2>1. \A i \in m .. l : a[i] \in Effect
    BY <1>1
  <2>. QED  BY <1>1, <2>1, SubSeqProperties
<1>5. m = l => Tail(s) = <<>>
  <2>1. m = l => SubSeq(a, m + 1, l) = <<>>
    BY <1>1, SubSeqEmpty
  <2>. QED  BY <1>2, <2>1
<1>. DEFINE p == SubSeq(a, 1, n)
<1>7. p \in Seq(Effect)
  <2>1. \A i \in 1 .. n : a[i] \in Effect
    BY <1>1
  <2>. QED  BY <2>1, SubSeqProperties
<1>8. SubSeq(a, 1, m) = Append(p, a[m])
  <2>1. 1 \in 1 .. l
    BY <1>1
  <2>2. SubSeq(a, 1, m) = SubSeq(a, 1, m - 1) \o <<a[m]>>
    BY <1>1, <2>1, SubSeqRecursiveSecond DEF l
  <2>3. p \o <<a[m]>> = Append(p, a[m])
    BY <1>1, <1>7, AppendIsConcat
  <2>. QED  BY <1>1, <2>2, <2>3
<1>. HIDE DEF s, p
<1>4. s # <<>> /\ Head(s) = s[1]
  <2>1. Len(s) # 0
    BY <1>1, <1>3
  <2>. QED  BY <1>3, <2>1, EmptySeq
<1>6. m # l => Tail(s) # <<>>
  <2>1. Len(Tail(s)) = Len(s) - 1
    BY <1>3, <1>4, HeadTailProperties
  <2>2. m # l => Len(s) - 1 # 0
    BY <1>1, <1>3
  <2>3. m # l => Len(Tail(s)) # 0
    BY <2>1, <2>2
  <2>. QED  BY <2>3, EmptySeq
<1>9. s[1] = a[m] /\ a[m] \in Effect
  BY <1>1, <1>2, <1>4
<1>. QED  BY <1>2, <1>5, <1>6, <1>7, <1>8, <1>9 DEF s, m, l, p

LEMMA ApplyStep ==
  ASSUME RuleInv, Apply
  PROVE  (run.calm => Reads)' /\ Unwritten'
<1>. DEFINE e == run.acts[1]
            acts == IF Fails(e[1], e[2]) THEN <<>> ELSE Tail(run.acts)
<1>1. run.at = "apply" /\ run.acts # <<>> /\ RuleTypeOK
  BY DEF RuleInv, Underway, Apply
<1>2. /\ SameBook /\ run \in Evaluations /\ run'.calm = run.calm /\ run'.acts = acts
      /\ acts # <<>> => run'.at = "apply" /\ run'.todo = run.todo
      /\ acts = <<>> => run'.at = "conditions" /\ run'.todo = IF Candidate[2] THEN {} ELSE Rest
  BY <1>1, ApplyIs
<1>3. run'.at \in {"apply", "conditions"}
  <2>. HIDE DEF acts
  <2>. QED  BY <1>2
<1>4. Unwritten'
  <2>1. message' = message /\ (message \in Emails => tagged' = tagged /\ scheduled' = scheduled)
    BY DEF Apply
  <2>. QED  BY <1>1, <1>3, <2>1 DEF RuleInv, Unwritten
<1>5. ASSUME run.calm PROVE Reads'
  <2>0. PICK c \in Book : \E n \in 0 .. Len(rule[c].acts) : Within(c, n)
    BY <1>1, <1>5 DEF RuleInv, Reads
  <2>1. PICK n \in 0 .. Len(rule[c].acts) : Within(c, n)
    BY <2>0
  <2>2. PICK a : a = rule[c].acts
    OBVIOUS
  <2>3. a \in Seq(Effect) /\ Len(a) \in Nat /\ rule[c].on
    BY <1>1, <2>1, <2>2, RowIs, RunsIn DEF Within
  <2>4. /\ c \in Runs /\ n < Len(a) /\ n \in Nat /\ Unfailing(c, n) /\ run.acts = SubSeq(a, n + 1, Len(a))
        /\ run.todo = Onwards(c) /\ Does(Behind(c, n))
    BY <2>1, <2>2, <2>3 DEF Within
  <2>5. /\ run.acts[1] = a[n+1] /\ a[n+1] \in Effect
        /\ Tail(run.acts) = SubSeq(a, n + 1 + 1, Len(a))
        /\ n + 1 = Len(a) => Tail(run.acts) = <<>>
        /\ n + 1 # Len(a) => Tail(run.acts) # <<>>
        /\ SubSeq(a, 1, n + 1) = Append(SubSeq(a, 1, n), a[n+1])
        /\ SubSeq(a, 1, n) \in Seq(Effect)
    <3>. DEFINE s == SubSeq(a, n + 1, Len(a))
    <3>1. /\ s[1] = a[n+1] /\ a[n+1] \in Effect
          /\ Tail(s) = SubSeq(a, n + 1 + 1, Len(a))
          /\ n + 1 = Len(a) => Tail(s) = <<>>
          /\ n + 1 # Len(a) => Tail(s) # <<>>
          /\ SubSeq(a, 1, n + 1) = Append(SubSeq(a, 1, n), a[n+1])
          /\ SubSeq(a, 1, n) \in Seq(Effect)
      <4>1. a \in Seq(Effect) /\ n \in Nat /\ n < Len(a)
        BY <2>3, <2>4
      <4>. QED  BY <4>1, ActionsLeft
    <3>2. s = run.acts
      BY <2>4
    <3>. HIDE DEF s
    <3>. QED  BY <3>1, <3>2
  <2>6. PICK x : x = a[n+1]
    OBVIOUS
  <2>7. Candidate = <<c, rule[c].stop>> /\ Rest = Onwards(c + 1)
    BY <2>3, <2>4, CandidateRuns
  <2>8. EffectsUpTo(c-1) \in Seq(Effect)
    BY <1>1, EffectsNext
  <2>9. PICK U : U = EffectsUpTo(c-1)
    OBVIOUS
  <2>10. PICK D : D = Behind(c, n)
    OBVIOUS
  <2>11. D = U \o SubSeq(a, 1, n) /\ D \in Seq(Effect) /\ U \in Seq(Effect)
    BY <2>2, <2>5, <2>8, <2>9, <2>10, ConcatProperties DEF Behind
  <2>12. rule' = rule /\ EffectsUpTo(c-1)' = U /\ c \in Runs' /\ Onwards(c)' = Onwards(c)
    BY <1>2, <2>4, <2>9, EffectsSame, RunsSame DEF SameBook
  <2>13. CASE Fails(x[1], x[2])
    <3>1. acts = <<>>
      BY <2>5, <2>6, <2>13
    <3>2. Does(D)'
      BY <1>1, <2>4, <2>5, <2>6, <2>10, <2>11, <2>13, FailedAction
    <3>3. Does(Behind(c, n))'
      <4>1. Behind(c, n)' = D
        BY <2>2, <2>11, <2>12 DEF Behind
      <4>. QED  BY <3>2, <4>1 DEF Does
    <3>4. run'.todo = IF rule[c].stop THEN {} ELSE Onwards(c + 1)
      BY <1>2, <2>7, <3>1
    <3>5. Fails(rule[c].acts[n+1][1], rule[c].acts[n+1][2])
      BY <2>2, <2>6, <2>13
    <3>6. \E j \in 1 .. Size + 1 : InFront(j)'
      BY <1>1, <1>2, <2>4, <3>3, <3>4, <3>5, AfterRule
    <3>. QED  BY <1>2, <3>1, <3>6 DEF Reads
  <2>14. CASE ~Fails(x[1], x[2])
    <3>. DEFINE m == n + 1
    <3>1. acts = Tail(run.acts)
      BY <2>5, <2>6, <2>14
    <3>2. m \in 0 .. Len(a) /\ m \in Nat
      BY <2>3, <2>4
    <3>3. Unfailing(c, m)
      <4>1. ASSUME NEW i \in 1 .. m
            PROVE  ~Fails(a[i][1], a[i][2])
        <5>1. CASE i = m
          BY <2>6, <2>14, <5>1
        <5>2. CASE i # m
          <6>1. i \in 1 .. n
            BY <2>4, <5>2
          <6>. QED  BY <2>2, <2>4, <6>1 DEF Unfailing
        <5>. QED  BY <5>1, <5>2
      <4>. QED  BY <2>2, <4>1 DEF Unfailing
    <3>4. Append(D, x) = U \o SubSeq(a, 1, m)
      <4>1. PICK s : s = SubSeq(a, 1, n)
        OBVIOUS
      <4>2. s \in Seq(Effect) /\ <<x>> \in Seq(Effect) /\ x \in Effect
        BY <2>5, <2>6, <4>1
      <4>3. Append(D, x) = D \o <<x>> /\ Append(s, x) = s \o <<x>>
        BY <2>11, <4>2, AppendIsConcat
      <4>4. (U \o s) \o <<x>> = U \o (s \o <<x>>)
        BY <2>11, <4>2, ConcatAssociative
      <4>5. SubSeq(a, 1, m) = Append(s, x)
        BY <2>5, <2>6, <4>1
      <4>. QED  BY <2>11, <4>1, <4>3, <4>4, <4>5
    <3>5. PICK E : E = Append(D, x)
      OBVIOUS
    <3>6. Does(Append(D, x))'
      BY <1>1, <2>4, <2>5, <2>6, <2>10, <2>11, <2>14, AppliedAction
    <3>7. Does(E)'
      BY <3>5, <3>6
    <3>8. Does(Behind(c, m))'
      <4>1. Behind(c, m)' = E
        BY <2>2, <2>12, <3>4, <3>5 DEF Behind
      <4>. QED  BY <3>7, <4>1 DEF Does
    <3>9. CASE m = Len(a)
      <4>1. acts = <<>> /\ ~(m < Len(rule[c].acts))
        <5>1. n + 1 = Len(a)
          BY <3>9
        <5>. HIDE DEF acts
        <5>2. acts = <<>>
          BY <2>5, <3>1, <5>1
        <5>. HIDE DEF m
        <5>3. ~(m < Len(a))
          BY <3>2, <3>9
        <5>. QED  BY <2>2, <5>2, <5>3
      <4>2. run'.todo = IF rule[c].stop THEN {} ELSE Onwards(c + 1)
        BY <1>2, <2>7, <4>1
      <4>3. m \in 0 .. Len(rule[c].acts)
        BY <2>2, <3>2
      <4>. HIDE DEF m
      <4>4. \E j \in 1 .. Size + 1 : InFront(j)'
        BY <1>1, <1>2, <2>4, <3>3, <3>8, <4>1, <4>2, <4>3, AfterRule
      <4>. QED  BY <1>2, <4>1, <4>4 DEF Reads
    <3>10. CASE m # Len(a)
      <4>1. acts # <<>> /\ m < Len(a)
        <5>1. n + 1 # Len(a)
          BY <3>10
        <5>. HIDE DEF acts
        <5>2. acts # <<>>
          BY <2>5, <3>1, <5>1
        <5>. HIDE DEF m
        <5>3. m < Len(a)
          BY <2>3, <3>2, <3>10
        <5>. QED  BY <5>2, <5>3
      <4>2. run'.at = "apply" /\ run'.todo = Onwards(c)' /\ run'.acts = SubSeq(a, m + 1, Len(a))
        BY <1>2, <2>4, <2>5, <2>12, <3>1, <4>1
      <4>. HIDE DEF m
      <4>3. Unfailing(c, m)'
        BY <1>2, <2>12, <3>3, FailsSame DEF Unfailing
      <4>4. Within(c, m)'
        BY <2>2, <2>12, <3>8, <4>1, <4>2, <4>3 DEF Within
      <4>5. m \in 0 .. Len(rule'[c].acts)
        BY <2>2, <2>12, <3>2
      <4>. QED  BY <4>2, <4>4, <4>5 DEF Reads
    <3>. QED  BY <3>9, <3>10
  <2>. QED  BY <2>13, <2>14
<1>. QED  BY <1>2, <1>4, <1>5

(* At the end of an evaluation the effects are those of the whole book. *)
LEMMA NothingLeft ==
  ASSUME RuleTypeOK, NEW j \in 1 .. Size + 1, InFront(j), run.todo = {}
  PROVE  Does(Effects)
<1>1. j \in Nat /\ j - 1 \in 0 .. Size /\ Size \in Nat /\ Size \in 0 .. Size /\ j - 1 <= Size /\ Book \subseteq Nat
  BY RuleAssumption DEF Book
<1>2. ASSUME NEW k \in Book, j - 1 < k
      PROVE  k \notin Runs
  <2>1. j <= k
    BY <1>1, <1>2
  <2>2. CASE Stopped(j)
    <3>1. PICK i \in Matching : i < j /\ rule[i].stop
      BY <2>2 DEF Stopped
    <3>2. i < k
      BY <1>1, <2>1, <3>1 DEF Matching
    <3>. QED  BY <3>1, <3>2 DEF Runs
  <2>3. CASE ~Stopped(j)
    <3>1. Onwards(j) = {}
      BY <2>3 DEF InFront
    <3>2. ~rule[k].on
      BY <2>1, <3>1 DEF Onwards
    <3>. QED  BY <3>2, RunsIn
  <2>. QED  BY <2>2, <2>3
<1>3. EffectsUpTo(Size) = EffectsUpTo(j-1)
  <2>. DEFINE i == j - 1
  <2>1. i \in 0 .. Size /\ i <= Size /\ \A k \in Book : i < k /\ k <= Size => k \notin Runs
    BY <1>1, <1>2
  <2>. HIDE DEF i
  <2>2. EffectsUpTo(Size) = EffectsUpTo(i)
    BY <1>1, <2>1, EffectsSkip
  <2>. QED  BY <2>2 DEF i
<1>. QED  BY <1>3 DEF InFront, Effects

LEMMA FinishStep ==
  ASSUME RuleInv, Finish
  PROVE  (run.calm => Reads)' /\ Unwritten'
<1>1. RuleTypeOK /\ run \in Evaluations /\ run.at = "conditions" /\ run.todo = {}
  BY EvaluationIs DEF RuleInv, Finish
<1>2. SameBook /\ message' = message
  BY DEF Finish, SameBook, configuration, workspace
<1>3. CASE message \in Emails /\ ~(run.adds \subseteq known)
  <2>1. run' = Unread /\ tagged' = tagged /\ scheduled' = scheduled
    BY <1>3 DEF Finish
  <2>2. tagged = {} /\ scheduled = <<>>
    BY <1>1, <1>3 DEF RuleInv, Unwritten
  <2>3. Unwritten'
    BY <2>1, <2>2 DEF Unwritten
  <2>4. run'.at = "idle"
    BY <2>1 DEF Unread
  <2>. QED  BY <2>3, <2>4 DEF Reads
<1>4. CASE ~(message \in Emails /\ ~(run.adds \subseteq known))
  <2>1. /\ tagged' = (tagged \cup run.adds) \ run.drops
        /\ scheduled' = scheduled \o run.says
        /\ run' = [run EXCEPT !.at = "done", !.adds = {}, !.drops = {}, !.says = <<>>]
    BY <1>4 DEF Finish
  <2>2. run'.at = "done" /\ run'.calm = run.calm /\ run'.out = run.out /\ run'.from = run.from
    BY <1>1, <2>1 DEF Evaluations
  <2>3. Unwritten'
    BY <2>2 DEF Unwritten
  <2>4. ASSUME run.calm PROVE OutcomeIsReference'
    <3>1. PICK j \in 1 .. Size + 1 : InFront(j)
      BY <1>1, <2>4 DEF RuleInv, Reads
    <3>2. PICK D : D = Effects
      OBVIOUS
    <3>3. Does(D)
      BY <1>1, <3>1, <3>2, NothingLeft
    <3>4. known \subseteq Values /\ tagged \subseteq Tags /\ scheduled \in Seq(Texts) /\ run.says \in Seq(Texts)
      BY <1>1 DEF RuleTypeOK, Values, Evaluations
    <3>5. tagged' = {t \in known : TagIsOn(D, t)} /\ scheduled' = Replies(D)
      <4>1. CASE message \in Emails
        <5>1. /\ tagged = {} /\ scheduled = <<>> /\ run.adds \subseteq known
              /\ run.adds \ run.drops = {t \in Values : TagIsOn(D, t)} /\ run.says = Replies(D)
          BY <1>1, <1>4, <3>3, <4>1 DEF RuleInv, Unwritten, Does
        <5>2. tagged' = {t \in known : TagIsOn(D, t)}
          BY <2>1, <3>4, <5>1
        <5>3. scheduled' = Replies(D)
          BY <2>1, <3>4, <5>1, ConcatEmptySeq
        <5>. QED  BY <5>2, <5>3
      <4>2. CASE message \notin Emails
        <5>1. /\ tagged = {t \in known : TagIsOn(D, t)} /\ scheduled = Replies(D)
              /\ run.adds = {} /\ run.drops = {} /\ run.says = <<>>
          BY <3>3, <4>2 DEF Does
        <5>2. tagged' = tagged
          BY <2>1, <5>1
        <5>3. scheduled' = scheduled
          BY <2>1, <3>4, <5>1, ConcatEmptySeq
        <5>. QED  BY <5>1, <5>2, <5>3
      <4>. QED  BY <4>1, <4>2
    <3>6. run'.out = Placed(D, run'.from)
      BY <2>2, <3>3 DEF Does
    <3>7. Effects' = D /\ known' = known
      BY <1>2, <3>2, EffectsSame DEF Effects, SameBook
    <3>8. (run.out = Placed(D, run.from))'
      <4>1. \A f : Placed(D, f)' = Placed(D, f)
        BY <1>2, PlacedSame
      <4>. QED  BY <3>6, <4>1
    <3>9. (tagged = {t \in known : TagIsOn(D, t)})' /\ (scheduled = Replies(D))'
      <4>1. (\A t : TagIsOn(D, t)' <=> TagIsOn(D, t)) /\ Replies(D)' = Replies(D)
        BY <1>2, TagSame, RepliesSame
      <4>. QED  BY <3>5, <3>7, <4>1
    <3>. QED  BY <3>7, <3>8, <3>9 DEF OutcomeIsReference
  <2>. QED  BY <2>2, <2>3, <2>4 DEF Reads
<1>. QED  BY <1>3, <1>4

(* A step of an administrator, after which nothing is said of an evaluation
   that was under way. *)
LEMMA DisturbStep ==
  ASSUME RuleInv, Disturb, message' = message,
         tagged = {} => tagged' = {}, scheduled' = scheduled
  PROVE  (run.calm => Reads)' /\ Unwritten'
<1>1. RuleTypeOK
  BY DEF RuleInv
<1>2. CASE run.at = "idle"
  <2>1. run' = run
    BY <1>2 DEF Disturb
  <2>. QED  BY <1>2, <2>1 DEF Reads, RuleInv, Unwritten
<1>3. CASE run.at = "done"
  <2>1. run' = Over
    BY <1>3 DEF Disturb
  <2>2. run'.at = "done" /\ run'.calm = FALSE
    BY <2>1 DEF Over, Unread
  <2>. QED  BY <2>2 DEF Unwritten
<1>4. CASE run.at # "idle" /\ run.at # "done"
  <2>1. run' = [run EXCEPT !.calm = FALSE]
    BY <1>4 DEF Disturb
  <2>2. run \in Evaluations
    BY <1>1, <1>4, EvaluationIs
  <2>3. run'.calm = FALSE /\ run'.at = run.at
    BY <2>1, <2>2 DEF Evaluations
  <2>. QED  BY <2>3 DEF RuleInv, Unwritten
<1>. QED  BY <1>2, <1>3, <1>4

(* A step that no part of the evaluation is about. *)
LEMMA AloofStep ==
  ASSUME RuleInv, UNCHANGED <<rule, member, known, canned, message, tagged, scheduled, run>>
  PROVE  (run.calm => Reads)' /\ Unwritten'
<1>1. SameBook
  BY DEF SameBook
<1>2. Unwritten'
  BY DEF RuleInv, Unwritten
<1>3. \A D : Does(D) => Does(D)'
  BY <1>1, DoesSame
<1>4. \A n : EffectsUpTo(n)' = EffectsUpTo(n)
  BY <1>1, EffectsSame
<1>5. \A j : InFront(j) => InFront(j)'
  <2>1. ASSUME NEW j, InFront(j) PROVE InFront(j)'
    <3>1. PICK D : D = EffectsUpTo(j-1)
      OBVIOUS
    <3>2. Does(D)' /\ EffectsUpTo(j-1)' = D
      BY <1>3, <1>4, <2>1, <3>1 DEF InFront
    <3>3. Does(EffectsUpTo(j-1))'
      BY <3>2 DEF Does
    <3>. QED  BY <1>1, <2>1, <3>3, RunsSame DEF InFront
  <2>. QED  BY <2>1
<1>6. \A c : AtActions(c) => AtActions(c)'
  <2>1. ASSUME NEW c, AtActions(c) PROVE AtActions(c)'
    <3>1. PICK D : D = EffectsUpTo(c-1)
      OBVIOUS
    <3>2. Does(D)' /\ EffectsUpTo(c-1)' = D
      BY <1>3, <1>4, <2>1, <3>1 DEF AtActions
    <3>3. Does(EffectsUpTo(c-1))'
      BY <3>2 DEF Does
    <3>. QED  BY <1>1, <2>1, <3>3, RunsSame DEF AtActions
  <2>. QED  BY <2>1
<1>7. \A c, n : Within(c, n) => Within(c, n)'
  <2>1. ASSUME NEW c, NEW n, Within(c, n) PROVE Within(c, n)'
    <3>1. PICK D : D = Behind(c, n)
      OBVIOUS
    <3>2. Does(D)' /\ Behind(c, n)' = D
      BY <1>3, <1>4, <2>1, <3>1 DEF Within, Behind
    <3>3. Does(Behind(c, n))'
      BY <3>2 DEF Does
    <3>4. Unfailing(c, n)'
      BY <1>1, <2>1, FailsSame DEF Within, Unfailing
    <3>. QED  BY <1>1, <2>1, <3>3, <3>4, RunsSame DEF Within
  <2>. QED  BY <2>1
<1>8. OutcomeIsReference => OutcomeIsReference'
  <2>1. PICK D : D = Effects
    OBVIOUS
  <2>2. Effects' = D
    BY <1>4, <2>1 DEF Effects
  <2>3. \A f : Placed(D, f)' = Placed(D, f)
    BY <1>1, PlacedSame
  <2>4. (\A t : TagIsOn(D, t)' <=> TagIsOn(D, t)) /\ Replies(D)' = Replies(D)
    BY <1>1, TagSame, RepliesSame
  <2>5. ASSUME run.out = Placed(D, run.from) PROVE (run.out = Placed(D, run.from))'
    BY <2>3, <2>5
  <2>6. ASSUME tagged = {t \in known : TagIsOn(D, t)} PROVE (tagged = {t \in known : TagIsOn(D, t)})'
    BY <2>4, <2>6
  <2>7. ASSUME scheduled = Replies(D) PROVE (scheduled = Replies(D))'
    BY <2>4, <2>7
  <2>. QED  BY <2>1, <2>2, <2>5, <2>6, <2>7 DEF OutcomeIsReference
<1>9. ASSUME run.calm PROVE Reads'
  <2>1. Reads
    BY <1>9 DEF RuleInv
  <2>2. run.at = "conditions" => (\E j \in 1 .. Size + 1 : InFront(j))'
    BY <1>5, <2>1 DEF Reads
  <2>3. run.at = "actions" => (\E c \in Book : AtActions(c))'
    BY <1>6, <2>1 DEF Reads
  <2>4. run.at = "apply" => (\E c \in Book : \E n \in 0 .. Len(rule[c].acts) : Within(c, n))'
    BY <1>7, <2>1 DEF Reads
  <2>5. run.at = "done" => OutcomeIsReference'
    BY <1>8, <2>1 DEF Reads
  <2>. QED  BY <2>2, <2>3, <2>4, <2>5 DEF Reads
<1>. QED  BY <1>2, <1>9

-----------------------------------------------------------------------------
(* Types.                                                                   *)

LEMMA RuleTypesStart ==
  ASSUME RuleInit
  PROVE  RuleTypeOK /\ Underway
<1>1. Fresh \in Situations
  BY RuleAssumption DEF Fresh, Situations
<1>2. Absent \in RuleRows
  BY DEF Absent, RuleRows
<1>3. <<>> \in Seq(Texts)
  OBVIOUS
<1>4. canned \in [Canned -> Texts \cup {Nobody}]
  BY DEF RuleInit
<1>5. writes \in 0 .. MaxWrites
  BY RuleAssumption DEF RuleInit
<1>6. RuleTypeOK
  BY <1>1, <1>2, <1>3, <1>4, <1>5 DEF RuleInit, RuleTypeOK
<1>7. Underway
  BY DEF RuleInit, Underway, Unread
<1>. QED  BY <1>6, <1>7

(* The run after a step of an administrator. *)
LEMMA DisturbTypes ==
  ASSUME RuleTypeOK, Underway, Disturb
  PROVE  run' \in Evaluations \cup {Unread} /\ Underway'
<1>1. CASE run.at = "idle"
  <2>1. run' = run
    BY <1>1 DEF Disturb
  <2>. QED  BY <1>1, <2>1 DEF RuleTypeOK, Underway
<1>2. CASE run.at = "done"
  <2>1. run' = Over
    BY <1>2 DEF Disturb
  <2>2. Fresh \in Situations /\ <<>> \in Seq(Texts) /\ <<>> \in Seq(STRING \X Values)
    BY RuleAssumption DEF Fresh, Situations
  <2>3. Over \in Evaluations /\ Over.at = "done"
    BY <2>2 DEF Over, Unread, Evaluations
  <2>. QED  BY <2>1, <2>3 DEF Underway
<1>3. CASE run.at # "idle" /\ run.at # "done"
  <2>1. run' = [run EXCEPT !.calm = FALSE]
    BY <1>3 DEF Disturb
  <2>2. run \in Evaluations
    BY <1>3, EvaluationIs
  <2>3. run' \in Evaluations /\ run'.at = run.at /\ run'.todo = run.todo /\ run'.acts = run.acts
    BY <2>1, <2>2 DEF Evaluations
  <2>. QED  BY <2>3 DEF Underway
<1>. QED  BY <1>1, <1>2, <1>3

LEMMA WriterIs ==
  ASSUME RuleTypeOK, NEW w \in Writers, writer[w] # Resting
  PROVE  writer[w] \in WriteStages
BY DEF RuleTypeOK

(* The rows after a step of an administrator. *)
RowTypes == rule \in [Book -> RuleRows] /\ writer \in [Writers -> WriteStages \cup {Resting}] /\ writes \in 0 .. MaxWrites

LEMMA WriteTypes ==
  ASSUME RuleTypeOK, NEW w \in Writers,
         \/ \E k \in Book, v \in Contents : BeginWrite(w, k, v)
         \/ DropConditions(w) \/ DropActions(w) \/ InsertChild(w) \/ Abandon(w)
  PROVE  RowTypes'
<1>1. rule \in [Book -> RuleRows] /\ writer \in [Writers -> WriteStages \cup {Resting}] /\ writes \in 0 .. MaxWrites
  BY DEF RuleTypeOK
<1>2. ASSUME NEW k \in Book, NEW v \in Contents, BeginWrite(w, k, v)
      PROVE  RowTypes'
  <2>1. writes' \in 0 .. MaxWrites
    BY <1>1, <1>2, RuleAssumption DEF BeginWrite
  <2>2. rule' \in [Book -> RuleRows]
    BY <1>1, <1>2, RuleAssumption DEF BeginWrite, RuleRows
  <2>3. [at |-> IF rule[k].on THEN "conditions" ELSE "children", rule |-> k, content |-> v, n |-> 0] \in WriteStages
    BY DEF WriteStages
  <2>4. writer' \in [Writers -> WriteStages \cup {Resting}]
    BY <1>1, <1>2, <2>3 DEF BeginWrite
  <2>. QED  BY <2>1, <2>2, <2>4 DEF RowTypes
<1>3. CASE DropConditions(w)
  <2>1. writer[w] \in WriteStages
    BY <1>3, WriterIs DEF DropConditions, Resting
  <2>2. writer[w].rule \in Book /\ [writer[w] EXCEPT !.at = "actions"] \in WriteStages
    BY <2>1 DEF WriteStages
  <2>3. writer' \in [Writers -> WriteStages \cup {Resting}]
    BY <1>1, <1>3, <2>2 DEF DropConditions
  <2>4. rule' \in [Book -> RuleRows]
    <3>. DEFINE k == writer[w].rule
    <3>1. rule' = [rule EXCEPT ![k].conds = <<>>] /\ k \in Book /\ <<>> \in Seq(Nat \X STRING)
      BY <1>3, <2>2 DEF DropConditions
    <3>. HIDE DEF k
    <3>2. [rule[k] EXCEPT !.conds = <<>>] \in RuleRows
      BY <1>1, <3>1 DEF RuleRows
    <3>. QED  BY <1>1, <3>1, <3>2
  <2>. QED  BY <1>1, <1>3, <2>3, <2>4 DEF RowTypes, DropConditions
<1>4. CASE DropActions(w)
  <2>1. writer[w] \in WriteStages
    BY <1>4, WriterIs DEF DropActions, Resting
  <2>2. writer[w].rule \in Book /\ [writer[w] EXCEPT !.at = "children"] \in WriteStages
    BY <2>1 DEF WriteStages
  <2>3. writer' \in [Writers -> WriteStages \cup {Resting}]
    BY <1>1, <1>4, <2>2 DEF DropActions
  <2>4. rule' \in [Book -> RuleRows]
    <3>. DEFINE k == writer[w].rule
    <3>1. rule' = [rule EXCEPT ![k].acts = <<>>] /\ k \in Book /\ <<>> \in Seq(STRING \X Values)
      BY <1>4, <2>2 DEF DropActions
    <3>. HIDE DEF k
    <3>2. [rule[k] EXCEPT !.acts = <<>>] \in RuleRows
      BY <1>1, <3>1 DEF RuleRows
    <3>. QED  BY <1>1, <3>1, <3>2
  <2>. QED  BY <1>1, <1>4, <2>3, <2>4 DEF RowTypes, DropActions
<1>5. CASE InsertChild(w)
  <2>. DEFINE k == writer[w].rule
              cs == Conditions[writer[w].content]
              as == Actions[writer[w].content]
              n == writer[w].n + 1
  <2>1. writer[w] \in WriteStages
    BY <1>5, WriterIs DEF InsertChild, Resting
  <2>2. k \in Book /\ n \in Nat /\ n # 0 /\ writer[w].content \in Contents
    BY <2>1 DEF WriteStages
  <2>3. cs \in Seq(Nat \X STRING) /\ as \in Seq(STRING \X Values)
    BY <2>2, RuleAssumption
  <2>4. writes' = writes
    BY <1>5 DEF InsertChild
  <2>5. [writer[w] EXCEPT !.n = n] \in WriteStages
    BY <2>1, <2>2 DEF WriteStages
  <2>6. CASE n > Len(cs) + Len(as) \/ ~rule[k].on
    <3>1. writer' = [writer EXCEPT ![w] = Resting] /\ rule' = rule
      BY <1>5, <2>6 DEF InsertChild
    <3>. QED  BY <1>1, <2>4, <3>1 DEF RowTypes
  <2>7. CASE ~(n > Len(cs) + Len(as) \/ ~rule[k].on)
    <3>1. /\ writer' = [writer EXCEPT ![w].n = n]
          /\ rule' = IF n <= Len(cs)
                     THEN [rule EXCEPT ![k].conds = Append(@, cs[n])]
                     ELSE [rule EXCEPT ![k].acts = Append(@, as[n - Len(cs)])]
      BY <1>5, <2>7 DEF InsertChild
    <3>2. writer' \in [Writers -> WriteStages \cup {Resting}]
      BY <1>1, <2>5, <3>1
    <3>3. Len(cs) \in Nat /\ Len(as) \in Nat
      BY <2>3, LenProperties
    <3>4. rule[k] \in RuleRows
      BY <1>1, <2>2
    <3>. HIDE DEF k, cs, as, n
    <3>8. n <= Len(cs) + Len(as)
      <4>. DEFINE a == Len(cs)
                  b == Len(as)
      <4>1. ~(n > a + b) /\ n \in Nat /\ a \in Nat /\ b \in Nat
        BY <2>2, <2>7, <3>3
      <4>. HIDE DEF a, b
      <4>2. n <= a + b
        BY <4>1
      <4>. QED  BY <4>2 DEF a, b
    <3>5. ASSUME n <= Len(cs) PROVE cs[n] \in Nat \X STRING
      <4>1. n \in 1 .. Len(cs)
        BY <2>2, <3>3, <3>5
      <4>. QED  BY <2>3, <4>1, ElementOfSeq
    <3>6. ASSUME ~(n <= Len(cs)) PROVE as[n - Len(cs)] \in STRING \X Values
      <4>1. n - Len(cs) \in 1 .. Len(as)
        <5>. DEFINE a == Len(cs)
                    b == Len(as)
        <5>1. n \in Nat /\ a \in Nat /\ b \in Nat /\ ~(n <= a) /\ n <= a + b
          BY <2>2, <3>3, <3>6, <3>8
        <5>. HIDE DEF a, b
        <5>2. n - a \in 1 .. b
          BY <5>1
        <5>. QED  BY <5>2 DEF a, b
      <4>. QED  BY <2>3, <4>1, ElementOfSeq
    <3>7. rule' \in [Book -> RuleRows]
      <4>1. CASE n <= Len(cs)
        <5>1. rule' = [rule EXCEPT ![k].conds = Append(@, cs[n])]
          BY <3>1, <4>1
        <5>2. Append(rule[k].conds, cs[n]) \in Seq(Nat \X STRING)
          BY <3>4, <3>5, <4>1, AppendProperties DEF RuleRows
        <5>3. [rule[k] EXCEPT !.conds = Append(rule[k].conds, cs[n])] \in RuleRows
          BY <3>4, <5>2 DEF RuleRows
        <5>. QED  BY <1>1, <2>2, <5>1, <5>3
      <4>2. CASE ~(n <= Len(cs))
        <5>1. rule' = [rule EXCEPT ![k].acts = Append(@, as[n - Len(cs)])]
          BY <3>1, <4>2
        <5>2. Append(rule[k].acts, as[n - Len(cs)]) \in Seq(STRING \X Values)
          BY <3>4, <3>6, <4>2, AppendProperties DEF RuleRows
        <5>3. [rule[k] EXCEPT !.acts = Append(rule[k].acts, as[n - Len(cs)])] \in RuleRows
          BY <3>4, <5>2 DEF RuleRows
        <5>. QED  BY <1>1, <2>2, <5>1, <5>3
      <4>. QED  BY <4>1, <4>2
    <3>. QED  BY <1>1, <2>4, <3>2, <3>7 DEF RowTypes
  <2>. QED  BY <2>6, <2>7
<1>6. CASE Abandon(w)
  BY <1>1, <1>6 DEF Abandon, RowTypes
<1>. QED  BY <1>2, <1>3, <1>4, <1>5, <1>6

LEMMA WriteStep ==
  ASSUME RuleTypeOK, Underway, NEW w \in Writers,
         \/ \E k \in Book, v \in Contents : BeginWrite(w, k, v)
         \/ DropConditions(w) \/ DropActions(w) \/ InsertChild(w) \/ Abandon(w)
  PROVE  /\ RuleTypeOK' /\ Underway'
         /\ Disturb \/ UNCHANGED <<rule, run>>
         /\ UNCHANGED <<workspace, conversation>>
<1>1. RowTypes'
  BY WriteTypes
<1>2. (Disturb \/ UNCHANGED <<rule, run>>) /\ UNCHANGED <<workspace, conversation>>
  BY DEF BeginWrite, DropConditions, DropActions, InsertChild, Abandon
<1>3. run' \in Evaluations \cup {Unread} /\ Underway'
  <2>1. CASE Disturb
    BY <2>1, DisturbTypes
  <2>2. CASE UNCHANGED run
    BY <2>2 DEF RuleTypeOK, Underway
  <2>. QED  BY <1>2, <2>1, <2>2
<1>4. RuleTypeOK'
  BY <1>1, <1>2, <1>3 DEF RuleTypeOK, RowTypes, workspace, conversation
<1>. QED  BY <1>2, <1>3, <1>4

LEMMA AdministrationStep ==
  ASSUME RuleTypeOK, Underway,
         \/ \E k \in Book : DeleteRule(k)
         \/ \E t \in Tags : DeleteTag(t)
         \/ \E a \in Agents : Leave(a)
         \/ \E y \in Canned, body \in Texts \cup {Nobody} : WriteReply(y, body)
  PROVE  /\ RuleTypeOK' /\ Underway'
         /\ Disturb /\ message' = message /\ scheduled' = scheduled
         /\ tagged = {} => tagged' = {}
<1>1. /\ rule \in [Book -> RuleRows] /\ writes \in 0 .. MaxWrites /\ known \subseteq Tags /\ tagged \subseteq Tags
      /\ canned \in [Canned -> Texts \cup {Nobody}] /\ member \subseteq Agents
  BY DEF RuleTypeOK
<1>2. Disturb /\ UNCHANGED <<message, routed, scheduled>>
  BY DEF DeleteRule, DeleteTag, Leave, WriteReply, conversation
<1>3. run' \in Evaluations \cup {Unread} /\ Underway'
  BY <1>2, DisturbTypes
<1>4. ASSUME NEW k \in Book, DeleteRule(k) PROVE RuleTypeOK' /\ (tagged = {} => tagged' = {})
  <2>1. Absent \in RuleRows
    BY DEF Absent, RuleRows
  <2>2. rule' \in [Book -> RuleRows] /\ writes' \in 0 .. MaxWrites
    BY <1>1, <1>4, <2>1, RuleAssumption DEF DeleteRule
  <2>3. UNCHANGED <<writer, workspace, conversation>>
    BY <1>4 DEF DeleteRule
  <2>. QED  BY <1>3, <2>2, <2>3 DEF RuleTypeOK, workspace, conversation
<1>5. ASSUME NEW t \in Tags, DeleteTag(t) PROVE RuleTypeOK' /\ (tagged = {} => tagged' = {})
  <2>1. known' \subseteq Tags /\ tagged' \subseteq Tags /\ (tagged = {} => tagged' = {})
    BY <1>1, <1>5 DEF DeleteTag
  <2>. QED  BY <1>2, <1>3, <1>5, <2>1 DEF RuleTypeOK, DeleteTag
<1>6. ASSUME NEW a \in Agents, Leave(a) PROVE RuleTypeOK' /\ (tagged = {} => tagged' = {})
  <2>1. member' \subseteq Agents
    BY <1>1, <1>6 DEF Leave
  <2>. QED  BY <1>3, <1>6, <2>1 DEF RuleTypeOK, Leave, conversation
<1>7. ASSUME NEW y \in Canned, NEW body \in Texts \cup {Nobody}, WriteReply(y, body)
      PROVE  RuleTypeOK' /\ (tagged = {} => tagged' = {})
  <2>1. canned' \in [Canned -> Texts \cup {Nobody}] /\ writes' \in 0 .. MaxWrites
    BY <1>1, <1>7, RuleAssumption DEF WriteReply
  <2>. QED  BY <1>3, <1>7, <2>1 DEF RuleTypeOK, WriteReply, conversation
<1>. QED  BY <1>2, <1>3, <1>4, <1>5, <1>6, <1>7

LEMMA CandidateIn ==
  ASSUME NEW T \in SUBSET (Book \X BOOLEAN), T = run.todo, T # {}
  PROVE  Candidate \in Book \X BOOLEAN
<1>. DEFINE F == {d[1] : d \in T}
<1>1. F \in SUBSET Nat /\ F # {}
  BY DEF Book
<1>2. PICK m \in F : \A k \in F : m <= k
  <2>. HIDE DEF F
  <2>. QED  BY <1>1, Least
<1>3. \E c \in T : \A d \in T : c[1] <= d[1]
  BY <1>2
<1>4. Candidate \in T
  BY <1>3 DEF Candidate
<1>. QED  BY <1>4

(* The steps of the evaluation, and of an agent. *)
LEMMA EvaluationTypes ==
  ASSUME RuleTypeOK, Underway, Begin \/ ReadConditions \/ ReadActions \/ Apply \/ Finish
  PROVE  run' \in Evaluations \cup {Unread} /\ Underway'
<1>1. Fresh \in Situations
  BY RuleAssumption DEF Fresh, Situations
<1>2. CASE Begin
  <2>. DEFINE from == IF message \in Emails THEN routed ELSE Fresh
              todo == {<<k, rule[k].stop>> : k \in {i \in Book : rule[i].on}}
  <2>1. from \in Situations
    BY <1>1 DEF RuleTypeOK
  <2>2. todo \in SUBSET (Book \X BOOLEAN)
    BY RowIs
  <2>3. <<>> \in Seq(Texts) /\ <<>> \in Seq(STRING \X Values)
    OBVIOUS
  <2>4. run' = [Unread EXCEPT !.at = "conditions", !.from = from, !.out = from, !.todo = todo]
    BY <1>2 DEF Begin
  <2>. HIDE DEF from, todo
  <2>5. run' \in Evaluations /\ run'.at = "conditions"
    BY <2>1, <2>2, <2>3, <2>4 DEF Unread, Evaluations
  <2>. QED  BY <2>5 DEF Underway
<1>3. CASE ReadConditions
  <2>1. run \in Evaluations /\ run.todo # {}
    BY <1>3, EvaluationIs DEF ReadConditions
  <2>2. Rest \in SUBSET (Book \X BOOLEAN)
    BY <2>1 DEF Rest, Evaluations
  <2>3. run' = [run EXCEPT !.at = "actions"] \/ run' = [run EXCEPT !.todo = Rest]
    BY <1>3 DEF ReadConditions
  <2>4. CASE run' = [run EXCEPT !.at = "actions"]
    <3>1. run' \in Evaluations /\ run'.at = "actions" /\ run'.todo = run.todo
      BY <2>1, <2>4 DEF Evaluations
    <3>. QED  BY <2>1, <3>1 DEF Underway
  <2>5. CASE run' = [run EXCEPT !.todo = Rest]
    <3>1. run' \in Evaluations /\ run'.at = run.at
      BY <2>1, <2>2, <2>5 DEF Evaluations
    <3>. QED  BY <1>3, <3>1 DEF Underway, ReadConditions
  <2>. QED  BY <2>3, <2>4, <2>5
<1>4. ASSUME NEW r \in Evaluations, run' = Continue(r), r.todo # {}, run \in Evaluations
      PROVE  run' \in Evaluations \cup {Unread} /\ Underway'
  <2>1. Rest \in SUBSET (Book \X BOOLEAN)
    BY <1>4 DEF Rest, Evaluations
  <2>2. CASE r.acts # <<>>
    <3>1. run' = [r EXCEPT !.at = "apply"]
      BY <1>4, <2>2 DEF Continue
    <3>2. run' \in Evaluations /\ run'.acts # <<>> /\ run'.todo # {}
      BY <1>4, <2>2, <3>1 DEF Evaluations
    <3>. QED  BY <3>2 DEF Underway
  <2>3. CASE r.acts = <<>>
    <3>. DEFINE todo == IF Candidate[2] THEN {} ELSE Rest
    <3>1. run' = [r EXCEPT !.at = "conditions", !.todo = todo]
      BY <1>4, <2>3 DEF Continue
    <3>2. todo \in SUBSET (Book \X BOOLEAN)
      BY <2>1
    <3>. HIDE DEF todo
    <3>3. run' \in Evaluations /\ run'.at = "conditions"
      BY <1>4, <3>1, <3>2 DEF Evaluations
    <3>. QED  BY <3>3 DEF Underway
  <2>. QED  BY <2>2, <2>3
<1>5. CASE ReadActions
  <2>1. run \in Evaluations /\ run.todo # {} /\ run.todo \in SUBSET (Book \X BOOLEAN)
    BY <1>5, EvaluationIs DEF ReadActions, Underway, Evaluations
  <2>2. Candidate \in Book \X BOOLEAN
    BY <2>1, CandidateIn
  <2>3. rule[Candidate[1]].acts \in Seq(STRING \X Values)
    BY <2>2, RowIs DEF Effect
  <2>. DEFINE r == [run EXCEPT !.acts = rule[Candidate[1]].acts]
  <2>4. r \in Evaluations /\ r.todo = run.todo
    BY <2>1, <2>3 DEF Evaluations
  <2>5. run' = Continue(r)
    BY <1>5 DEF ReadActions
  <2>. HIDE DEF r
  <2>. QED  BY <1>4, <2>1, <2>4, <2>5
<1>6. CASE Apply
  <2>1. run.acts # <<>> /\ run.todo # {}
    BY <1>6 DEF Apply, Underway
  <2>2. \E r \in Evaluations : run' = Continue(r) /\ r.todo = run.todo /\ run \in Evaluations
    BY <1>6, <2>1, ApplyContinues
  <2>. QED  BY <1>4, <2>1, <2>2
<1>7. CASE Finish
  <2>1. run \in Evaluations
    BY <1>7, EvaluationIs DEF Finish
  <2>2. run' = Unread \/ run' = [run EXCEPT !.at = "done", !.adds = {}, !.drops = {}, !.says = <<>>]
    BY <1>7 DEF Finish
  <2>3. CASE run' = Unread
    BY <2>3 DEF Underway, Unread
  <2>4. CASE run' = [run EXCEPT !.at = "done", !.adds = {}, !.drops = {}, !.says = <<>>]
    <3>1. <<>> \in Seq(Texts)
      OBVIOUS
    <3>2. run' \in Evaluations /\ run'.at = "done"
      BY <2>1, <2>4, <3>1 DEF Evaluations
    <3>. QED  BY <3>2 DEF Underway
  <2>. QED  BY <2>2, <2>3, <2>4
<1>. QED  BY <1>2, <1>3, <1>5, <1>6, <1>7

LEMMA DisturbBuffer ==
  ASSUME RuleTypeOK, Unbuffered, Disturb, message' = message
  PROVE  Unbuffered'
<1>1. CASE run.at = "idle"
  BY <1>1 DEF Disturb, Unbuffered
<1>2. CASE run.at = "done"
  BY <1>2 DEF Disturb, Over, Unread, Unbuffered
<1>3. CASE run.at # "idle" /\ run.at # "done"
  <2>1. run' = [run EXCEPT !.calm = FALSE]
    BY <1>3 DEF Disturb
  <2>2. run \in Evaluations
    BY <1>3, EvaluationIs
  <2>3. run'.adds = run.adds
    BY <2>1, <2>2 DEF Evaluations
  <2>. QED  BY <2>3 DEF Unbuffered
<1>. QED  BY <1>1, <1>2, <1>3

LEMMA EvaluationBuffer ==
  ASSUME RuleTypeOK, Underway, Unbuffered, Begin \/ ReadConditions \/ ReadActions \/ Apply \/ Finish
  PROVE  Unbuffered' /\ SameBook
<1>1. UNCHANGED <<configuration, message>>
  <2>1. CASE Begin
    BY <2>1 DEF Begin, conversation
  <2>2. CASE ReadConditions
    BY <2>2 DEF ReadConditions, conversation
  <2>3. CASE ReadActions
    BY <2>3 DEF ReadActions, conversation
  <2>4. CASE Apply
    BY <2>4 DEF Apply
  <2>5. CASE Finish
    BY <2>5 DEF Finish
  <2>. QED  BY <2>1, <2>2, <2>3, <2>4, <2>5
<1>2. message' = message /\ SameBook
  BY <1>1 DEF SameBook, configuration, workspace
<1>3. run'.adds = run.adds \/ run'.adds = {} \/ message \in Emails
  <2>1. CASE Begin
    <3>1. run = Unread /\ run'.adds = run.adds
      BY <2>1 DEF Begin, Unread
    <3>. QED  BY <3>1
  <2>2. CASE ReadConditions
    <3>1. run \in Evaluations
      BY <2>2, EvaluationIs DEF ReadConditions
    <3>2. run' = [run EXCEPT !.at = "actions"] \/ run' = [run EXCEPT !.todo = Rest]
      BY <2>2 DEF ReadConditions
    <3>3. run'.adds = run.adds
      BY <3>1, <3>2 DEF Evaluations
    <3>. QED  BY <3>3
  <2>3. CASE ReadActions
    <3>1. run \in Evaluations
      BY <2>3, EvaluationIs DEF ReadActions
    <3>2. run'.adds = run.adds
      BY <2>3, <3>1 DEF ReadActions, Continue, Evaluations
    <3>. QED  BY <3>2
  <2>4. CASE Apply
    <3>1. run.acts # <<>>
      BY <2>4 DEF Apply, Underway
    <3>2. run'.adds = IF message \in Emails /\ run.acts[1][1] = "add_tag" THEN run.adds \cup {run.acts[1][2]} ELSE run.adds
      BY <2>4, <3>1, ApplyIs
    <3>. QED  BY <3>2
  <2>5. CASE Finish
    <3>1. run \in Evaluations
      BY <2>5, EvaluationIs DEF Finish
    <3>2. run' = Unread \/ run' = [run EXCEPT !.at = "done", !.adds = {}, !.drops = {}, !.says = <<>>]
      BY <2>5 DEF Finish
    <3>3. CASE run' = Unread
      BY <3>3 DEF Unread
    <3>4. CASE run' = [run EXCEPT !.at = "done", !.adds = {}, !.drops = {}, !.says = <<>>]
      BY <3>1, <3>4 DEF Evaluations
    <3>. QED  BY <3>2, <3>3, <3>4
  <2>. QED  BY <2>1, <2>2, <2>3, <2>4, <2>5
<1>. QED  BY <1>2, <1>3 DEF Unbuffered

LEMMA EvaluationStep ==
  ASSUME RuleInv, Begin \/ ReadConditions \/ ReadActions \/ Apply \/ Finish
  PROVE  RuleInv'
<1>1. RuleTypeOK /\ Underway /\ Unbuffered
  BY DEF RuleInv
<1>2. run' \in Evaluations \cup {Unread} /\ Underway' /\ Unbuffered' /\ SameBook
  BY <1>1, EvaluationTypes, EvaluationBuffer
<1>3. UNCHANGED <<writer, writes>>
  <2>1. CASE Begin
    BY <2>1 DEF Begin, configuration
  <2>2. CASE ReadConditions
    BY <2>2 DEF ReadConditions, configuration
  <2>3. CASE ReadActions
    BY <2>3 DEF ReadActions, configuration
  <2>4. CASE Apply
    BY <2>4 DEF Apply, configuration
  <2>5. CASE Finish
    BY <2>5 DEF Finish, configuration
  <2>. QED  BY <2>1, <2>2, <2>3, <2>4, <2>5
<1>4. routed' \in Situations /\ tagged' \subseteq Tags /\ scheduled' \in Seq(Texts)
  <2>1. known \subseteq Tags /\ tagged \subseteq Tags /\ scheduled \in Seq(Texts) /\ routed \in Situations
    BY <1>1 DEF RuleTypeOK
  <2>2. CASE Begin \/ ReadConditions \/ ReadActions
    BY <2>1, <2>2 DEF Begin, ReadConditions, ReadActions, conversation
  <2>3. CASE Apply
    <3>1. Says(run.acts[1][1], run.acts[1][2]) \in Seq(Texts)
      BY <1>1, SaysIs
    <3>2. scheduled' \in Seq(Texts)
      BY <2>1, <2>3, <3>1, ConcatProperties DEF Apply
    <3>3. tagged' \subseteq Tags
      BY <2>1, <2>3 DEF Apply
    <3>. QED  BY <2>1, <2>3, <3>2, <3>3 DEF Apply
  <2>4. CASE Finish
    <3>1. run \in Evaluations
      BY <1>1, <2>4, EvaluationIs DEF Finish
    <3>2. run.out \in Situations /\ run.says \in Seq(Texts)
      BY <3>1 DEF Evaluations
    <3>3. scheduled \o run.says \in Seq(Texts)
      BY <2>1, <3>2, ConcatProperties
    <3>4. CASE message \in Emails /\ ~(run.adds \subseteq known)
      BY <2>1, <2>4, <3>4 DEF Finish
    <3>5. CASE ~(message \in Emails /\ ~(run.adds \subseteq known))
      <4>1. run.adds \subseteq Tags
        BY <1>1, <2>1, <3>5 DEF Unbuffered
      <4>2. /\ routed' = IF message \in Emails \/ run.out # Fresh THEN run.out ELSE routed
            /\ tagged' = (tagged \cup run.adds) \ run.drops
            /\ scheduled' = scheduled \o run.says
        BY <2>4, <3>5 DEF Finish
      <4>. QED  BY <2>1, <3>2, <3>3, <4>1, <4>2
    <3>. QED  BY <3>4, <3>5
  <2>. QED  BY <2>2, <2>3, <2>4
<1>5. RuleTypeOK'
  BY <1>1, <1>2, <1>3, <1>4 DEF RuleTypeOK, SameBook
<1>6. (run.calm => Reads)' /\ Unwritten'
  BY BeginStep, ReadConditionsStep, ReadActionsStep, ApplyStep, FinishStep
<1>. QED  BY <1>2, <1>5, <1>6 DEF RuleInv

LEMMA AdministratorStep ==
  ASSUME RuleInv,
         \/ \E w \in Writers :
              \/ \E k \in Book, v \in Contents : BeginWrite(w, k, v)
              \/ DropConditions(w) \/ DropActions(w) \/ InsertChild(w) \/ Abandon(w)
         \/ \E k \in Book : DeleteRule(k)
         \/ \E t \in Tags : DeleteTag(t)
         \/ \E a \in Agents : Leave(a)
         \/ \E y \in Canned, body \in Texts \cup {Nobody} : WriteReply(y, body)
  PROVE  RuleInv'
<1>1. RuleTypeOK /\ Underway /\ Unbuffered
  BY DEF RuleInv
<1>2. /\ RuleTypeOK' /\ Underway' /\ message' = message /\ scheduled' = scheduled
      /\ tagged = {} => tagged' = {}
      /\ Disturb \/ UNCHANGED <<rule, member, known, canned, message, tagged, scheduled, run>>
  <2>1. CASE \E w \in Writers :
               \/ \E k \in Book, v \in Contents : BeginWrite(w, k, v)
               \/ DropConditions(w) \/ DropActions(w) \/ InsertChild(w) \/ Abandon(w)
    <3>1. /\ RuleTypeOK' /\ Underway'
          /\ Disturb \/ UNCHANGED <<rule, run>>
          /\ UNCHANGED <<workspace, conversation>>
      BY <1>1, <2>1, WriteStep
    <3>. QED  BY <3>1 DEF workspace, conversation
  <2>2. CASE \/ \E k \in Book : DeleteRule(k)
             \/ \E t \in Tags : DeleteTag(t)
             \/ \E a \in Agents : Leave(a)
             \/ \E y \in Canned, body \in Texts \cup {Nobody} : WriteReply(y, body)
    BY <1>1, <2>2, AdministrationStep
  <2>. QED  BY <2>1, <2>2
<1>3. CASE Disturb
  BY <1>1, <1>2, <1>3, DisturbBuffer, DisturbStep DEF RuleInv
<1>4. CASE UNCHANGED <<rule, member, known, canned, message, tagged, scheduled, run>>
  <2>1. Unbuffered'
    BY <1>1, <1>4 DEF Unbuffered
  <2>. QED  BY <1>2, <1>4, <2>1, AloofStep DEF RuleInv
<1>. QED  BY <1>2, <1>3, <1>4

LEMMA AloofKeeps ==
  ASSUME RuleInv, (\E a \in Agents, b \in Destinations : Desk(a, b)) \/ UNCHANGED ruleVars
  PROVE  RuleInv'
<1>1. /\ UNCHANGED <<rule, writer, writes, member, known, canned, message, tagged, scheduled, run>>
      /\ routed' \in Situations
  <2>1. routed \in Situations
    BY DEF RuleInv, RuleTypeOK
  <2>2. ASSUME NEW a \in Agents, NEW b \in Destinations, Desk(a, b)
        PROVE  /\ UNCHANGED <<rule, writer, writes, member, known, canned, message, tagged, scheduled, run>>
               /\ routed' \in Situations
    BY <2>1, <2>2 DEF Desk, configuration, workspace, Situations
  <2>3. CASE UNCHANGED ruleVars
    BY <2>1, <2>3 DEF ruleVars
  <2>. QED  BY <2>2, <2>3
<1>2. (run.calm => Reads)' /\ Unwritten'
  BY <1>1, AloofStep
<1>3. RuleTypeOK' /\ Underway' /\ Unbuffered'
  BY <1>1 DEF RuleInv, RuleTypeOK, Underway, Unbuffered
<1>. QED  BY <1>2, <1>3 DEF RuleInv

-----------------------------------------------------------------------------
(* Theorems about the rules.                                                *)

(* Stages, rows and buffers of the rules and of their evaluation are of the
   types of RuleTypeOK, and every evaluation that met no administrator is
   where RuleInv says that it is (evaluateRules of rules.ts). *)
THEOREM RulesStayInOrder == RuleSpec => []RuleInv
<1>1. RuleInit => RuleInv
  <2>1. ASSUME RuleInit PROVE RuleInv
    <3>1. RuleTypeOK /\ Underway
      BY <2>1, RuleTypesStart
    <3>2. run = Unread /\ tagged = {} /\ scheduled = <<>>
      BY <2>1 DEF RuleInit
    <3>3. run.at = "idle" /\ run.adds = {}
      BY <3>2 DEF Unread
    <3>. QED  BY <3>1, <3>2, <3>3 DEF RuleInv, Unbuffered, Unwritten, Reads
  <2>. QED  BY <2>1
<1>2. RuleInv /\ [RuleNext]_ruleVars => RuleInv'
  BY EvaluationStep, AdministratorStep, AloofKeeps DEF RuleNext
<1>. QED  BY <1>1, <1>2, PTL DEF RuleSpec

(* An evaluation that met no administrator leaves what the book says of its
   message: the first routing action that applies, and every other action of
   the rules up to the first that stops (evaluateRules and applyAction of
   rules.ts), for any book, message and workspace. *)
THEOREM RulesDoAsWritten == RuleSpec => []OutcomeIsReference
<1>1. RuleInv => OutcomeIsReference
  BY DEF RuleInv, Reads, OutcomeIsReference
<1>. QED  BY <1>1, RulesStayInOrder, PTL
===============================================================================
