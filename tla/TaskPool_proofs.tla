-------------------------- MODULE TaskPool_proofs ---------------------------
(***************************************************************************)
(* The lists of TaskPool partition its nodes and the delayed one is        *)
(* sorted, for any size of the pool, any tasks, any requests of the main   *)
(* thread and of interrupts, any nesting and any period of the counter.    *)
(***************************************************************************)
EXTENDS TaskPool, FiniteSetTheorems, SequenceTheorems, TLAPS

-----------------------------------------------------------------------------
(* Induction, as a fact about sets of numbers. *)

LEMMA Least ==
    ASSUME NEW T \in SUBSET Nat, T # {}
    PROVE  \E m \in T : \A k \in T : m <= k
<1> DEFINE R == OpToRel(<, Nat)
<1>1. IsWellFoundedOn(R, Nat)
  BY NatLessThanWellFounded
<1>2. \A x, y \in Nat : x < y => <<x, y>> \in R
  BY DEF OpToRel
<1> HIDE DEF R
<1>3. PICK x \in T : \A y \in T : ~(<<y, x>> \in R)
  BY <1>1, WFMin
<1>4. \A y \in T : ~(y < x)
  BY <1>2, <1>3, Zenon
<1> QED BY <1>4, SMT

LEMMA Induct ==
    ASSUME NEW n \in Nat, NEW T \in SUBSET Nat, 0 \in T, \A k \in T : k < n => k + 1 \in T
    PROVE  \A k \in 0..n : k \in T
<1> DEFINE B == {k \in 0..n : k \notin T}
<1> SUFFICES ASSUME B # {} PROVE FALSE
  OBVIOUS
<1>1. PICK m \in B : \A k \in B : m <= k
  <2> B \in SUBSET Nat
    OBVIOUS
  <2> HIDE DEF B
  <2> QED BY Least
<1>2. m # 0 /\ m \in Nat /\ m - 1 \in 0..n
  OBVIOUS
<1>3. m - 1 \in T
  BY <1>1, <1>2
<1> QED BY <1>1, <1>2, <1>3

-----------------------------------------------------------------------------
(* Walking a list. *)

Hop(nxt, h, w, k) == IF k = 0 THEN h ELSE IF w[k - 1] = Nil THEN Nil ELSE nxt[w[k - 1]]
IsWalk(nxt, h, n, w) == w = [k \in 0..n |-> Hop(nxt, h, w, k)]

LEMMA WalkExists ==
    ASSUME NEW nxt, NEW h, NEW n \in Nat
    PROVE  \E w : IsWalk(nxt, h, n, w)
<1> DEFINE T == {i \in Nat : \E w : IsWalk(nxt, h, i, w)}
<1>1. 0 \in T
  <2> DEFINE w == [k \in 0..0 |-> h]
  <2>1. IsWalk(nxt, h, 0, w)
    BY DEF Hop, IsWalk
  <2> QED BY <2>1
<1>2. ASSUME NEW i \in T PROVE i + 1 \in T
  <2>1. i \in Nat /\ i + 1 \in Nat
    OBVIOUS
  <2>2. PICK w : IsWalk(nxt, h, i, w)
    OBVIOUS
  <2> DEFINE v == [k \in 0..(i + 1) |-> IF k <= i THEN w[k] ELSE Hop(nxt, h, w, k)]
  <2>3. \A k \in 0..(i + 1) : v[k] = Hop(nxt, h, v, k)
    BY <2>1, <2>2 DEF Hop, IsWalk
  <2>4. IsWalk(nxt, h, i + 1, v)
    BY <2>3 DEF IsWalk
  <2> HIDE DEF v
  <2> QED BY <2>1, <2>4
<1>3. T \in SUBSET Nat
  OBVIOUS
<1> HIDE DEF T
<1>4. n \in T
  BY <1>1, <1>2, <1>3, Induct
<1> QED BY <1>4 DEF T

LEMMA WalkIs ==
    ASSUME NEW nxt, NEW h
    PROVE  \A k \in 0..Size :
              Walk(nxt, h)[k] = IF k = 0 THEN h
                                ELSE IF Walk(nxt, h)[k - 1] = Nil THEN Nil
                                ELSE nxt[Walk(nxt, h)[k - 1]]
<1> DEFINE W == Walk(nxt, h)
<1>1. \E w : IsWalk(nxt, h, Size, w)
  BY WalkExists, PoolAssumption
<1>2. W = [k \in 0..Size |-> IF k = 0 THEN h ELSE IF W[k - 1] = Nil THEN Nil ELSE nxt[W[k - 1]]]
  BY <1>1 DEF Walk, IsWalk, Hop
<1> HIDE DEF W
<1>3. \A k \in 0..Size : W[k] = IF k = 0 THEN h ELSE IF W[k - 1] = Nil THEN Nil ELSE nxt[W[k - 1]]
  BY <1>2
<1> QED BY <1>3 DEF W

-----------------------------------------------------------------------------
(* A handle is where a list starts: the head of one of the five, or what   *)
(* the activation at a depth has detached.  own[n] is the handle of the    *)
(* list that node n is in, 0 for a free node, and rank[n] how many nodes   *)
(* come before it; r[h] is the first node of handle h.                     *)

Handle == (-5..MaxDepth) \ {0}

Owners(fn, nxt, r, own, rank) ==
    /\ own \in [Node -> Handle \cup {0}] /\ rank \in [Node -> Nat]
    /\ \A n \in Node : fn[n] = NoFn <=> own[n] = 0
    /\ \A h \in Handle : r[h] # Nil => own[r[h]] = h /\ rank[r[h]] = 0
    /\ \A n \in Node : own[n] # 0 /\ nxt[n] # Nil =>
                          own[nxt[n]] = own[n] /\ rank[nxt[n]] = rank[n] + 1
    /\ \A n \in Node : own[n] # 0 /\ rank[n] = 0 => r[own[n]] = n
    /\ \A n \in Node : own[n] # 0 /\ rank[n] # 0 =>
                          \E m \in Node : /\ own[m] = own[n] /\ rank[m] + 1 = rank[n]
                                          /\ nxt[m] = n

Links(fn, nxt, r) == /\ fn \in [Node -> Task \cup {NoFn}]
                     /\ nxt \in [Node -> Node \cup {Nil}]
                     /\ r \in [Handle -> Node \cup {Nil}]

\* Two nodes of a list are not at the same place of it.
LEMMA OnePlace ==
    ASSUME NEW fn, NEW nxt, NEW r, NEW own, NEW rank, Owners(fn, nxt, r, own, rank)
    PROVE  \A m, n \in Node : own[m] = own[n] /\ own[n] # 0 /\ rank[m] = rank[n] => m = n
<1> DEFINE T == {i \in Nat : \A m, n \in Node :
                     own[m] = own[n] /\ own[n] # 0 /\ rank[m] = i /\ rank[n] = i => m = n}
<1>1. 0 \in T
  BY DEF Owners
<1>2. ASSUME NEW i \in T PROVE i + 1 \in T
  <2>1. i \in Nat /\ i + 1 \in Nat
    OBVIOUS
  <2>2. ASSUME NEW m \in Node, NEW n \in Node, own[m] = own[n], own[n] # 0,
               rank[m] = i + 1, rank[n] = i + 1
        PROVE  m = n
    <3>1. rank[m] # 0 /\ rank[n] # 0
      BY <2>1, <2>2
    <3>2. PICK a \in Node : own[a] = own[m] /\ rank[a] + 1 = rank[m] /\ nxt[a] = m
      BY <2>2, <3>1 DEF Owners
    <3>3. PICK b \in Node : own[b] = own[n] /\ rank[b] + 1 = rank[n] /\ nxt[b] = n
      BY <2>2, <3>1 DEF Owners
    <3>4. rank[a] \in Nat /\ rank[b] \in Nat
      BY DEF Owners
    <3>5. rank[a] = i /\ rank[b] = i
      BY <2>1, <2>2, <3>2, <3>3, <3>4
    <3>6. a = b
      BY <2>2, <3>2, <3>3, <3>5
    <3> QED BY <3>2, <3>3, <3>6
  <2> QED BY <2>1, <2>2
<1>3. T \in SUBSET Nat
  OBVIOUS
<1>4. \A m \in Node : rank[m] \in Nat
  BY DEF Owners
<1>5. ASSUME NEW m \in Node, NEW n \in Node, own[m] = own[n], own[n] # 0, rank[m] = rank[n]
      PROVE  m = n
  <2>1. rank[m] \in T
    <3> HIDE DEF T
    <3> QED BY <1>1, <1>2, <1>3, <1>4, Induct
  <2> QED BY <1>5, <2>1
<1> QED BY <1>5

\* Every place before that of a node is taken.
LEMMA PlacesBefore ==
    ASSUME NEW fn, NEW nxt, NEW r, NEW own, NEW rank, Owners(fn, nxt, r, own, rank),
           NEW n \in Node, own[n] # 0
    PROVE  \A k \in 0..rank[n] : \E m \in Node : own[m] = own[n] /\ rank[m] = k
<1> DEFINE T == {i \in 0..rank[n] : \E m \in Node : own[m] = own[n] /\ rank[m] + i = rank[n]}
<1>1. rank \in [Node -> Nat]
  BY DEF Owners
<1>2. 0 \in T
  BY <1>1
<1>3. ASSUME NEW i \in T, i < rank[n] PROVE i + 1 \in T
  <2>1. PICK m \in Node : own[m] = own[n] /\ rank[m] + i = rank[n]
    OBVIOUS
  <2>2. rank[m] # 0 /\ i \in Nat
    BY <1>1, <1>3, <2>1
  <2>3. PICK a \in Node : own[a] = own[m] /\ rank[a] + 1 = rank[m]
    BY <2>1, <2>2 DEF Owners
  <2>4. rank[a] + (i + 1) = rank[n] /\ i + 1 \in 0..rank[n]
    BY <1>1, <1>3, <2>1, <2>2, <2>3
  <2> QED BY <2>1, <2>3, <2>4
<1>4. T \in SUBSET Nat /\ rank[n] \in Nat
  BY <1>1
<1>5. \A i \in 0..rank[n] : i \in T
  <2> HIDE DEF T
  <2> QED BY <1>2, <1>3, <1>4, Induct
<1>6. ASSUME NEW k \in 0..rank[n] PROVE \E m \in Node : own[m] = own[n] /\ rank[m] = k
  <2>1. rank[n] - k \in T /\ k \in Nat
    BY <1>4, <1>5
  <2>2. PICK m \in Node : own[m] = own[n] /\ rank[m] + (rank[n] - k) = rank[n]
    BY <2>1
  <2> QED BY <1>1, <2>1, <2>2
<1> QED BY <1>6

\* So no list is longer than the pool.
LEMMA PlacesBound ==
    ASSUME NEW fn, NEW nxt, NEW r, NEW own, NEW rank, Owners(fn, nxt, r, own, rank),
           NEW n \in Node, own[n] # 0
    PROVE  rank[n] < Size
<1>1. rank[n] \in Nat /\ Size \in Nat
  BY PoolAssumption DEF Owners
<1> DEFINE g == [k \in 0..rank[n] |-> CHOOSE m \in Node : own[m] = own[n] /\ rank[m] = k]
<1>2. \A k \in 0..rank[n] : g[k] \in Node /\ rank[g[k]] = k
  BY PlacesBefore
<1>3. g \in [0..rank[n] -> Node]
  BY <1>2
<1>4. IsFiniteSet(Node) /\ Cardinality(Node) = Size
  BY PoolAssumption, FS_Interval DEF Node
<1>5. IsFiniteSet(0..rank[n]) /\ Cardinality(0..rank[n]) = rank[n] + 1
  BY <1>1, FS_Interval
<1> HIDE DEF g
<1>6. ASSUME Size < rank[n] + 1 PROVE FALSE
  <2>1. \E x, y \in 0..rank[n] : x # y /\ g[x] = g[y]
    BY <1>3, <1>4, <1>5, <1>6, FS_PigeonHole
  <2> QED BY <1>2, <2>1
<1> QED BY <1>1, <1>6

\* What the walk from a handle meets: the k-th node is the one at place k.
LEMMA WalkMeets ==
    ASSUME NEW fn, NEW nxt, NEW r, NEW own, NEW rank,
           Links(fn, nxt, r), Owners(fn, nxt, r, own, rank), NEW h \in Handle
    PROVE  /\ \A k \in 0..Size : \/ Walk(nxt, r[h])[k] = Nil
                                 \/ /\ Walk(nxt, r[h])[k] \in Node
                                    /\ own[Walk(nxt, r[h])[k]] = h
                                    /\ rank[Walk(nxt, r[h])[k]] = k
           /\ \A n \in Node : own[n] = h => Walk(nxt, r[h])[rank[n]] = n
<1> DEFINE w == Walk(nxt, r[h])
           Meets(k) == w[k] = Nil \/ (w[k] \in Node /\ own[w[k]] = h /\ rank[w[k]] = k)
           T == {k \in 0..Size : Meets(k)}
<1>1. \A k \in 0..Size : w[k] = IF k = 0 THEN r[h] ELSE IF w[k - 1] = Nil THEN Nil ELSE nxt[w[k - 1]]
  BY WalkIs
<1>2. Size \in Nat /\ Nil \notin Node /\ h # 0
  BY PoolAssumption DEF Nil, Node, Handle
<1> HIDE DEF w
<1>3. 0 \in T
  BY <1>1, <1>2 DEF Links, Owners
<1>4. ASSUME NEW k \in T, k < Size PROVE k + 1 \in T
  <2>1. k \in 0..Size /\ k + 1 \in 0..Size /\ (k + 1) - 1 = k /\ k + 1 # 0 /\ Meets(k)
    BY <1>2, <1>4
  <2>2. w[k + 1] = IF w[k] = Nil THEN Nil ELSE nxt[w[k]]
    BY <1>1, <2>1
  <2>3. Meets(k + 1)
    BY <1>2, <2>1, <2>2 DEF Links, Owners
  <2> QED BY <2>1, <2>3
<1>5. T \in SUBSET Nat
  OBVIOUS
<1>6. \A k \in 0..Size : Meets(k)
  <2>1. \A k \in 0..Size : k \in T
    <3> HIDE DEF T
    <3> QED BY <1>2, <1>3, <1>4, <1>5, Induct
  <2> QED BY <2>1
<1> DEFINE U == {k \in 0..Size : \A n \in Node : own[n] = h /\ rank[n] = k => w[k] = n}
<1>7. 0 \in U
  BY <1>1, <1>2 DEF Owners
<1>8. ASSUME NEW k \in U, k < Size PROVE k + 1 \in U
  <2>1. k \in 0..Size /\ k + 1 \in 0..Size /\ (k + 1) - 1 = k /\ k + 1 # 0
    BY <1>2, <1>8
  <2>2. ASSUME NEW n \in Node, own[n] = h, rank[n] = k + 1 PROVE w[k + 1] = n
    <3>1. PICK m \in Node : own[m] = own[n] /\ rank[m] + 1 = rank[n] /\ nxt[m] = n
      BY <1>2, <2>1, <2>2 DEF Owners
    <3>2. rank[m] = k
      BY <2>1, <2>2, <3>1 DEF Owners
    <3>3. w[k] = m
      BY <2>2, <3>1, <3>2
    <3> QED BY <1>1, <1>2, <2>1, <3>1, <3>3
  <2> QED BY <2>1, <2>2
<1>9. ASSUME NEW n \in Node, own[n] = h PROVE w[rank[n]] = n
  <2>1. rank[n] \in 0..Size
    BY <1>2, <1>9, PlacesBound DEF Owners
  <2>2. rank[n] \in U
    <3>1. U \in SUBSET Nat
      OBVIOUS
    <3> HIDE DEF U
    <3> QED BY <1>2, <1>7, <1>8, <2>1, <3>1, Induct
  <2> QED BY <1>9, <2>2
<1> QED BY <1>6, <1>9 DEF w

\* The nodes a list is walked through are those it owns.
LEMMA ChainOwns ==
    ASSUME NEW fn, NEW nxt, NEW r, NEW own, NEW rank,
           Links(fn, nxt, r), Owners(fn, nxt, r, own, rank), NEW h \in Handle,
           NEW p, p.next = nxt
    PROVE  Chain(p, r[h]) = {n \in Node : own[n] = h}
<1>1. Size \in Nat /\ Nil \notin Node /\ h # 0
  BY PoolAssumption DEF Nil, Node, Handle
<1>2. ASSUME NEW n \in Node, own[n] = h PROVE rank[n] \in 0..Size
  BY <1>1, <1>2, PlacesBound DEF Owners
<1> QED BY <1>1, <1>2, WalkMeets DEF Chain

-----------------------------------------------------------------------------
(* Lists that change. *)

RankOut(own, rank, n) ==
    [k \in Node |-> IF own[k] = own[n] /\ rank[k] > rank[n] THEN rank[k] - 1 ELSE rank[k]]
NextOut(own, nxt, n) ==
    [k \in Node |-> IF k = n THEN Nil
                    ELSE IF own[k] = own[n] /\ nxt[k] = n THEN nxt[n] ELSE nxt[k]]
RootOut(own, nxt, r, n) == [r EXCEPT ![own[n]] = IF @ = n THEN nxt[n] ELSE @]

\* A node leaves its list and is free.
LEMMA OwnersOut ==
    ASSUME NEW fn, NEW nxt, NEW r, NEW own, NEW rank,
           Links(fn, nxt, r), Owners(fn, nxt, r, own, rank), NEW n \in Node, own[n] # 0
    PROVE  LET fn2 == [fn EXCEPT ![n] = NoFn]
               nxt2 == NextOut(own, nxt, n)
               r2 == RootOut(own, nxt, r, n)
           IN  /\ Links(fn2, nxt2, r2)
               /\ Owners(fn2, nxt2, r2, [own EXCEPT ![n] = 0], RankOut(own, rank, n))
<1> DEFINE fn2 == [fn EXCEPT ![n] = NoFn]
           nxt2 == NextOut(own, nxt, n)
           r2 == RootOut(own, nxt, r, n)
           own2 == [own EXCEPT ![n] = 0]
           rank2 == RankOut(own, rank, n)
<1>1. own \in [Node -> Handle \cup {0}] /\ rank \in [Node -> Nat]
  BY DEF Owners
<1>2. Nil \notin Node /\ 0 \notin Handle /\ own[n] \in Handle
  BY <1>1 DEF Nil, Node, Handle
<1>3. Links(fn2, nxt2, r2)
  BY <1>1, <1>2 DEF Links, NextOut, RootOut
<1>4. own2 \in [Node -> Handle \cup {0}] /\ rank2 \in [Node -> Nat]
  BY <1>1 DEF RankOut
<1>5. \A k \in Node : fn2[k] = NoFn <=> own2[k] = 0
  BY <1>1 DEF Owners, Links
<1>6. \A k \in Node : k # n /\ own[k] = own[n] => rank[k] # rank[n]
  BY OnePlace, <1>2
<1>7. \A k \in Node : /\ k # n => own2[k] = own[k]
                      /\ own2[k] = IF k = n THEN 0 ELSE own[k]
                      /\ rank2[k] = IF own[k] = own[n] /\ rank[k] > rank[n] THEN rank[k] - 1
                                    ELSE rank[k]
                      /\ nxt2[k] = IF k = n THEN Nil
                                   ELSE IF own[k] = own[n] /\ nxt[k] = n THEN nxt[n] ELSE nxt[k]
  BY <1>1 DEF RankOut, NextOut
<1>8. \A h \in Handle : r2[h] = IF h = own[n] /\ r[h] = n THEN nxt[n] ELSE r[h]
  BY <1>2 DEF RootOut, Links
<1> HIDE DEF own2, rank2, nxt2, r2, fn2
<1>9. \A h \in Handle : r2[h] # Nil => own2[r2[h]] = h /\ rank2[r2[h]] = 0
  <2> SUFFICES ASSUME NEW h \in Handle, r2[h] # Nil PROVE own2[r2[h]] = h /\ rank2[r2[h]] = 0
    OBVIOUS
  <2>1. CASE h = own[n] /\ r[h] = n
    <3>1. r2[h] = nxt[n] /\ nxt[n] \in Node /\ own[nxt[n]] = h /\ rank[nxt[n]] = rank[n] + 1
      BY <1>2, <1>8, <2>1 DEF Links, Owners
    <3>2. rank[n] = 0 /\ nxt[n] # n
      BY <1>2, <2>1, <3>1 DEF Owners
    <3> QED BY <1>7, <2>1, <3>1, <3>2
  <2>2. CASE ~(h = own[n] /\ r[h] = n)
    <3>1. r2[h] = r[h] /\ r[h] \in Node /\ own[r[h]] = h /\ rank[r[h]] = 0
      BY <1>8, <2>2 DEF Links, Owners
    <3>2. r[h] # n
      BY <2>2, <3>1
    <3> QED BY <1>1, <1>7, <3>1, <3>2
  <2> QED BY <2>1, <2>2
<1>10. \A k \in Node : own2[k] # 0 /\ nxt2[k] # Nil =>
                          own2[nxt2[k]] = own2[k] /\ rank2[nxt2[k]] = rank2[k] + 1
  <2> SUFFICES ASSUME NEW k \in Node, own2[k] # 0, nxt2[k] # Nil
               PROVE  own2[nxt2[k]] = own2[k] /\ rank2[nxt2[k]] = rank2[k] + 1
    OBVIOUS
  <2>1. k # n /\ own2[k] = own[k] /\ own[k] # 0
    BY <1>7
  <2>2. nxt[k] # Nil
    BY <1>2, <1>7, <2>1
  <2>3. nxt[k] \in Node /\ own[nxt[k]] = own[k] /\ rank[nxt[k]] = rank[k] + 1
    BY <2>1, <2>2 DEF Links, Owners
  <2>4. CASE own[k] = own[n] /\ nxt[k] = n
    <3>1. nxt2[k] = nxt[n] /\ nxt[n] \in Node
      BY <1>7, <2>1, <2>4 DEF Links
    <3>2. own[nxt[n]] = own[n] /\ rank[nxt[n]] = rank[n] + 1 /\ nxt[n] # n
      BY <1>1, <3>1 DEF Owners
    <3> QED BY <1>1, <1>7, <2>1, <2>3, <2>4, <3>1, <3>2
  <2>5. CASE own[k] # own[n]
    BY <1>7, <2>1, <2>3, <2>5
  <2>6. CASE own[k] = own[n] /\ nxt[k] # n
    <3>1. rank[k] # rank[n] /\ rank[nxt[k]] # rank[n]
      BY <1>6, <2>1, <2>3, <2>6
    <3>2. rank[k] \in Nat /\ rank[n] \in Nat
      BY <1>1
    <3> QED BY <1>7, <2>1, <2>3, <2>6, <3>1, <3>2
  <2> QED BY <2>4, <2>5, <2>6
<1>11. \A k \in Node : own2[k] # 0 /\ rank2[k] = 0 => r2[own2[k]] = k
  <2> SUFFICES ASSUME NEW k \in Node, own2[k] # 0, rank2[k] = 0 PROVE r2[own2[k]] = k
    OBVIOUS
  <2>1. k # n /\ own2[k] = own[k] /\ own[k] # 0 /\ own[k] \in Handle
    BY <1>1, <1>7
  <2>2. CASE own[k] = own[n] /\ rank[k] > rank[n]
    <3>1. rank[k] = 1 /\ rank[n] = 0
      BY <1>1, <1>7, <2>2
    <3>2. PICK m \in Node : own[m] = own[k] /\ rank[m] + 1 = rank[k] /\ nxt[m] = k
      BY <2>1, <3>1 DEF Owners
    <3>3. rank[m] = rank[n]
      BY <1>1, <3>1, <3>2
    <3>4. m = n
      BY <1>6, <2>2, <3>2, <3>3
    <3>5. r[own[n]] = n
      BY <3>1 DEF Owners
    <3> QED BY <1>8, <2>1, <2>2, <3>2, <3>4, <3>5
  <2>3. CASE ~(own[k] = own[n] /\ rank[k] > rank[n])
    <3>1. rank[k] = 0
      BY <1>7, <2>3
    <3>2. r[own[k]] = k
      BY <2>1, <3>1 DEF Owners
    <3> QED BY <1>8, <2>1, <3>2
  <2> QED BY <2>2, <2>3
<1>12. \A k \in Node : own2[k] # 0 /\ rank2[k] # 0 =>
                          \E m \in Node : /\ own2[m] = own2[k] /\ rank2[m] + 1 = rank2[k]
                                          /\ nxt2[m] = k
  <2> SUFFICES ASSUME NEW k \in Node, own2[k] # 0, rank2[k] # 0
               PROVE  \E m \in Node : /\ own2[m] = own2[k] /\ rank2[m] + 1 = rank2[k]
                                      /\ nxt2[m] = k
    OBVIOUS
  <2>1. k # n /\ own2[k] = own[k] /\ own[k] # 0 /\ rank[k] \in Nat /\ rank[n] \in Nat
    BY <1>1, <1>7
  <2>2. rank[k] # 0
    BY <1>7, <2>1
  <2>3. PICK m \in Node : own[m] = own[k] /\ rank[m] + 1 = rank[k] /\ nxt[m] = k
    BY <2>1, <2>2 DEF Owners
  <2>4. CASE m = n
    <3>1. rank[n] # 0
      BY <1>1, <1>7, <2>1, <2>3, <2>4
    <3>2. PICK a \in Node : own[a] = own[n] /\ rank[a] + 1 = rank[n] /\ nxt[a] = n
      BY <3>1 DEF Owners
    <3>3. a # n /\ rank[a] \in Nat
      BY <1>1, <3>2
    <3> QED BY <1>7, <2>1, <2>3, <2>4, <3>2, <3>3
  <2>5. CASE m # n
    <3>1. rank[m] \in Nat /\ own2[m] = own2[k] /\ nxt2[m] = k
      BY <1>1, <1>7, <2>1, <2>3, <2>5
    <3>2. own[k] = own[n] => rank[m] # rank[n] /\ rank[k] # rank[n]
      BY <1>6, <2>1, <2>3, <2>5
    <3>3. rank2[m] + 1 = rank2[k]
      BY <1>7, <2>1, <2>3, <3>1, <3>2
    <3> QED BY <3>1, <3>3
  <2> QED BY <2>4, <2>5
<1>13. Owners(fn2, nxt2, r2, own2, rank2)
  BY <1>4, <1>5, <1>9, <1>10, <1>11, <1>12 DEF Owners
<1> QED BY <1>3, <1>13 DEF fn2, nxt2, r2, own2, rank2

PlaceIn(rank, m) == IF m = Nil THEN 0 ELSE rank[m] + 1
RankIn(own, rank, h, n, m) ==
    [k \in Node |-> IF k = n THEN PlaceIn(rank, m)
                    ELSE IF own[k] = h /\ rank[k] >= PlaceIn(rank, m) THEN rank[k] + 1
                    ELSE rank[k]]
NextIn(nxt, r, h, n, m) ==
    IF m = Nil THEN [nxt EXCEPT ![n] = r[h]] ELSE [nxt EXCEPT ![n] = nxt[m], ![m] = n]
RootIn(r, h, n, m) == IF m = Nil THEN [r EXCEPT ![h] = n] ELSE r

\* A free node enters a list, behind m or in front.
LEMMA OwnersIn ==
    ASSUME NEW fn, NEW nxt, NEW r, NEW own, NEW rank,
           Links(fn, nxt, r), Owners(fn, nxt, r, own, rank),
           NEW n \in Node, own[n] = 0, NEW f \in Task, NEW h \in Handle,
           NEW m \in Node \cup {Nil}, m # Nil => own[m] = h
    PROVE  LET fn2 == [fn EXCEPT ![n] = f]
               nxt2 == NextIn(nxt, r, h, n, m)
               r2 == RootIn(r, h, n, m)
           IN  /\ Links(fn2, nxt2, r2)
               /\ Owners(fn2, nxt2, r2, [own EXCEPT ![n] = h], RankIn(own, rank, h, n, m))
<1> DEFINE fn2 == [fn EXCEPT ![n] = f]
           nxt2 == NextIn(nxt, r, h, n, m)
           r2 == RootIn(r, h, n, m)
           own2 == [own EXCEPT ![n] = h]
           rank2 == RankIn(own, rank, h, n, m)
           v == PlaceIn(rank, m)
<1>1. own \in [Node -> Handle \cup {0}] /\ rank \in [Node -> Nat]
  BY DEF Owners
<1>2. Nil \notin Node /\ 0 \notin Handle /\ h # 0 /\ f # NoFn /\ m # n
  BY PoolAssumption DEF Nil, Node, Handle
<1>3. Links(fn2, nxt2, r2)
  BY <1>2 DEF Links, NextIn, RootIn
<1>4. v \in Nat /\ (m = Nil => v = 0) /\ (m # Nil => v = rank[m] + 1 /\ own[m] = h /\ m \in Node)
  BY <1>1 DEF PlaceIn
<1>5. own2 \in [Node -> Handle \cup {0}] /\ rank2 \in [Node -> Nat]
  BY <1>1, <1>4 DEF RankIn
<1>6. \A k \in Node : fn2[k] = NoFn <=> own2[k] = 0
  BY <1>1, <1>2 DEF Owners, Links
<1>7. \A k \in Node : /\ own2[k] = IF k = n THEN h ELSE own[k]
                      /\ rank2[k] = IF k = n THEN v
                                    ELSE IF own[k] = h /\ rank[k] >= v THEN rank[k] + 1
                                    ELSE rank[k]
                      /\ nxt2[k] = IF k = n THEN (IF m = Nil THEN r[h] ELSE nxt[m])
                                   ELSE IF k = m THEN n ELSE nxt[k]
  BY <1>1, <1>2 DEF RankIn, NextIn, Links
<1>8. \A g \in Handle : r2[g] = IF g = h /\ m = Nil THEN n ELSE r[g]
  BY DEF RootIn, Links
<1>9. \A k \in Node : own[k] # 0 => k # n /\ own2[k] = own[k]
  BY <1>7
<1> HIDE DEF own2, rank2, nxt2, r2, fn2, v
<1>10. \A g \in Handle : r2[g] # Nil => own2[r2[g]] = g /\ rank2[r2[g]] = 0
  <2> SUFFICES ASSUME NEW g \in Handle, r2[g] # Nil PROVE own2[r2[g]] = g /\ rank2[r2[g]] = 0
    OBVIOUS
  <2>1. CASE g = h /\ m = Nil
    BY <1>4, <1>7, <1>8, <2>1
  <2>2. CASE ~(g = h /\ m = Nil)
    <3>1. r2[g] = r[g] /\ r[g] \in Node /\ own[r[g]] = g /\ rank[r[g]] = 0 /\ own[r[g]] # 0
      BY <1>2, <1>8, <2>2 DEF Links, Owners
    <3>2. g = h => ~(0 >= v)
      BY <1>1, <1>4, <2>2
    <3> QED BY <1>7, <1>9, <3>1, <3>2
  <2> QED BY <2>1, <2>2
<1>11. \A k \in Node : own2[k] # 0 /\ nxt2[k] # Nil =>
                          own2[nxt2[k]] = own2[k] /\ rank2[nxt2[k]] = rank2[k] + 1
  <2> SUFFICES ASSUME NEW k \in Node, own2[k] # 0, nxt2[k] # Nil
               PROVE  own2[nxt2[k]] = own2[k] /\ rank2[nxt2[k]] = rank2[k] + 1
    OBVIOUS
  <2>1. CASE k = n /\ m = Nil
    <3>1. nxt2[k] = r[h] /\ own2[k] = h /\ rank2[k] = 0 /\ v = 0
      BY <1>4, <1>7, <2>1
    <3>2. r[h] \in Node /\ own[r[h]] = h /\ rank[r[h]] = 0
      BY <3>1 DEF Links, Owners
    <3> QED BY <1>2, <1>7, <1>9, <3>1, <3>2
  <2>2. CASE k = n /\ m # Nil
    <3>1. nxt2[k] = nxt[m] /\ own2[k] = h /\ rank2[k] = rank[m] + 1 /\ v = rank[m] + 1
      BY <1>4, <1>7, <2>2
    <3>2. nxt[m] \in Node /\ own[nxt[m]] = h /\ rank[nxt[m]] = rank[m] + 1
      BY <1>2, <1>4, <2>2, <3>1 DEF Links, Owners
    <3> QED BY <1>1, <1>2, <1>4, <1>7, <1>9, <2>2, <3>1, <3>2
  <2>3. CASE k = m
    <3>1. nxt2[k] = n /\ own2[k] = h /\ rank2[k] = rank[m] /\ v = rank[m] + 1
      BY <1>1, <1>2, <1>4, <1>7, <2>3
    <3> QED BY <1>7, <2>3, <3>1
  <2>4. CASE k # n /\ k # m
    <3>1. nxt2[k] = nxt[k] /\ own2[k] = own[k] /\ nxt[k] \in Node
      BY <1>7, <2>4 DEF Links
    <3>2. own[nxt[k]] = own[k] /\ rank[nxt[k]] = rank[k] + 1 /\ own[k] # 0
      BY <3>1 DEF Owners
    <3>3. own2[nxt2[k]] = own2[k] /\ nxt[k] # n
      BY <1>9, <3>1, <3>2
    <3>4. own[k] = h /\ m # Nil => rank[k] # rank[m]
      BY <1>2, <1>4, <2>4, OnePlace
    <3>5. rank[k] \in Nat
      BY <1>1
    <3>6. own[k] = h => rank[k] + 1 # v
      BY <1>1, <1>4, <3>4, <3>5
    <3>7. rank2[nxt2[k]] = rank2[k] + 1
      <4>1. CASE own[k] # h
        BY <1>7, <2>4, <3>1, <3>2, <3>3, <4>1
      <4>2. CASE own[k] = h
        BY <1>4, <1>7, <2>4, <3>1, <3>2, <3>3, <3>5, <3>6, <4>2
      <4> QED BY <4>1, <4>2
    <3> QED BY <3>3, <3>7
  <2> QED BY <2>1, <2>2, <2>3, <2>4
<1>12. \A k \in Node : own2[k] # 0 /\ rank2[k] = 0 => r2[own2[k]] = k
  <2> SUFFICES ASSUME NEW k \in Node, own2[k] # 0, rank2[k] = 0 PROVE r2[own2[k]] = k
    OBVIOUS
  <2>1. CASE k = n
    <3>1. v = 0 /\ own2[k] = h
      BY <1>7, <2>1
    <3>2. m = Nil
      BY <1>1, <1>4, <3>1
    <3> QED BY <1>8, <2>1, <3>1, <3>2
  <2>2. CASE k # n
    <3>1. own2[k] = own[k] /\ own[k] # 0 /\ own[k] \in Handle /\ rank[k] \in Nat
      BY <1>1, <1>7, <2>2
    <3>2. rank[k] = 0 /\ ~(own[k] = h /\ rank[k] >= v)
      BY <1>7, <2>2, <3>1
    <3>3. r[own[k]] = k
      BY <3>1, <3>2 DEF Owners
    <3>4. ~(own[k] = h /\ m = Nil)
      BY <1>4, <3>2
    <3> QED BY <1>8, <3>1, <3>3, <3>4
  <2> QED BY <2>1, <2>2
<1>13. \A k \in Node : own2[k] # 0 /\ rank2[k] # 0 =>
                          \E a \in Node : /\ own2[a] = own2[k] /\ rank2[a] + 1 = rank2[k]
                                          /\ nxt2[a] = k
  <2> SUFFICES ASSUME NEW k \in Node, own2[k] # 0, rank2[k] # 0
               PROVE  \E a \in Node : /\ own2[a] = own2[k] /\ rank2[a] + 1 = rank2[k]
                                      /\ nxt2[a] = k
    OBVIOUS
  <2>1. CASE k = n
    <3>1. m # Nil /\ rank2[k] = v /\ own2[k] = h
      BY <1>4, <1>7, <2>1
    <3>2. m \in Node /\ own2[m] = h /\ rank2[m] = rank[m] /\ v = rank[m] + 1 /\ nxt2[m] = n
      BY <1>1, <1>2, <1>4, <1>7, <3>1
    <3> QED BY <2>1, <3>1, <3>2
  <2>2. CASE k # n /\ own[k] = h /\ rank[k] = v
    <3>1. own2[k] = h /\ rank2[k] = v + 1 /\ own2[n] = h /\ rank2[n] = v
      BY <1>4, <1>7, <2>2
    <3>2. nxt2[n] = k
      <4>1. CASE m = Nil
        BY <1>2, <1>4, <1>7, <2>2, <4>1 DEF Owners
      <4>2. CASE m # Nil
        <5>1. rank[k] # 0
          BY <1>1, <1>4, <2>2, <4>2
        <5>2. PICK a \in Node : own[a] = own[k] /\ rank[a] + 1 = rank[k] /\ nxt[a] = k
          BY <1>2, <2>2, <5>1 DEF Owners
        <5>3. rank[a] = rank[m]
          BY <1>1, <1>4, <2>2, <4>2, <5>2
        <5>4. a = m
          BY <1>2, <1>4, <2>2, <4>2, <5>2, <5>3, OnePlace
        <5> QED BY <1>7, <4>2, <5>2, <5>4
      <4> QED BY <4>1, <4>2
    <3> QED BY <1>4, <3>1, <3>2
  <2>3. CASE k # n /\ ~(own[k] = h /\ rank[k] = v)
    <3>1. own2[k] = own[k] /\ own[k] # 0 /\ rank[k] \in Nat
      BY <1>1, <1>7, <2>3
    <3>2. rank[k] # 0
      BY <1>4, <1>7, <2>3, <3>1
    <3>3. PICK a \in Node : own[a] = own[k] /\ rank[a] + 1 = rank[k] /\ nxt[a] = k
      BY <3>1, <3>2 DEF Owners
    <3>4. a # n /\ own2[a] = own2[k] /\ rank[a] \in Nat
      BY <1>1, <1>9, <3>1, <3>3
    <3>5. a # m
      BY <1>2, <1>4, <2>3, <3>3
    <3>6. nxt2[a] = k
      BY <1>7, <3>3, <3>4, <3>5
    <3>7. rank2[a] + 1 = rank2[k]
      <4>1. CASE own[k] # h
        BY <1>7, <2>3, <3>3, <3>4, <4>1
      <4>2. CASE own[k] = h
        BY <1>4, <1>7, <2>3, <3>1, <3>3, <3>4, <4>2
      <4> QED BY <4>1, <4>2
    <3> QED BY <3>4, <3>6, <3>7
  <2> QED BY <2>1, <2>2, <2>3
<1>14. Owners(fn2, nxt2, r2, own2, rank2)
  BY <1>5, <1>6, <1>10, <1>11, <1>12, <1>13 DEF Owners
<1> QED BY <1>3, <1>14 DEF fn2, nxt2, r2, own2, rank2

\* A handle without a first node owns nothing.
LEMMA NilOwnsNothing ==
    ASSUME NEW fn, NEW nxt, NEW r, NEW own, NEW rank, Owners(fn, nxt, r, own, rank),
           NEW h \in Handle, r[h] = Nil
    PROVE  \A n \in Node : own[n] # h
<1> SUFFICES ASSUME NEW n \in Node, own[n] = h PROVE FALSE
  OBVIOUS
<1>1. h # 0 /\ rank[n] \in Nat /\ Nil \notin Node
  BY DEF Handle, Owners, Nil, Node
<1>2. PICK m \in Node : own[m] = h /\ rank[m] = 0
  BY <1>1, PlacesBefore
<1> QED BY <1>1, <1>2 DEF Owners

\* A list is detached as a whole: handle h takes over what g had.
Moved(fn, nxt, r, own, rank, g, h) ==
    LET r2 == [r EXCEPT ![g] = Nil, ![h] = r[g]]
    IN  /\ Links(fn, nxt, r2)
        /\ Owners(fn, nxt, r2, [n \in Node |-> IF own[n] = g THEN h ELSE own[n]], rank)

LEMMA OwnersMove ==
    ASSUME NEW fn, NEW nxt, NEW r, NEW own, NEW rank,
           Links(fn, nxt, r), Owners(fn, nxt, r, own, rank),
           NEW g \in Handle, NEW h \in Handle, g # h, r[h] = Nil
    PROVE  Moved(fn, nxt, r, own, rank, g, h)
<1> DEFINE r2 == [r EXCEPT ![g] = Nil, ![h] = r[g]]
           own2 == [n \in Node |-> IF own[n] = g THEN h ELSE own[n]]
<1>1. \A n \in Node : own[n] # h
  BY NilOwnsNothing
<1>2. g # 0 /\ h # 0 /\ own \in [Node -> Handle \cup {0}]
  BY DEF Handle, Owners
<1>3. Links(fn, nxt, r2)
  BY DEF Links
<1>4. \A k \in Handle : r2[k] = IF k = g THEN Nil ELSE IF k = h THEN r[g] ELSE r[k]
  BY DEF Links
<1>5. \A n \in Node : own2[n] = IF own[n] = g THEN h ELSE own[n]
  OBVIOUS
<1>6. own2 \in [Node -> Handle \cup {0}]
  BY <1>2
<1> HIDE DEF own2, r2
<1>7. \A k \in Handle : r2[k] # Nil => own2[r2[k]] = k /\ rank[r2[k]] = 0
  BY <1>4, <1>5 DEF Owners, Links
<1>8. \A n \in Node : own2[n] # 0 /\ rank[n] = 0 => r2[own2[n]] = n
  BY <1>1, <1>2, <1>4, <1>5 DEF Owners
<1>9. Owners(fn, nxt, r2, own2, rank)
  BY <1>1, <1>2, <1>5, <1>6, <1>7, <1>8 DEF Owners, Links
<1> QED BY <1>3, <1>9 DEF own2, r2, Moved

-----------------------------------------------------------------------------
(* The counter wraps: times are compared by how far they are from the last *)
(* tick, and all those in the delayed list are less than half a period     *)
(* from it.                                                                *)

Half == Period \div 2
Off(t, c) == (t + 1 + Period - c) % Period

LEMMA ModOnce ==
    \A x \in Nat : x < Period + Period => x % Period = IF x < Period THEN x ELSE x - Period
<1>1. Period \in Nat \ {0}
  BY PoolAssumption
<1> QED BY <1>1

LEMMA OffIs ==
    ASSUME NEW t \in Times, NEW c \in Times
    PROVE  /\ Off(t, c) \in Times
           /\ Off(t, c) = IF t + 1 - c >= Period THEN t + 1 - c - Period
                          ELSE IF t + 1 >= c THEN t + 1 - c ELSE t + 1 + Period - c
<1>1. Period \in Nat \ {0} /\ t \in 0..(Period - 1) /\ c \in 0..(Period - 1)
  BY PoolAssumption DEF Times
<1>2. CASE t + 1 + Period - c < Period + Period
  BY <1>1, <1>2, ModOnce DEF Off, Times
<1>3. CASE ~(t + 1 + Period - c < Period + Period)
  <2>1. t + 1 + Period - c = 2 * Period
    BY <1>1, <1>3
  <2>2. (2 * Period) % Period = 0
    BY <1>1
  <2> QED BY <1>1, <2>1, <2>2 DEF Off, Times
<1> QED BY <1>2, <1>3

LEMMA NotAfterIs ==
    ASSUME NEW a \in Times, NEW b \in Times
    PROVE  NotAfter(a, b) <=> \/ a = b
                              \/ a > b /\ a - b >= Half
                              \/ a < b /\ a + Period - b >= Half
<1>1. Period \in Nat \ {0} /\ a \in 0..(Period - 1) /\ b \in 0..(Period - 1)
  BY PoolAssumption DEF Times
<1>2. a + Period - b \in Nat /\ a + Period - b < Period + Period
  BY <1>1
<1>3. (a + Period - b) % Period = IF a + Period - b < Period THEN a + Period - b
                                  ELSE a + Period - b - Period
  BY <1>1, <1>2, ModOnce
<1> QED BY <1>1, <1>3 DEF NotAfter, Half

LEMMA HalfIs == Half \in Nat /\ Half + Half <= Period /\ Period <= Half + Half + 1
BY PoolAssumption DEF Half

\* NotAfter orders times that are not too far apart.
LEMMA NotAfterOrders ==
    ASSUME NEW a \in Times, NEW b \in Times, NEW c \in Times, Off(a, c) < Half, Off(b, c) < Half
    PROVE  NotAfter(a, b) <=> Off(a, c) <= Off(b, c)
<1> DEFINE x == Off(a, c)
           y == Off(b, c)
           H == Half
<1>1. Period \in Nat \ {0} /\ a \in 0..(Period - 1) /\ b \in 0..(Period - 1) /\ c \in 0..(Period - 1)
  BY PoolAssumption DEF Times
<1>2. /\ x = IF a + 1 - c >= Period THEN a + 1 - c - Period
             ELSE IF a + 1 >= c THEN a + 1 - c ELSE a + 1 + Period - c
      /\ y = IF b + 1 - c >= Period THEN b + 1 - c - Period
             ELSE IF b + 1 >= c THEN b + 1 - c ELSE b + 1 + Period - c
  BY OffIs
<1>3. NotAfter(a, b) <=> \/ a = b
                         \/ a > b /\ a - b >= H
                         \/ a < b /\ a + Period - b >= H
  BY NotAfterIs
<1>4. H \in Nat /\ H + H <= Period /\ Period <= H + H + 1
  BY HalfIs
<1>5. x \in Nat /\ y \in Nat /\ x < H /\ y < H
  BY <1>1, OffIs DEF Times
<1> HIDE DEF x, y, H
<1>6. ASSUME a = b PROVE NotAfter(a, b) <=> x <= y
  BY <1>1, <1>2, <1>3, <1>6
<1>7. ASSUME a < b PROVE NotAfter(a, b) <=> x <= y
  BY <1>1, <1>2, <1>3, <1>4, <1>5, <1>7
<1>8. ASSUME a > b PROVE NotAfter(a, b) <=> x <= y
  BY <1>1, <1>2, <1>3, <1>4, <1>5, <1>8
<1>9. NotAfter(a, b) <=> x <= y
  BY <1>1, <1>6, <1>7, <1>8
<1> QED BY <1>9 DEF x, y

\* A delay ends less than half a period from now.
LEMMA OffNow ==
    ASSUME NEW c \in Times, NEW d \in Delays
    PROVE  /\ (c + d) % Period \in Times
           /\ Off((c + d) % Period, c) < Half /\ 1 < Half
<1> DEFINE t == (c + d) % Period
           H == Half
<1>1. Period \in Nat \ {0} /\ c \in 0..(Period - 1) /\ d \in Nat /\ d + 1 < H
  BY PoolAssumption DEF Times, Half
<1>2. H \in Nat /\ H + H <= Period
  BY HalfIs
<1>3. c + d < Period + Period /\ c + d \in Nat
  BY <1>1, <1>2
<1>4. t = IF c + d < Period THEN c + d ELSE c + d - Period
  BY <1>1, <1>3, ModOnce
<1> HIDE DEF t, H
<1>5. t \in Times
  BY <1>1, <1>2, <1>4 DEF Times
<1>6. Off(t, c) = IF t + 1 - c >= Period THEN t + 1 - c - Period
                  ELSE IF t + 1 >= c THEN t + 1 - c ELSE t + 1 + Period - c
  BY <1>5, OffIs
<1>7. Off(t, c) < H
  BY <1>1, <1>2, <1>4, <1>6
<1>8. 1 < H
  BY <1>1, <1>2
<1> QED BY <1>5, <1>7, <1>8 DEF t, H

\* A tick brings what is not overdue nearer.
LEMMA OffTick ==
    ASSUME NEW t \in Times, NEW c \in Times, Off(t, c) < Half, 1 < Half, ~Before(t, c)
    PROVE  Off(t, (c + 1) % Period) + 1 = Off(t, c)
<1> DEFINE e == (c + 1) % Period
           H == Half
           x == Off(t, c)
           y == Off(t, e)
<1>1. Period \in Nat \ {0} /\ t \in 0..(Period - 1) /\ c \in 0..(Period - 1) /\ c + 1 < Period + Period
  BY PoolAssumption, HalfIs DEF Times
<1>2. e = IF c + 1 < Period THEN c + 1 ELSE c + 1 - Period
  BY <1>1, ModOnce
<1>3. H \in Nat /\ H + H <= Period /\ Period <= H + H + 1 /\ 1 < H
  BY HalfIs
<1> HIDE DEF e, H
<1>4. e \in Times
  BY <1>1, <1>2 DEF Times
<1>5. /\ x = IF t + 1 - c >= Period THEN t + 1 - c - Period
             ELSE IF t + 1 >= c THEN t + 1 - c ELSE t + 1 + Period - c
      /\ y = IF t + 1 - e >= Period THEN t + 1 - e - Period
             ELSE IF t + 1 >= e THEN t + 1 - e ELSE t + 1 + Period - e
  BY <1>4, OffIs
<1>6. t = c \/ ~(\/ t > c /\ t - c >= H
                 \/ t < c /\ t + Period - c >= H)
  BY NotAfterIs DEF Before, H
<1>7. x < H
  BY DEF H
<1> HIDE DEF x, y
<1>8. y + 1 = x
  BY <1>1, <1>2, <1>3, <1>5, <1>6, <1>7
<1> QED BY <1>8 DEF x, y, e

-----------------------------------------------------------------------------
(* A pool in order: every node in use is in one list, what last_freed      *)
(* offers is free, and the delayed list is sorted.                         *)

Pools == [fn : [Node -> Task \cup {NoFn}], next : [Node -> Node \cup {Nil}],
          time : [Node -> Times], head : [Lists -> Node \cup {Nil}],
          last_freed : Node \cup {Nil}]

\* the handles of the five lists; those of detached lists are 1..MaxDepth
Code(l) == CASE l = "immediate" -> -1 [] l = "delayed" -> -2 [] l = "systick" -> -3
             [] l = "booted" -> -4 [] l = "reset" -> -5

InTime(p, c, own) ==
    \A n \in Node : own[n] = -2 =>
        /\ 1 < Half /\ Off(p.time[n], c) < Half
        /\ p.next[n] # Nil => Off(p.time[n], c) <= Off(p.time[p.next[n]], c)

PoolOK(p, c, r, own, rank) ==
    /\ p \in Pools /\ c \in Times /\ r \in [Handle -> Node \cup {Nil}]
    /\ Owners(p.fn, p.next, r, own, rank)
    /\ p.last_freed # Nil => p.fn[p.last_freed] = NoFn
    /\ InTime(p, c, own)

LEMMA NilIs == Nil = 0 /\ Nil \notin Node /\ Size \in Nat /\ Size >= 1 /\ NoFn \notin Task /\ 0 \notin Handle
BY PoolAssumption DEF Nil, Node, Handle

LEMMA CodeIs ==
    /\ Code("immediate") = -1 /\ Code("delayed") = -2 /\ Code("systick") = -3
    /\ Code("booted") = -4 /\ Code("reset") = -5
    /\ \A l \in Lists : Code(l) \in Handle /\ Code(l) \in -5..-1
    /\ \A l, m \in Lists : Code(l) = Code(m) => l = m
    /\ \A l \in Lists : Code(l) = -2 <=> l = "delayed"
<1>1. /\ Code("immediate") = -1 /\ Code("delayed") = -2 /\ Code("systick") = -3
      /\ Code("booted") = -4 /\ Code("reset") = -5
  BY DEF Code
<1> QED BY <1>1, PoolAssumption DEF Lists, Handle

LEMMA PoolLinks ==
    ASSUME NEW p, NEW c, NEW r, NEW own, NEW rank, PoolOK(p, c, r, own, rank)
    PROVE  /\ Links(p.fn, p.next, r) /\ Owners(p.fn, p.next, r, own, rank)
           /\ own \in [Node -> Handle \cup {0}] /\ rank \in [Node -> Nat]
BY DEF PoolOK, Links, Pools, Owners

\* What task_alloc returns is free.
LEMMA AllocFree ==
    ASSUME NEW p \in Pools, p.last_freed # Nil => p.fn[p.last_freed] = NoFn, CanAlloc(p)
    PROVE  Alloc(p) \in Node /\ p.fn[Alloc(p)] = NoFn
<1>1. CASE p.last_freed # Nil
  BY <1>1 DEF Alloc, Pools
<1>2. CASE p.last_freed = Nil
  <2> DEFINE T == {Size - n : n \in FreeNodes(p)}
  <2>1. FreeNodes(p) # {} /\ FreeNodes(p) \subseteq Node
    BY <1>2 DEF CanAlloc, FreeNodes
  <2>2. T \in SUBSET Nat /\ T # {}
    BY <2>1, NilIs DEF Node
  <2>3. PICK k \in T : \A j \in T : k <= j
    <3> HIDE DEF T
    <3> QED BY <2>2, Least
  <2>4. PICK n \in FreeNodes(p) : k = Size - n
    OBVIOUS
  <2>5. \A m \in FreeNodes(p) : m <= n
    <3>1. \A m \in FreeNodes(p) : Size - n <= Size - m
      BY <2>3, <2>4
    <3> QED BY <2>1, <3>1, NilIs DEF Node
  <2>6. Alloc(p) \in FreeNodes(p)
    BY <1>2, <2>5 DEF Alloc
  <2> QED BY <2>6 DEF FreeNodes
<1> QED BY <1>1, <1>2

\* The link of a free node does not matter.
LEMMA OwnersFree ==
    ASSUME NEW fn, NEW nxt, NEW r, NEW own, NEW rank,
           Links(fn, nxt, r), Owners(fn, nxt, r, own, rank), NEW n \in Node, own[n] = 0
    PROVE  LET nxt2 == [nxt EXCEPT ![n] = Nil]
           IN  Links(fn, nxt2, r) /\ Owners(fn, nxt2, r, own, rank)
<1> DEFINE nxt2 == [nxt EXCEPT ![n] = Nil]
<1>1. \A k \in Node : k # n => nxt2[k] = nxt[k]
  BY DEF Links
<1>2. Links(fn, nxt2, r)
  BY DEF Links
<1> HIDE DEF nxt2
<1>3. \A k \in Node : own[k] # 0 /\ nxt2[k] # Nil =>
                         own[nxt2[k]] = own[k] /\ rank[nxt2[k]] = rank[k] + 1
  BY <1>1 DEF Owners
<1>4. \A k \in Node : own[k] # 0 /\ rank[k] # 0 =>
                         \E m \in Node : own[m] = own[k] /\ rank[m] + 1 = rank[k] /\ nxt2[m] = k
  <2> SUFFICES ASSUME NEW k \in Node, own[k] # 0, rank[k] # 0
               PROVE \E m \in Node : own[m] = own[k] /\ rank[m] + 1 = rank[k] /\ nxt2[m] = k
    OBVIOUS
  <2>1. PICK m \in Node : own[m] = own[k] /\ rank[m] + 1 = rank[k] /\ nxt[m] = k
    BY DEF Owners
  <2> QED BY <1>1, <2>1
<1>5. Owners(fn, nxt2, r, own, rank)
  BY <1>3, <1>4 DEF Owners
<1> QED BY <1>2, <1>5 DEF nxt2

\* Where the add functions put a node: at the end, or in the delayed list
\* between what is due before it and what is due after it.
LEMMA PredecessorIs ==
    ASSUME NEW q, NEW fn, NEW r, NEW own, NEW rank,
           Links(fn, q.next, r), Owners(fn, q.next, r, own, rank),
           NEW l \in Lists, NEW h \in Handle, q.head[l] = r[h], NEW t
    PROVE  LET m == Predecessor(q, l, t)
           IN  \/ /\ m = Nil
                  /\ r[h] # Nil => l = "delayed" /\ NotAfter(t, q.time[r[h]])
               \/ /\ m \in Node /\ own[m] = h /\ r[h] # Nil
                  /\ q.next[m] # Nil => l = "delayed" /\ Before(t, q.time[q.next[m]])
                  /\ l = "delayed" => ~Before(t, q.time[m])
<1> DEFINE w == Walk(q.next, r[h])
           here(k) == /\ w[k] # Nil
                      /\ \/ q.next[w[k]] = Nil
                         \/ l = "delayed" /\ Before(t, q.time[q.next[w[k]]])
           first(k) == here(k) /\ \A j \in 0..Size : here(j) => k <= j
           front == r[h] = Nil \/ (l = "delayed" /\ NotAfter(t, q.time[r[h]]))
<1>1. Predecessor(q, l, t) = IF front THEN Nil ELSE w[CHOOSE k \in 0..Size : first(k)]
  BY DEF Predecessor
<1>2. CASE front
  BY <1>1, <1>2
<1>3. CASE ~front
  <2>1. /\ \A k \in 0..Size : \/ w[k] = Nil
                              \/ w[k] \in Node /\ own[w[k]] = h /\ rank[w[k]] = k
        /\ \A k \in 0..Size : w[k] = IF k = 0 THEN r[h]
                                     ELSE IF w[k - 1] = Nil THEN Nil ELSE q.next[w[k - 1]]
    BY WalkMeets, WalkIs
  <2> HIDE DEF w
  <2>2. w[Size] = Nil /\ Size \in 0..Size
    <3>1. Size \in 0..Size /\ h # 0
      BY NilIs
    <3>2. \A n \in Node : own[n] = h => rank[n] < Size
      BY <3>1, PlacesBound
    <3> QED BY <2>1, <3>1, <3>2, NilIs
  <2>3. w[0] # Nil /\ 0 \in 0..Size
    BY <1>3, <2>1, NilIs
  <2>4. \E k \in 0..Size : here(k)
    <3> DEFINE T == {k \in 0..Size : w[k] = Nil}
    <3>1. T \in SUBSET Nat /\ T # {}
      BY <2>2
    <3>2. PICK k \in T : \A j \in T : k <= j
      <4> HIDE DEF T
      <4> QED BY <3>1, Least
    <3>3. k # 0 /\ k \in 0..Size /\ k - 1 \in 0..Size /\ k - 1 < k
      BY <2>3, <3>2, NilIs
    <3>4. k - 1 \notin T
      BY <3>2, <3>3
    <3>5. w[k - 1] # Nil /\ q.next[w[k - 1]] = Nil
      BY <2>1, <3>2, <3>3, <3>4
    <3> QED BY <3>3, <3>5
  <2> DEFINE H == {k \in 0..Size : here(k)}
  <2>5. \E k \in 0..Size : first(k)
    <3>1. H \in SUBSET Nat /\ H # {}
      BY <2>4
    <3>2. PICK k \in H : \A j \in H : k <= j
      <4> HIDE DEF H
      <4> QED BY <3>1, Least
    <3> QED BY <3>2
  <2>6. PICK k \in 0..Size : first(k) /\ Predecessor(q, l, t) = w[k]
    <3> HIDE DEF first
    <3> QED BY <1>1, <1>3, <2>5
  <2>7. w[k] \in Node /\ own[w[k]] = h
    BY <2>1, <2>6
  <2>8. q.next[w[k]] # Nil => l = "delayed" /\ Before(t, q.time[q.next[w[k]]])
    BY <2>6
  <2>9. ASSUME l = "delayed" PROVE ~Before(t, q.time[w[k]])
    <3>1. CASE k = 0
      BY <1>3, <2>1, <2>3, <2>9, <3>1 DEF Before
    <3>2. CASE k # 0
      <4>1. k - 1 \in 0..Size /\ ~(k <= k - 1)
        BY <3>2, NilIs
      <4>2. ~here(k - 1)
        BY <2>6, <4>1
      <4>3. w[k - 1] # Nil /\ w[k] = q.next[w[k - 1]]
        BY <2>1, <2>7, <3>2, NilIs
      <4> QED BY <2>7, <2>9, <4>2, <4>3, NilIs
    <3> QED BY <3>1, <3>2
  <2> QED BY <1>3, <2>6, <2>7, <2>8, <2>9
<1> QED BY <1>2, <1>3

\* A node that leaves its list and is free leaves the pool in order.
LEMMA PoolOut ==
    ASSUME NEW p, NEW c, NEW r, NEW own, NEW rank, PoolOK(p, c, r, own, rank),
           NEW n \in Node, own[n] # 0, NEW q \in Pools,
           q.fn = [p.fn EXCEPT ![n] = NoFn], q.next = NextOut(own, p.next, n),
           q.time = [p.time EXCEPT ![n] = 0],
           q.last_freed = IF p.last_freed = Nil THEN n ELSE p.last_freed
    PROVE  PoolOK(q, c, RootOut(own, p.next, r, n), [own EXCEPT ![n] = 0], RankOut(own, rank, n))
<1> DEFINE r2 == RootOut(own, p.next, r, n)
           own2 == [own EXCEPT ![n] = 0]
           rank2 == RankOut(own, rank, n)
<1>1. Links(p.fn, p.next, r) /\ Owners(p.fn, p.next, r, own, rank) /\ own \in [Node -> Handle \cup {0}]
  BY PoolLinks
<1>2. Links(q.fn, q.next, r2) /\ Owners(q.fn, q.next, r2, own2, rank2)
  <2>1. /\ Links([p.fn EXCEPT ![n] = NoFn], NextOut(own, p.next, n), r2)
        /\ Owners([p.fn EXCEPT ![n] = NoFn], NextOut(own, p.next, n), r2, own2, rank2)
    <3> HIDE DEF r2, own2, rank2
    <3> QED BY <1>1, OwnersOut DEF r2, own2, rank2
  <2> QED BY <2>1
<1>3. \A k \in Node : own2[k] = IF k = n THEN 0 ELSE own[k]
  BY <1>1
<1>4. \A k \in Node : q.next[k] = IF k = n THEN Nil
                                  ELSE IF own[k] = own[n] /\ p.next[k] = n THEN p.next[n] ELSE p.next[k]
  BY DEF NextOut
<1>5. \A k \in Node : k # n => q.time[k] = p.time[k]
  BY DEF PoolOK, Pools
<1>6. r2 \in [Handle -> Node \cup {Nil}]
  BY <1>2 DEF Links
<1>7. q.last_freed # Nil => q.fn[q.last_freed] = NoFn
  BY DEF PoolOK, Pools
<1> HIDE DEF own2, r2, rank2
<1>8. InTime(q, c, own2)
  <2> SUFFICES ASSUME NEW k \in Node, own2[k] = -2
               PROVE  /\ 1 < Half /\ Off(q.time[k], c) < Half
                      /\ q.next[k] # Nil => Off(q.time[k], c) <= Off(q.time[q.next[k]], c)
    BY DEF InTime
  <2>1. k # n /\ own[k] = -2 /\ q.time[k] = p.time[k]
    BY <1>3, <1>5
  <2>2. 1 < Half /\ Off(q.time[k], c) < Half
    BY <2>1 DEF PoolOK, InTime
  <2>3. ASSUME q.next[k] # Nil PROVE Off(q.time[k], c) <= Off(q.time[q.next[k]], c)
    <3>1. p.next[k] # Nil
      BY <1>4, <2>1, <2>3, NilIs
    <3>2. p.next[k] \in Node /\ own[p.next[k]] = -2 /\ Off(p.time[k], c) <= Off(p.time[p.next[k]], c)
      BY <1>1, <2>1, <3>1 DEF PoolOK, InTime, Owners, Links
    <3>3. CASE p.next[k] # n
      BY <1>4, <1>5, <2>1, <3>2, <3>3
    <3>4. CASE p.next[k] = n
      <4>1. q.next[k] = p.next[n] /\ own[n] = -2
        BY <1>4, <2>1, <3>2, <3>4
      <4>2. p.next[n] \in Node /\ rank[p.next[n]] = rank[n] + 1 /\ rank[n] \in Nat
        BY <1>1, <2>3, <4>1 DEF Owners, Links
      <4>3. p.next[n] # n /\ Off(p.time[n], c) <= Off(p.time[p.next[n]], c)
        BY <2>3, <4>1, <4>2 DEF PoolOK, InTime
      <4>4. p.time[k] \in Times /\ p.time[n] \in Times /\ p.time[p.next[n]] \in Times /\ c \in Times
        BY <4>2 DEF PoolOK, Pools
      <4>5. /\ Off(p.time[k], c) \in Times /\ Off(p.time[n], c) \in Times
            /\ Off(p.time[p.next[n]], c) \in Times
        BY <4>4, OffIs
      <4>6. q.time[q.next[k]] = p.time[p.next[n]] /\ Off(p.time[k], c) <= Off(p.time[n], c)
        BY <1>5, <3>2, <3>4, <4>1, <4>2, <4>3
      <4> QED BY <2>1, <4>3, <4>5, <4>6 DEF Times
    <3> QED BY <3>3, <3>4
  <2> QED BY <2>2, <2>3
<1>9. PoolOK(q, c, r2, own2, rank2)
  BY <1>2, <1>6, <1>7, <1>8 DEF PoolOK
<1> QED BY <1>9 DEF own2, r2, rank2

\* task_run: the first node of a list is freed, the next one is the first.
LEMMA FreeFirst ==
    ASSUME NEW p, NEW c, NEW r, NEW own, NEW rank, PoolOK(p, c, r, own, rank),
           NEW h \in Handle, r[h] # Nil
    PROVE  LET n == r[h]
               q == Free(p, n)
           IN  /\ n \in Node /\ own[n] = h /\ q.head = p.head
               /\ q.fn = [p.fn EXCEPT ![n] = NoFn] /\ q.time = [p.time EXCEPT ![n] = 0]
               /\ PoolOK(q, c, [r EXCEPT ![h] = p.next[n]], [own EXCEPT ![n] = 0], RankOut(own, rank, n))
<1> DEFINE n == r[h]
           q == Free(p, n)
<1>1. Links(p.fn, p.next, r) /\ Owners(p.fn, p.next, r, own, rank) /\ own \in [Node -> Handle \cup {0}]
  BY PoolLinks
<1>2. n \in Node /\ own[n] = h /\ rank[n] = 0 /\ h # 0
  BY <1>1, NilIs DEF Owners, Links
<1>3. \A k \in Node : own[k] = own[n] => p.next[k] # n
  BY <1>1, <1>2, NilIs DEF Owners
<1>4. /\ q \in Pools /\ q.head = p.head
      /\ q.fn = [p.fn EXCEPT ![n] = NoFn] /\ q.time = [p.time EXCEPT ![n] = 0]
      /\ q.next = [p.next EXCEPT ![n] = Nil]
      /\ q.last_freed = IF p.last_freed = Nil THEN n ELSE p.last_freed
  <2>1. p \in Pools /\ 0 \in Times
    BY PoolAssumption DEF PoolOK, Times
  <2> QED BY <1>2, <2>1 DEF Free, Pools
<1>5. q.next = NextOut(own, p.next, n)
  BY <1>1, <1>3, <1>4 DEF NextOut, Links
<1>6. RootOut(own, p.next, r, n) = [r EXCEPT ![h] = p.next[n]]
  BY <1>1, <1>2 DEF RootOut, Links
<1> HIDE DEF n, q
<1>7. PoolOK(q, c, RootOut(own, p.next, r, n), [own EXCEPT ![n] = 0], RankOut(own, rank, n))
  BY <1>2, <1>4, <1>5, PoolOut
<1> QED BY <1>2, <1>4, <1>6, <1>7 DEF n, q

\* task_delete and the loops of task_execute and task_execute_on_startup:
\* a node is taken out wherever it is and freed.
LEMMA FreeAny ==
    ASSUME NEW p, NEW c, NEW r, NEW own, NEW rank, PoolOK(p, c, r, own, rank),
           NEW l \in Lists, NEW h \in Handle, p.head[l] = r[h], NEW n \in Node, own[n] = h
    PROVE  LET q == Free(Unlink(p, l, n), n)
           IN  /\ q.head = [p.head EXCEPT ![l] = q.head[l]]
               /\ q.fn = [p.fn EXCEPT ![n] = NoFn] /\ q.time = [p.time EXCEPT ![n] = 0]
               /\ PoolOK(q, c, [r EXCEPT ![h] = q.head[l]], [own EXCEPT ![n] = 0], RankOut(own, rank, n))
<1> DEFINE u == Unlink(p, l, n)
           q == Free(u, n)
<1>1. Links(p.fn, p.next, r) /\ Owners(p.fn, p.next, r, own, rank) /\ own \in [Node -> Handle \cup {0}]
  BY PoolLinks
<1>2. p \in Pools /\ h # 0 /\ 0 \in Times
  BY NilIs, PoolAssumption DEF PoolOK, Times
<1>3. Chain(p, p.head[l]) = {k \in Node : own[k] = h}
  BY <1>1, ChainOwns
<1>4. /\ u \in Pools /\ u.fn = p.fn /\ u.time = p.time /\ u.last_freed = p.last_freed
      /\ u.head = IF r[h] = n THEN [p.head EXCEPT ![l] = p.next[n]] ELSE p.head
      /\ u.next = IF r[h] = n THEN p.next
                  ELSE [m \in Node |-> IF own[m] = h /\ p.next[m] = n THEN p.next[n] ELSE p.next[m]]
  <2>1. CASE p.head[l] = n
    BY <1>2, <2>1 DEF Unlink, Pools
  <2>2. CASE p.head[l] # n
    <3>1. u = [p EXCEPT !.next = [m \in Node |-> IF own[m] = h /\ p.next[m] = n THEN p.next[n] ELSE p.next[m]]]
      BY <1>3, <2>2 DEF Unlink
    <3> HIDE DEF u
    <3> QED BY <1>2, <2>2, <3>1 DEF Pools
  <2> QED BY <2>1, <2>2
<1> HIDE DEF u
<1>5. /\ q \in Pools /\ q.head = u.head
      /\ q.fn = [p.fn EXCEPT ![n] = NoFn] /\ q.time = [p.time EXCEPT ![n] = 0]
      /\ q.next = [u.next EXCEPT ![n] = Nil]
      /\ q.last_freed = IF p.last_freed = Nil THEN n ELSE p.last_freed
  BY <1>2, <1>4 DEF Free, Pools
<1> HIDE DEF q
<1>6. q.next = NextOut(own, p.next, n)
  <2>1. CASE r[h] = n
    <3>1. \A k \in Node : own[k] = own[n] => p.next[k] # n
      BY <1>1, <1>2, <2>1, NilIs DEF Owners
    <3> QED BY <1>2, <1>4, <1>5, <2>1, <3>1 DEF NextOut, Pools
  <2>2. CASE r[h] # n
    BY <1>2, <1>4, <1>5, <2>2 DEF NextOut, Pools
  <2> QED BY <2>1, <2>2
<1>7. RootOut(own, p.next, r, n) = [r EXCEPT ![h] = q.head[l]] /\ q.head = [p.head EXCEPT ![l] = q.head[l]]
  <2>1. q.head = [p.head EXCEPT ![l] = q.head[l]] /\ q.head[l] = IF r[h] = n THEN p.next[n] ELSE r[h]
    BY <1>2, <1>4, <1>5 DEF Pools
  <2>2. RootOut(own, p.next, r, n) = [r EXCEPT ![h] = IF r[h] = n THEN p.next[n] ELSE r[h]]
    BY DEF RootOut
  <2> QED BY <2>1, <2>2
<1>8. PoolOK(q, c, RootOut(own, p.next, r, n), [own EXCEPT ![n] = 0], RankOut(own, rank, n))
  BY <1>2, <1>5, <1>6, PoolOut
<1> QED BY <1>5, <1>7, <1>8 DEF q, u

\* pool q is p with a node n more, behind m in list l
Added(p, q, c, r, own, rank, l, h, f, t) ==
    \E n \in Node, m \in Node \cup {Nil} :
        /\ own[n] = 0 /\ (m = Nil => r[h] = Nil \/ l = "delayed")
        /\ q.fn = [p.fn EXCEPT ![n] = f] /\ q.time = [p.time EXCEPT ![n] = t]
        /\ q.head = IF m = Nil THEN [p.head EXCEPT ![l] = n] ELSE p.head
        /\ PoolOK(q, c, RootIn(r, h, n, m), [own EXCEPT ![n] = h], RankIn(own, rank, h, n, m))

\* The add functions: a free node takes the request and enters the list, in
\* the delayed one where the times stay sorted.
LEMMA AddOne ==
    ASSUME NEW p, NEW c, NEW r, NEW own, NEW rank, PoolOK(p, c, r, own, rank),
           NEW l \in Lists, NEW h \in Handle, p.head[l] = r[h], h = -2 <=> l = "delayed",
           NEW f \in Task, NEW t \in Times, l = "delayed" => 1 < Half /\ Off(t, c) < Half,
           CanAlloc(p)
    PROVE  Added(p, Add(p, l, f, t), c, r, own, rank, l, h, f, t)
<1> DEFINE n == Alloc(p)
           q == Fill(p, n, f, t)
           m == Predecessor(q, l, t)
           s == Link(q, l, n, m)
           r2 == RootIn(r, h, n, m)
           own2 == [own EXCEPT ![n] = h]
           rank2 == RankIn(own, rank, h, n, m)
<1>1. Links(p.fn, p.next, r) /\ Owners(p.fn, p.next, r, own, rank) /\ own \in [Node -> Handle \cup {0}]
  BY PoolLinks
<1>2. p \in Pools /\ c \in Times /\ h # 0 /\ f # NoFn /\ (p.last_freed # Nil => p.fn[p.last_freed] = NoFn)
  BY NilIs DEF PoolOK
<1>3. n \in Node /\ p.fn[n] = NoFn
  BY <1>2, AllocFree
<1>4. own[n] = 0
  BY <1>1, <1>3 DEF Owners
<1>5. Add(p, l, f, t) = s
  BY DEF Add
<1> HIDE DEF n
<1>6. /\ q \in Pools /\ q.head = p.head
      /\ q.fn = [p.fn EXCEPT ![n] = f] /\ q.time = [p.time EXCEPT ![n] = t]
      /\ q.next = [p.next EXCEPT ![n] = Nil]
      /\ q.last_freed = IF p.last_freed = n THEN Nil ELSE p.last_freed
  BY <1>2, <1>3 DEF Fill, Pools
<1> HIDE DEF q
<1>7. Links(p.fn, q.next, r) /\ Owners(p.fn, q.next, r, own, rank)
  BY <1>1, <1>3, <1>4, <1>6, OwnersFree
<1>8. \/ /\ m = Nil
         /\ r[h] # Nil => l = "delayed" /\ NotAfter(t, q.time[r[h]])
      \/ /\ m \in Node /\ own[m] = h /\ r[h] # Nil
         /\ q.next[m] # Nil => l = "delayed" /\ Before(t, q.time[q.next[m]])
         /\ l = "delayed" => ~Before(t, q.time[m])
  <2>1. q.head[l] = r[h]
    BY <1>6
  <2> QED BY <1>7, <2>1, PredecessorIs, Zenon
<1> HIDE DEF m
<1>9. m \in Node \cup {Nil} /\ m # n /\ (m # Nil => m \in Node /\ own[m] = h)
  BY <1>2, <1>3, <1>4, <1>8, NilIs
<1>10. /\ s \in Pools /\ s.fn = q.fn /\ s.time = q.time /\ s.last_freed = q.last_freed
       /\ s.head = IF m = Nil THEN [p.head EXCEPT ![l] = n] ELSE p.head
       /\ s.next = NextIn(q.next, r, h, n, m)
  <2>1. CASE m = Nil
    BY <1>3, <1>6, <2>1 DEF Link, NextIn, Pools
  <2>2. CASE m # Nil
    BY <1>3, <1>6, <1>9, <2>2 DEF Link, NextIn, Pools
  <2> QED BY <2>1, <2>2
<1> HIDE DEF s
<1>11. Links(s.fn, s.next, r2) /\ Owners(s.fn, s.next, r2, own2, rank2)
  <2>1. /\ Links([p.fn EXCEPT ![n] = f], NextIn(q.next, r, h, n, m), r2)
        /\ Owners([p.fn EXCEPT ![n] = f], NextIn(q.next, r, h, n, m), r2, own2, rank2)
    <3> HIDE DEF r2, own2, rank2
    <3> QED BY <1>3, <1>4, <1>7, <1>9, OwnersIn DEF r2, own2, rank2
  <2> QED BY <1>6, <1>10, <2>1
<1>12. \A k \in Node : own2[k] = IF k = n THEN h ELSE own[k]
  BY <1>1
<1>13. \A k \in Node : s.next[k] = IF k = n THEN (IF m = Nil THEN r[h] ELSE q.next[m])
                                  ELSE IF k = m THEN n ELSE q.next[k]
  BY <1>3, <1>6, <1>9, <1>10, NilIs DEF NextIn, Pools
<1>14. \A k \in Node : s.time[k] = IF k = n THEN t ELSE p.time[k]
  BY <1>2, <1>6, <1>10 DEF Pools
<1>15. s.last_freed # Nil => s.fn[s.last_freed] = NoFn
  BY <1>2, <1>3, <1>6, <1>10 DEF Pools
<1> HIDE DEF r2, own2, rank2
<1>16. ASSUME NEW k \in Node, own[k] = -2
       PROVE  /\ 1 < Half /\ Off(p.time[k], c) < Half /\ p.time[k] \in Times
              /\ p.next[k] # Nil => p.next[k] \in Node /\ own[p.next[k]] = -2
                                    /\ Off(p.time[k], c) <= Off(p.time[p.next[k]], c)
  BY <1>1, <1>16 DEF PoolOK, InTime, Owners, Links, Pools
<1>17. \A k \in Node : k # n => q.next[k] = p.next[k] /\ q.time[k] = p.time[k]
  BY <1>2, <1>6 DEF Pools
<1>18. InTime(s, c, own2)
  <2> SUFFICES ASSUME NEW k \in Node, own2[k] = -2
               PROVE  /\ 1 < Half /\ Off(s.time[k], c) < Half
                      /\ s.next[k] # Nil => Off(s.time[k], c) <= Off(s.time[s.next[k]], c)
    BY DEF InTime
  <2>1. CASE k = n
    <3>1. l = "delayed" /\ h = -2 /\ 1 < Half /\ Off(t, c) < Half /\ s.time[k] = t
      BY <1>12, <1>14, <2>1
    <3>2. ASSUME s.next[k] # Nil PROVE Off(t, c) <= Off(s.time[s.next[k]], c)
      <4> DEFINE x == s.next[k]
      <4>1. x \in Node /\ own[x] = -2 /\ NotAfter(t, q.time[x])
        <5>1. CASE m = Nil
          <6>1. x = r[h]
            BY <1>13, <2>1, <5>1
          <6>2. x \in Node /\ own[x] = h
            BY <1>7, <3>2, <6>1 DEF Owners, Links
          <6> QED BY <1>8, <3>1, <3>2, <5>1, <6>1, <6>2, NilIs
        <5>2. CASE m # Nil
          <6>1. x = q.next[m]
            BY <1>13, <2>1, <5>2
          <6>2. x \in Node /\ own[x] = h
            BY <1>2, <1>7, <1>9, <3>2, <5>2, <6>1 DEF Owners, Links
          <6> QED BY <1>8, <3>1, <3>2, <5>2, <6>1, <6>2, NilIs DEF Before
        <5> QED BY <5>1, <5>2
      <4> HIDE DEF x
      <4>2. x # n
        BY <1>4, <4>1
      <4>3. q.time[x] = p.time[x] /\ s.time[x] = p.time[x] /\ p.time[x] \in Times /\ Off(p.time[x], c) < Half
        BY <1>14, <1>16, <1>17, <4>1, <4>2
      <4>4. Off(t, c) <= Off(p.time[x], c)
        BY <1>2, <3>1, <4>1, <4>3, NotAfterOrders
      <4> QED BY <4>3, <4>4 DEF x
    <3> QED BY <3>1, <3>2
  <2>2. CASE k = m
    <3>1. k # n /\ k # Nil /\ own[k] = -2 /\ h = -2 /\ l = "delayed" /\ s.next[k] = n
      BY <1>9, <1>12, <1>13, <2>2, NilIs
    <3>2. s.time[k] = p.time[k] /\ q.time[k] = p.time[k] /\ s.time[n] = t /\ ~Before(t, p.time[k])
      BY <1>3, <1>8, <1>14, <1>17, <2>2, <3>1
    <3>3. Off(p.time[k], c) <= Off(t, c)
      <4>1. Off(p.time[k], c) \in Times /\ Off(t, c) \in Times /\ p.time[k] \in Times
        BY <1>2, <1>16, <3>1, OffIs
      <4>2. NotAfter(t, p.time[k]) <=> Off(t, c) <= Off(p.time[k], c)
        BY <1>2, <1>16, <3>1, <4>1, NotAfterOrders
      <4>3. CASE t = p.time[k]
        BY <4>1, <4>3 DEF Times
      <4>4. CASE t # p.time[k]
        BY <3>2, <4>1, <4>2, <4>4 DEF Before, Times
      <4> QED BY <4>3, <4>4
    <3> QED BY <1>16, <3>1, <3>2, <3>3
  <2>3. CASE k # n /\ k # m
    <3>1. own[k] = -2 /\ s.next[k] = p.next[k] /\ s.time[k] = p.time[k]
      BY <1>12, <1>13, <1>14, <1>17, <2>3
    <3>2. p.next[k] # Nil => p.next[k] # n /\ s.time[p.next[k]] = p.time[p.next[k]]
      BY <1>4, <1>14, <1>16, <3>1
    <3> QED BY <1>16, <3>1, <3>2
  <2> QED BY <2>1, <2>2, <2>3
<1>19. PoolOK(s, c, r2, own2, rank2)
  BY <1>2, <1>10, <1>11, <1>15, <1>18 DEF PoolOK, Links
<1>20. m = Nil => r[h] = Nil \/ l = "delayed"
  BY <1>8, NilIs
<1>21. /\ s.fn = [p.fn EXCEPT ![n] = f] /\ s.time = [p.time EXCEPT ![n] = t]
       /\ s.head = IF m = Nil THEN [p.head EXCEPT ![l] = n] ELSE p.head
       /\ PoolOK(s, c, RootIn(r, h, n, m), [own EXCEPT ![n] = h], RankIn(own, rank, h, n, m))
  BY <1>6, <1>10, <1>19 DEF r2, own2, rank2
<1> QED BY <1>3, <1>4, <1>5, <1>9, <1>20, <1>21 DEF Added

\* task_delete looks for its entry in the delayed list.
LEMMA FoundIs ==
    ASSUME NEW p, NEW c, NEW r, NEW own, NEW rank, PoolOK(p, c, r, own, rank),
           p.head["delayed"] = r[-2], NEW f
    PROVE  \/ Found(p, f) = Nil
           \/ Found(p, f) \in Node /\ own[Found(p, f)] = -2 /\ p.fn[Found(p, f)] = f
<1> DEFINE w == Walk(p.next, r[-2])
           is(k) == w[k] # Nil /\ p.fn[w[k]] = f
           first(k) == is(k) /\ \A j \in 0..Size : is(j) => k <= j
<1>1. Found(p, f) = IF \E k \in 0..Size : is(k) THEN w[CHOOSE k \in 0..Size : first(k)] ELSE Nil
  BY DEF Found
<1>2. -2 \in Handle
  BY CodeIs DEF Lists
<1>3. \A k \in 0..Size : w[k] = Nil \/ (w[k] \in Node /\ own[w[k]] = -2)
  BY <1>2, PoolLinks, WalkMeets
<1> HIDE DEF w
<1>4. CASE \E k \in 0..Size : is(k)
  <2> DEFINE H == {k \in 0..Size : is(k)}
  <2>1. \E k \in 0..Size : first(k)
    <3>1. H \in SUBSET Nat /\ H # {}
      BY <1>4
    <3>2. PICK k \in H : \A j \in H : k <= j
      <4> HIDE DEF H
      <4> QED BY <3>1, Least
    <3> QED BY <3>2
  <2>2. PICK k \in 0..Size : first(k) /\ Found(p, f) = w[k]
    <3> HIDE DEF first
    <3> QED BY <1>1, <1>4, <2>1
  <2> QED BY <1>3, <2>2
<1>5. CASE ~\E k \in 0..Size : is(k)
  BY <1>1, <1>5
<1> QED BY <1>4, <1>5

-----------------------------------------------------------------------------
(* The walk that drops tasks from a list. *)

DropStep(p, l, fs, d, k) ==
    IF k = 0 THEN p
    ELSE IF /\ Walk(p.next, p.head[l])[k - 1] # Nil
            /\ p.fn[Walk(p.next, p.head[l])[k - 1]] \in fs
         THEN Free(Unlink(d[k - 1], l, Walk(p.next, p.head[l])[k - 1]),
                   Walk(p.next, p.head[l])[k - 1])
         ELSE d[k - 1]
IsDrop(p, l, fs, n, d) == d = [k \in 0..n |-> DropStep(p, l, fs, d, k)]

LEMMA DropExists ==
    ASSUME NEW p, NEW l, NEW fs, NEW n \in Nat
    PROVE  \E d : IsDrop(p, l, fs, n, d)
<1> DEFINE T == {i \in Nat : \E d : IsDrop(p, l, fs, i, d)}
<1>1. 0 \in T
  <2> DEFINE d == [k \in 0..0 |-> p]
  <2>1. IsDrop(p, l, fs, 0, d)
    BY DEF DropStep, IsDrop
  <2> QED BY <2>1
<1>2. ASSUME NEW i \in T PROVE i + 1 \in T
  <2>1. i \in Nat /\ i + 1 \in Nat
    OBVIOUS
  <2>2. PICK d : IsDrop(p, l, fs, i, d)
    OBVIOUS
  <2> DEFINE v == [k \in 0..(i + 1) |-> IF k <= i THEN d[k] ELSE DropStep(p, l, fs, d, k)]
  <2>3. \A k \in 0..(i + 1) : v[k] = DropStep(p, l, fs, v, k)
    <3> SUFFICES ASSUME NEW k \in 0..(i + 1) PROVE v[k] = DropStep(p, l, fs, v, k)
      OBVIOUS
    <3>1. k # 0 => v[k - 1] = d[k - 1]
      BY <2>1
    <3>2. DropStep(p, l, fs, v, k) = DropStep(p, l, fs, d, k)
      BY <3>1 DEF DropStep
    <3>3. v[k] = DropStep(p, l, fs, d, k)
      <4>1. CASE k <= i
        BY <2>1, <2>2, <4>1 DEF IsDrop
      <4>2. CASE ~(k <= i)
        BY <4>2
      <4> QED BY <4>1, <4>2
    <3> QED BY <3>2, <3>3
  <2>4. IsDrop(p, l, fs, i + 1, v)
    BY <2>3 DEF IsDrop
  <2> HIDE DEF v
  <2> QED BY <2>1, <2>4
<1>3. T \in SUBSET Nat
  OBVIOUS
<1> HIDE DEF T
<1>4. n \in T
  BY <1>1, <1>2, <1>3, Induct
<1> QED BY <1>4 DEF T

LEMMA DropUnfolds ==
    ASSUME NEW p, NEW l, NEW fs
    PROVE  \E d : /\ \A k \in 0..Size : d[k] = DropStep(p, l, fs, d, k)
                  /\ Drop(p, l, fs) = d[Size]
<1> DEFINE d == CHOOSE d : IsDrop(p, l, fs, Size, d)
<1>1. IsDrop(p, l, fs, Size, d)
  BY DropExists, NilIs
<1>2. Drop(p, l, fs) = d[Size]
  BY DEF Drop, IsDrop, DropStep
<1> HIDE DEF d
<1>3. \A k \in 0..Size : d[k] = DropStep(p, l, fs, d, k)
  BY <1>1 DEF IsDrop
<1> QED BY <1>2, <1>3

Kept(own, rank, fn, h, fs, k) ==
    [n \in Node |-> IF own[n] = h /\ rank[n] < k /\ fn[n] \in fs THEN 0 ELSE own[n]]

\* What is given up is what list l, reached by handle h, holds of fs.
Dropped(p, q, c, r, own, l, h, fs, own2, r2) ==
    /\ q.head = [p.head EXCEPT ![l] = q.head[l]]
    /\ \A n \in Node : own2[n] = IF own[n] = h /\ p.fn[n] \in fs THEN 0 ELSE own[n]
    /\ \A n \in Node : own2[n] # 0 => q.fn[n] = p.fn[n] /\ q.time[n] = p.time[n]
    /\ r2 = [r EXCEPT ![h] = q.head[l]]
    /\ \E rank2 : PoolOK(q, c, r2, own2, rank2)

\* The walk frees the nodes of the list whose tasks are unwanted, and no others.
LEMMA DropIs ==
    ASSUME NEW p, NEW c, NEW r, NEW own, NEW rank, PoolOK(p, c, r, own, rank),
           NEW l \in Lists, NEW h \in Handle, p.head[l] = r[h], NEW fs
    PROVE  \E own2, r2 : Dropped(p, Drop(p, l, fs), c, r, own, l, h, fs, own2, r2)
<1> DEFINE w == Walk(p.next, p.head[l])
           O(k) == Kept(own, rank, p.fn, h, fs, k)
           Good(q, k) ==
               /\ q.head = [p.head EXCEPT ![l] = q.head[l]]
               /\ \A n \in Node : O(k)[n] # 0 => q.fn[n] = p.fn[n] /\ q.time[n] = p.time[n]
               /\ \E rank2 : PoolOK(q, c, [r EXCEPT ![h] = q.head[l]], O(k), rank2)
<1>1. PICK d : (\A k \in 0..Size : d[k] = DropStep(p, l, fs, d, k)) /\ Drop(p, l, fs) = d[Size]
  BY DropUnfolds
<1>2. Links(p.fn, p.next, r) /\ Owners(p.fn, p.next, r, own, rank) /\ own \in [Node -> Handle \cup {0}]
      /\ rank \in [Node -> Nat] /\ h # 0 /\ p \in Pools /\ r \in [Handle -> Node \cup {Nil}]
  BY PoolLinks, NilIs DEF PoolOK
<1>3. /\ \A k \in 0..Size : w[k] = Nil \/ (w[k] \in Node /\ own[w[k]] = h /\ rank[w[k]] = k)
      /\ \A n \in Node : own[n] = h => w[rank[n]] = n /\ rank[n] < Size
  BY <1>2, WalkMeets, PlacesBound
<1>4. \A k \in 0..Size : d[k] = IF k = 0 THEN p
                                ELSE IF w[k - 1] # Nil /\ p.fn[w[k - 1]] \in fs
                                THEN Free(Unlink(d[k - 1], l, w[k - 1]), w[k - 1])
                                ELSE d[k - 1]
  BY <1>1 DEF DropStep
<1> HIDE DEF w
<1>5. \A k \in Nat : \A n \in Node :
         O(k)[n] = IF own[n] = h /\ rank[n] < k /\ p.fn[n] \in fs THEN 0 ELSE own[n]
  BY DEF Kept
<1> DEFINE T == {k \in 0..Size : Good(d[k], k)}
<1>6. 0 \in T
  <2>1. d[0] = p /\ 0 \in 0..Size
    BY <1>4, NilIs
  <2>2. O(0) = own
    BY <1>2 DEF Kept
  <2>3. [r EXCEPT ![h] = p.head[l]] = r /\ p.head = [p.head EXCEPT ![l] = p.head[l]]
    BY <1>2 DEF Pools
  <2>4. PoolOK(p, c, [r EXCEPT ![h] = p.head[l]], O(0), rank)
    BY <2>2, <2>3
  <2> QED BY <2>1, <2>3, <2>4
<1>7. ASSUME NEW k \in T, k < Size PROVE k + 1 \in T
  <2>1. k \in 0..Size /\ k + 1 \in 0..Size /\ (k + 1) - 1 = k /\ k + 1 # 0 /\ k \in Nat /\ Good(d[k], k)
    <3> HIDE DEF Good
    <3> QED BY <1>7, NilIs
  <2> DEFINE x == w[k]
             q == d[k + 1]
             u == d[k]
  <2>2. q = IF x # Nil /\ p.fn[x] \in fs THEN Free(Unlink(u, l, x), x) ELSE u
    BY <1>4, <2>1
  <2>3. PICK rank2 : PoolOK(u, c, [r EXCEPT ![h] = u.head[l]], O(k), rank2)
    BY <2>1
  <2>4. \A n \in Node : own[n] = h /\ rank[n] = k => x = n
    BY <1>3
  <2> HIDE DEF x, q, u, O
  <2>5. CASE ~(x # Nil /\ p.fn[x] \in fs)
    <3>1. O(k + 1) = O(k)
      <4>1. \A n \in Node : own[n] = h /\ p.fn[n] \in fs => (rank[n] < k + 1 <=> rank[n] < k)
        BY <1>2, <2>1, <2>4, <2>5, NilIs
      <4> QED BY <4>1 DEF O, Kept
    <3>2. q = u
      BY <2>2, <2>5
    <3>3. Good(q, k + 1)
      BY <2>1, <3>1, <3>2 DEF q, u
    <3> QED BY <2>1, <3>3 DEF q
  <2>6. CASE x # Nil /\ p.fn[x] \in fs
    <3>1. x \in Node /\ own[x] = h /\ rank[x] = k
      BY <1>3, <2>1, <2>6 DEF x
    <3>2. O(k)[x] = h
      BY <2>1, <3>1 DEF O, Kept
    <3>3. O(k + 1) = [O(k) EXCEPT ![x] = 0]
      <4>1. \A n \in Node : own[n] = h => (rank[n] < k + 1 <=> rank[n] < k \/ n = x)
        BY <1>2, <2>1, <2>4, <3>1
      <4> QED BY <2>6, <3>1, <4>1 DEF O, Kept
    <3> DEFINE r1 == [r EXCEPT ![h] = u.head[l]]
    <3>4. u.head[l] = r1[h]
      BY <1>2
    <3>5. q = Free(Unlink(u, l, x), x)
      BY <2>2, <2>6
    <3>6. /\ q.head = [u.head EXCEPT ![l] = q.head[l]]
          /\ q.fn = [u.fn EXCEPT ![x] = NoFn] /\ q.time = [u.time EXCEPT ![x] = 0]
          /\ PoolOK(q, c, [r1 EXCEPT ![h] = q.head[l]], [O(k) EXCEPT ![x] = 0], RankOut(O(k), rank2, x))
      <4> HIDE DEF r1
      <4>1. PoolOK(u, c, r1, O(k), rank2)
        BY <2>3 DEF r1
      <4> DEFINE z == Free(Unlink(u, l, x), x)
      <4>2. /\ z.head = [u.head EXCEPT ![l] = z.head[l]]
            /\ z.fn = [u.fn EXCEPT ![x] = NoFn] /\ z.time = [u.time EXCEPT ![x] = 0]
            /\ PoolOK(z, c, [r1 EXCEPT ![h] = z.head[l]], [O(k) EXCEPT ![x] = 0], RankOut(O(k), rank2, x))
        BY <3>1, <3>2, <3>4, <4>1, FreeAny, Zenon
      <4> HIDE DEF z
      <4>3. q = z
        BY <3>5 DEF z
      <4> QED BY <4>2, <4>3
    <3>7. u.head = [p.head EXCEPT ![l] = u.head[l]]
      BY <2>1 DEF u
    <3>8. q.head = [p.head EXCEPT ![l] = q.head[l]]
      BY <3>6, <3>7
    <3>9. [r1 EXCEPT ![h] = q.head[l]] = [r EXCEPT ![h] = q.head[l]]
      OBVIOUS
    <3>10. \A n \in Node : O(k + 1)[n] # 0 => q.fn[n] = p.fn[n] /\ q.time[n] = p.time[n]
      <4>1. u \in Pools /\ \A n \in Node : O(k)[n] # 0 => u.fn[n] = p.fn[n] /\ u.time[n] = p.time[n]
        BY <2>1, <2>3 DEF u, PoolOK
      <4>2. \A n \in Node : O(k + 1)[n] # 0 => n # x /\ O(k)[n] # 0
        BY <3>1, <3>3 DEF O, Kept
      <4> QED BY <3>6, <4>1, <4>2 DEF Pools
    <3>11. \E rank3 : PoolOK(q, c, [r EXCEPT ![h] = q.head[l]], O(k + 1), rank3)
      <4> HIDE DEF r1
      <4> QED BY <3>3, <3>6, <3>9
    <3>12. Good(q, k + 1)
      BY <3>8, <3>10, <3>11 DEF O
    <3> QED BY <2>1, <3>12 DEF q
  <2> QED BY <2>5, <2>6
<1>8. Good(d[Size], Size)
  <2>1. T \in SUBSET Nat
    OBVIOUS
  <2>2. Size \in T
    <3> HIDE DEF T
    <3> QED BY <1>6, <1>7, <2>1, Induct, NilIs
  <2> QED BY <2>2
<1>9. O(Size) = [n \in Node |-> IF own[n] = h /\ p.fn[n] \in fs THEN 0 ELSE own[n]]
  BY <1>3 DEF Kept
<1> DEFINE q == Drop(p, l, fs)
<1>10. Good(q, Size)
  BY <1>1, <1>8
<1> HIDE DEF O, q
<1>11. \A n \in Node : O(Size)[n] = IF own[n] = h /\ p.fn[n] \in fs THEN 0 ELSE own[n]
  BY <1>9
<1>12. Dropped(p, q, c, r, own, l, h, fs, O(Size), [r EXCEPT ![h] = q.head[l]])
  BY <1>10, <1>11 DEF Dropped
<1> QED BY <1>12 DEF q

-----------------------------------------------------------------------------
(* The main thread: its activations and the lists they own.                *)

FrameSet == [pc : Pcs, task : Node \cup {Nil}, now : Times, f : Task \cup {NoFn}]
StartupPcs == {"boot", "bootfn", "reset", "resetfn", "halt"}

FrameOK(fr, hd, b, q, d) ==
    /\ fr.pc \in {"imm", "sys", "sysfn", "take", "boot", "reset"} => fr.task # Nil
    /\ fr.pc = "boot" => fr.task = hd["booted"]
    /\ fr.pc = "reset" => fr.task = hd["reset"]
    /\ fr.pc \in StartupPcs => b = "up" /\ "RT_COMMAND" \notin q
    /\ fr.pc \in {"imm", "immfn"} => d

FramesOK(st, hd, b, q, d) ==
    /\ st \in Seq(FrameSet) /\ Len(st) <= MaxDepth
    /\ \A i \in 1..Len(st) : FrameOK(st[i], hd, b, q, d) /\ (i # Len(st) => st[i].pc # "take")
    /\ \A i, j \in 1..Len(st) : st[i].pc \in StartupPcs /\ st[j].pc \in StartupPcs => i = j
    /\ "RT_COMMAND" \in q => b = "up"

RootsOK(r, hd, st) ==
    /\ r[-1] = hd["immediate"] /\ r[-2] = hd["delayed"] /\ r[-3] = hd["systick"]
    /\ (\A i \in 1..Len(st) : st[i].pc # "bootfn") => r[-4] = hd["booted"]
    /\ (\A i \in 1..Len(st) : st[i].pc # "resetfn") => r[-5] = hd["reset"]
    /\ \A i \in 1..Len(st) : /\ st[i].pc = "bootfn" => r[-4] = st[i].task
                             /\ st[i].pc = "resetfn" => r[-5] = st[i].task
    /\ \A i \in 1..MaxDepth : r[i] = IF i \in 1..Len(st) /\ st[i].pc \in {"imm", "immfn"}
                                     THEN st[i].task ELSE Nil

\* what activations point to in the lists they walk without detaching them
Owned(own, time, c, st) ==
    \A i \in 1..Len(st) :
        /\ st[i].pc = "take" => own[st[i].task] = -2 /\ NotAfter(time[st[i].task], c)
        /\ st[i].pc \in {"sys", "sysfn"} => own[st[i].task] = -3

\* a poll of the delayed list is not later than the tick it works for
PollPcs == {"sys", "sysfn", "peek", "take", "delfn"}
Fresh(c, st) ==
    \A i \in 1..Len(st) :
        st[i].pc \in PollPcs /\ (\A j \in 1..Len(st) : st[j].pc = "halt" => j < i)
            => c = st[i].now \/ c = (st[i].now + 1) % Period

ListOf(h) == CASE h = -2 -> "delayed" [] h = -3 -> "systick" [] h = -4 -> "booted"
               [] h = -5 -> "reset" [] OTHER -> "immediate"
Holding(fn, time, own, r) == {n \in Node : own[n] # 0 /\ Req(ListOf(own[n]), fn[n], time[n]) = r}

\* the bag of what is owed counts the nodes in use
Owing(o, fn, time, own) ==
    /\ DOMAIN o \subseteq TS!Request /\ o \in [DOMAIN o -> Nat \ {0}]
    /\ \A r \in TS!Request : Copies(r, o) = Cardinality(Holding(fn, time, own, r))

InOrder(p, o, c, st, b, q, d, r, own, rank) ==
    /\ PoolOK(p, c, r, own, rank) /\ RootsOK(r, p.head, st)
    /\ Owned(own, p.time, c, st) /\ FramesOK(st, p.head, b, q, d)
    /\ Owing(o, p.fn, p.time, own)

Good(p, o, c, st, b, q, d) == \E r, own, rank : InOrder(p, o, c, st, b, q, d, r, own, rank)

IInv == /\ polled \in BOOLEAN /\ lock \in BOOLEAN /\ abort \in BOOLEAN
        /\ boot \in {"init", "loop", "up"} /\ driver_started \in BOOLEAN
        /\ rt \subseteq {"RESET", "RT_COMMAND"}
        /\ Good(pool, owed, clock, stack, boot, rt, driver_started) /\ Fresh(clock, stack)

LEMMA TopIs ==
    ASSUME NEW st \in Seq(FrameSet), st # <<>>
    PROVE  /\ Len(st) \in Nat /\ Len(st) >= 1 /\ Len(st) \in 1..Len(st) /\ st[Len(st)] \in FrameSet
           /\ DOMAIN st = 1..Len(st) /\ \A i \in 1..Len(st) : st[i] \in FrameSet
OBVIOUS

LEMMA SetTopIs ==
    ASSUME NEW st \in Seq(FrameSet), st # <<>>, NEW fr \in FrameSet
    PROVE  LET s == [st EXCEPT ![Len(st)] = fr]
           IN  /\ s \in Seq(FrameSet) /\ Len(s) = Len(st)
               /\ \A i \in 1..Len(st) : s[i] = IF i = Len(st) THEN fr ELSE st[i]
OBVIOUS

LEMMA PopIs ==
    ASSUME NEW st \in Seq(FrameSet), st # <<>>
    PROVE  LET s == SubSeq(st, 1, Len(st) - 1)
           IN  /\ s \in Seq(FrameSet) /\ Len(s) = Len(st) - 1 /\ Len(s) \in Nat
               /\ \A i \in 1..Len(s) : s[i] = st[i] /\ i # Len(st) /\ i \in 1..Len(st)
<1> DEFINE s == SubSeq(st, 1, Len(st) - 1)
<1>1. Len(st) \in Nat /\ Len(st) >= 1 /\ \A i \in 1..Len(st) : st[i] \in FrameSet
  BY TopIs
<1>2. ASSUME NEW n \in Nat, n + 1 = Len(st)
      PROVE  /\ SubSeq(st, 1, n) \in Seq(FrameSet) /\ Len(SubSeq(st, 1, n)) = n
             /\ \A i \in 1..n : SubSeq(st, 1, n)[i] = st[i]
  <2>1. 1 \in Int /\ n \in Int /\ \A i \in 1..n : st[i] \in FrameSet
    BY <1>1, <1>2
  <2>2. /\ SubSeq(st, 1, n) \in Seq(FrameSet)
        /\ Len(SubSeq(st, 1, n)) = IF 1 <= n THEN n - 1 + 1 ELSE 0
        /\ \A i \in 1..(n - 1 + 1) : SubSeq(st, 1, n)[i] = st[1 + i - 1]
    BY <2>1, SubSeqProperties
  <2>3. Len(SubSeq(st, 1, n)) = n
    BY <2>2
  <2>4. \A i \in 1..n : i \in 1..(n - 1 + 1) /\ 1 + i - 1 = i
    OBVIOUS
  <2>5. \A i \in 1..n : SubSeq(st, 1, n)[i] = st[i]
    BY <2>2, <2>4
  <2> QED BY <2>2, <2>3, <2>5
<1>3. PICK n \in Nat : n + 1 = Len(st) /\ n = Len(st) - 1
  BY <1>1
<1>4. \A i \in 1..n : i # Len(st) /\ i \in 1..Len(st)
  <2>1. \A i \in 1..n : i # n + 1 /\ i \in 1..(n + 1)
    OBVIOUS
  <2> QED BY <1>3, <2>1, Zenon
<1> QED BY <1>2, <1>3, <1>4

LEMMA PushIs ==
    ASSUME NEW st \in Seq(FrameSet), NEW fr \in FrameSet
    PROVE  LET s == Append(st, fr)
           IN  /\ s \in Seq(FrameSet) /\ Len(s) = Len(st) + 1 /\ Len(st) \in Nat
               /\ \A i \in 1..Len(s) : s[i] = IF i = Len(s) THEN fr ELSE st[i]
OBVIOUS

\* An activation goes on.
LEMMA FramesSet ==
    ASSUME NEW st, NEW hd, NEW b, NEW q, NEW d, FramesOK(st, hd, b, q, d), st # <<>>,
           NEW fr \in FrameSet, FrameOK(fr, hd, b, q, d),
           fr.pc \in StartupPcs => st[Len(st)].pc \in StartupPcs
    PROVE  FramesOK([st EXCEPT ![Len(st)] = fr], hd, b, q, d)
<1> DEFINE s == [st EXCEPT ![Len(st)] = fr]
<1>1. /\ s \in Seq(FrameSet) /\ Len(s) = Len(st) /\ Len(st) \in 1..Len(st)
      /\ \A i \in 1..Len(st) : s[i] = IF i = Len(st) THEN fr ELSE st[i]
  BY SetTopIs, TopIs DEF FramesOK
<1> HIDE DEF s
<1>2. FramesOK(s, hd, b, q, d)
  BY <1>1 DEF FramesOK
<1> QED BY <1>2 DEF s

\* An activation returns.
LEMMA FramesPop ==
    ASSUME NEW st, NEW hd, NEW b, NEW q, NEW d, FramesOK(st, hd, b, q, d), st # <<>>
    PROVE  FramesOK(SubSeq(st, 1, Len(st) - 1), hd, b, q, d)
<1> DEFINE s == SubSeq(st, 1, Len(st) - 1)
<1>1. /\ s \in Seq(FrameSet) /\ Len(s) = Len(st) - 1 /\ Len(s) \in Nat
      /\ \A i \in 1..Len(s) : s[i] = st[i] /\ i # Len(st) /\ i \in 1..Len(st)
  BY PopIs DEF FramesOK
<1> HIDE DEF s
<1>2. MaxDepth \in Nat /\ Len(st) \in Nat
  BY PoolAssumption DEF FramesOK
<1>3. Len(s) <= MaxDepth
  BY <1>1, <1>2 DEF FramesOK
<1>4. FramesOK(s, hd, b, q, d)
  BY <1>1, <1>3 DEF FramesOK
<1> QED BY <1>4 DEF s

\* A function calls grbl.on_execute_realtime(), or startup tasks are begun.
LEMMA FramesPush ==
    ASSUME NEW st, NEW hd, NEW b, NEW q, NEW d, FramesOK(st, hd, b, q, d), Len(st) < MaxDepth,
           st # <<>> => st[Len(st)].pc # "take",
           NEW fr \in FrameSet, FrameOK(fr, hd, b, q, d),
           fr.pc \in StartupPcs => \A i \in 1..Len(st) : st[i].pc \notin StartupPcs
    PROVE  FramesOK(Append(st, fr), hd, b, q, d)
<1> DEFINE s == Append(st, fr)
<1>1. /\ s \in Seq(FrameSet) /\ Len(s) = Len(st) + 1 /\ Len(st) \in Nat
      /\ \A i \in 1..Len(s) : s[i] = IF i = Len(s) THEN fr ELSE st[i]
  BY PushIs DEF FramesOK
<1>2. MaxDepth \in Nat
  BY PoolAssumption
<1> HIDE DEF s
<1>3. Len(s) <= MaxDepth
  BY <1>1, <1>2
<1>4. \A i \in 1..Len(s) : i # Len(s) => i \in 1..Len(st) /\ s[i] = st[i] /\ (i = Len(st) => st # <<>>)
  BY <1>1 DEF FramesOK
<1>5. \A i \in 1..Len(s) : FrameOK(s[i], hd, b, q, d) /\ (i # Len(s) => s[i].pc # "take")
  BY <1>1, <1>4 DEF FramesOK
<1>6. \A i, j \in 1..Len(s) : s[i].pc \in StartupPcs /\ s[j].pc \in StartupPcs => i = j
  BY <1>1, <1>4 DEF FramesOK
<1>7. FramesOK(s, hd, b, q, d)
  BY <1>1, <1>3, <1>5, <1>6 DEF FramesOK
<1> QED BY <1>7 DEF s

\* The heads of the startup and reset lists matter only while one of their
\* tasks is about to run.
LEMMA FramesHeads ==
    ASSUME NEW st, NEW hd, NEW hd2, NEW b, NEW q, NEW d, FramesOK(st, hd, b, q, d),
           hd2["booted"] = hd["booted"] \/ \A i \in 1..Len(st) : st[i].pc # "boot",
           hd2["reset"] = hd["reset"] \/ \A i \in 1..Len(st) : st[i].pc # "reset"
    PROVE  FramesOK(st, hd2, b, q, d)
BY DEF FramesOK, FrameOK

-----------------------------------------------------------------------------
(* What is owed, counted.                                                  *)

Data(fn, time, own) == /\ fn \in [Node -> Task \cup {NoFn}] /\ time \in [Node -> Times]
                       /\ own \in [Node -> Handle \cup {0}]

LEMMA PoolData ==
    ASSUME NEW p, NEW c, NEW r, NEW own, NEW rank, PoolOK(p, c, r, own, rank)
    PROVE  /\ Data(p.fn, p.time, own)
           /\ \A n \in Node : own[n] # 0 => p.fn[n] \in Task
BY DEF PoolOK, Pools, Owners, Data

LEMMA ListOfIs ==
    /\ \A h \in Handle : ListOf(h) \in Lists
    /\ \A l \in Lists : ListOf(Code(l)) = l
    /\ \A h \in 1..MaxDepth : ListOf(h) = "immediate"
    /\ \A h \in Handle : h < 0 => Code(ListOf(h)) = h
    /\ \A h \in Handle : h < 0 \/ h \in 1..MaxDepth
<1>1. \A h : ListOf(h) = IF h = -2 THEN "delayed" ELSE IF h = -3 THEN "systick"
                         ELSE IF h = -4 THEN "booted" ELSE IF h = -5 THEN "reset" ELSE "immediate"
  BY DEF ListOf
<1>2. MaxDepth \in Nat
  BY PoolAssumption
<1>3. \A h \in Handle : h < 0 => h \in {-1, -2, -3, -4, -5}
  BY <1>2 DEF Handle
<1>4. \A h \in Handle : h < 0 \/ h \in 1..MaxDepth
  BY <1>2 DEF Handle
<1>5. \A h \in Handle : ListOf(h) \in Lists
  BY <1>1 DEF Lists
<1>6. \A l \in Lists : ListOf(Code(l)) = l
  BY <1>1, CodeIs DEF Lists
<1>7. \A h \in 1..MaxDepth : ListOf(h) = "immediate"
  BY <1>1, <1>2
<1>8. \A h \in Handle : h < 0 => Code(ListOf(h)) = h
  BY <1>1, <1>3, CodeIs
<1> QED BY <1>4, <1>5, <1>6, <1>7, <1>8

LEMMA ReqIs ==
    /\ \A l \in Lists, f \in Task, t \in Times : Req(l, f, t) \in TS!Request
    /\ \A l, k \in Lists : \A f, g, t, u : Req(l, f, t) = Req(k, g, u) =>
          l = k /\ f = g /\ (l = "delayed" => t = u)
    /\ \A l \in Lists \ {"delayed"} : \A f, t : Req(l, f, t) = Req(l, f, 0)
    /\ \A l, f, t : Req(l, f, t).list = l /\ Req(l, f, t).fn = f
BY PoolAssumption DEF Req, TS!Request, TS!Lists, Lists, Times

LEMMA HoldingFinite ==
    ASSUME NEW fn, NEW time, NEW own, NEW r
    PROVE  /\ IsFiniteSet(Holding(fn, time, own, r)) /\ Holding(fn, time, own, r) \subseteq Node
           /\ Cardinality(Holding(fn, time, own, r)) \in Nat
<1>1. Holding(fn, time, own, r) \subseteq Node
  BY DEF Holding
<1>2. IsFiniteSet(Node)
  BY NilIs, FS_Interval DEF Node
<1>3. IsFiniteSet(Holding(fn, time, own, r))
  BY <1>1, <1>2, FS_Subset
<1> QED BY <1>1, <1>3, FS_CardinalityType

\* An accepted call is owed once more.
LEMMA OwingMore ==
    ASSUME NEW o, NEW fn, NEW time, NEW own, Data(fn, time, own), Owing(o, fn, time, own),
           NEW n \in Node, own[n] = 0, NEW h \in Handle, NEW f \in Task, NEW t \in Times
    PROVE  Owing(o (+) SetToBag({Req(ListOf(h), f, t)}),
                 [fn EXCEPT ![n] = f], [time EXCEPT ![n] = t], [own EXCEPT ![n] = h])
<1> DEFINE x == Req(ListOf(h), f, t)
           o2 == o (+) SetToBag({x})
           H(r) == Holding(fn, time, own, r)
           H2(r) == Holding([fn EXCEPT ![n] = f], [time EXCEPT ![n] = t], [own EXCEPT ![n] = h], r)
<1>1. x \in TS!Request
  BY ListOfIs, ReqIs
<1>2. o2 = [e \in DOMAIN o \cup {x} |-> Copies(e, o) + IF e = x THEN 1 ELSE 0]
  <2>1. SetToBag({x}) = [e \in {x} |-> 1]
    BY DEF SetToBag
  <2> HIDE DEF x
  <2> QED BY <2>1 DEF (+), Copies
<1> HIDE DEF o2
<1>3. h # 0
  BY NilIs
<1>4. ASSUME NEW r PROVE H2(r) = IF r = x THEN H(r) \cup {n} ELSE H(r)
  BY <1>3 DEF Holding, Data
<1>5. \A r : n \notin H(r)
  BY DEF Holding
<1> HIDE DEF x
<1>6. ASSUME NEW r \in TS!Request PROVE Copies(r, o2) = Cardinality(H2(r))
  <2>1. Copies(r, o) = Cardinality(H(r)) /\ Copies(r, o) \in Nat /\ IsFiniteSet(H(r))
    BY HoldingFinite DEF Owing
  <2>2. Copies(r, o2) = Copies(r, o) + IF r = x THEN 1 ELSE 0
    BY <1>2, <2>1 DEF Copies
  <2>3. Cardinality(H(r) \cup {n}) = Cardinality(H(r)) + 1
    <3> HIDE DEF H
    <3> QED BY <1>5, <2>1, FS_AddElement
  <2> HIDE DEF H, H2
  <2>4. CASE r = x
    <3>1. H2(r) = H(r) \cup {n}
      BY <1>4, <2>4
    <3> QED BY <2>1, <2>2, <2>3, <2>4, <3>1
  <2>5. CASE r # x
    <3>1. H2(r) = H(r)
      BY <1>4, <2>5
    <3> QED BY <2>1, <2>2, <2>5, <3>1
  <2> QED BY <2>4, <2>5
<1>7. DOMAIN o2 \subseteq TS!Request /\ o2 \in [DOMAIN o2 -> Nat \ {0}]
  BY <1>1, <1>2 DEF Owing, Copies
<1>8. Owing(o2, [fn EXCEPT ![n] = f], [time EXCEPT ![n] = t], [own EXCEPT ![n] = h])
  BY <1>6, <1>7 DEF Owing
<1> QED BY <1>8 DEF o2, x

\* What a node in use holds is owed; once it is free, it is owed once less.
LEMMA OwingLess ==
    ASSUME NEW o, NEW fn, NEW time, NEW own, Data(fn, time, own), Owing(o, fn, time, own),
           NEW n \in Node, own[n] # 0, fn[n] \in Task
    PROVE  LET x == Req(ListOf(own[n]), fn[n], time[n])
           IN  /\ x \in DOMAIN o /\ x \in TS!Request
               /\ Owing(o (-) SetToBag({x}),
                        [fn EXCEPT ![n] = NoFn], [time EXCEPT ![n] = 0], [own EXCEPT ![n] = 0])
<1> DEFINE x == Req(ListOf(own[n]), fn[n], time[n])
           o2 == o (-) SetToBag({x})
           H(r) == Holding(fn, time, own, r)
           H2(r) == Holding([fn EXCEPT ![n] = NoFn], [time EXCEPT ![n] = 0], [own EXCEPT ![n] = 0], r)
<1>1. x \in TS!Request
  BY ListOfIs, ReqIs DEF Data
<1>2. ASSUME NEW r PROVE H2(r) = H(r) \ {n} /\ (n \in H(r) <=> r = x)
  BY DEF Holding, Data
<1> HIDE DEF x
<1>3. \A r \in TS!Request : /\ Copies(r, o) = Cardinality(H(r)) /\ Copies(r, o) \in Nat
                            /\ IsFiniteSet(H(r))
  BY HoldingFinite DEF Owing
<1> HIDE DEF H, H2
<1>4. x \in DOMAIN o
  <2>1. Cardinality(H(x)) # 0
    BY <1>1, <1>2, <1>3, FS_EmptySet
  <2> QED BY <1>1, <1>3, <2>1 DEF Copies
<1>5. o2 = [e \in {z \in DOMAIN o : (IF z = x THEN o[z] - 1 ELSE o[z]) > 0} |->
               IF e = x THEN o[e] - 1 ELSE o[e]]
  <2>1. SetToBag({x}) = [e \in {x} |-> 1]
    BY DEF SetToBag
  <2> QED BY <2>1 DEF (-)
<1> HIDE DEF o2
<1>6. o \in [DOMAIN o -> Nat \ {0}] /\ DOMAIN o \subseteq TS!Request
  BY DEF Owing
<1>7. ASSUME NEW r \in TS!Request PROVE Copies(r, o2) = Cardinality(H2(r))
  <2>1. Copies(r, o2) = Copies(r, o) - IF r = x THEN 1 ELSE 0
    BY <1>4, <1>5, <1>6 DEF Copies
  <2>2. CASE r = x
    <3>1. H2(r) = H(r) \ {n} /\ n \in H(r)
      BY <1>2, <2>2
    <3>2. Cardinality(H(r) \ {n}) = Cardinality(H(r)) - 1
      BY <1>3, <3>1, FS_RemoveElement
    <3> QED BY <1>3, <2>1, <2>2, <3>1, <3>2
  <2>3. CASE r # x
    <3>1. H2(r) = H(r)
      BY <1>2, <2>3
    <3> QED BY <1>3, <2>1, <2>3, <3>1
  <2> QED BY <2>2, <2>3
<1>8. DOMAIN o2 \subseteq TS!Request /\ o2 \in [DOMAIN o2 -> Nat \ {0}]
  BY <1>5, <1>6
<1>9. Owing(o2, [fn EXCEPT ![n] = NoFn], [time EXCEPT ![n] = 0], [own EXCEPT ![n] = 0])
  BY <1>7, <1>8 DEF Owing, H2
<1> QED BY <1>1, <1>4, <1>9 DEF o2, x

\* Only the list a node is in, its task and its time count.
LEMMA OwingSame ==
    ASSUME NEW o, NEW fn, NEW time, NEW own, NEW own2, Owing(o, fn, time, own),
           \A n \in Node : (own[n] = 0 <=> own2[n] = 0) /\ (own[n] # 0 => ListOf(own[n]) = ListOf(own2[n]))
    PROVE  Owing(o, fn, time, own2)
<1>1. \A r : Holding(fn, time, own2, r) = Holding(fn, time, own, r)
  BY DEF Holding
<1> QED BY <1>1 DEF Owing

\* The lists that are given up.
LEMMA OwingKept ==
    ASSUME NEW o, NEW fn, NEW time, NEW own, Owing(o, fn, time, own),
           NEW fn2, NEW time2, NEW own2, NEW keep, keep \subseteq DOMAIN o,
           \A n \in Node : own2[n] = IF own[n] # 0 /\ Req(ListOf(own[n]), fn[n], time[n]) \in keep
                                     THEN own[n] ELSE 0,
           \A n \in Node : own2[n] # 0 => fn2[n] = fn[n] /\ time2[n] = time[n]
    PROVE  Owing([e \in keep |-> o[e]], fn2, time2, own2)
<1> DEFINE o2 == [e \in keep |-> o[e]]
<1>1. ASSUME NEW r PROVE Holding(fn2, time2, own2, r) = IF r \in keep THEN Holding(fn, time, own, r) ELSE {}
  <2>1. ASSUME NEW n \in Node
        PROVE  n \in Holding(fn2, time2, own2, r) <=> r \in keep /\ n \in Holding(fn, time, own, r)
    <3>1. CASE own2[n] = 0
      BY <3>1 DEF Holding
    <3>2. CASE own2[n] # 0
      <4>1. own2[n] = own[n] /\ own[n] # 0 /\ fn2[n] = fn[n] /\ time2[n] = time[n]
            /\ Req(ListOf(own[n]), fn[n], time[n]) \in keep
        BY <3>2
      <4> QED BY <4>1 DEF Holding
    <3> QED BY <3>1, <3>2
  <2> QED BY <2>1 DEF Holding
<1>2. \A r \in TS!Request : Copies(r, o2) = Cardinality(Holding(fn2, time2, own2, r))
  BY <1>1, FS_EmptySet DEF Owing, Copies
<1>3. DOMAIN o2 \subseteq TS!Request /\ o2 \in [DOMAIN o2 -> Nat \ {0}]
  BY DEF Owing
<1> QED BY <1>2, <1>3 DEF Owing

-----------------------------------------------------------------------------
(* The calls that change the lists leave everything in order.              *)

LEMMA HandlesOf ==
    ASSUME NEW r, NEW hd, NEW st, RootsOK(r, hd, st), NEW l \in Lists,
           l = "booted" => \A i \in 1..Len(st) : st[i].pc # "bootfn",
           l = "reset" => \A i \in 1..Len(st) : st[i].pc # "resetfn"
    PROVE  hd[l] = r[Code(l)]
BY CodeIs DEF RootsOK, Lists

LEMMA FrameTypes ==
    ASSUME NEW st, NEW hd, NEW b, NEW q, NEW d, FramesOK(st, hd, b, q, d)
    PROVE  /\ \A i \in 1..Len(st) : st[i] \in FrameSet
           /\ \A i \in 1..Len(st) :
                 st[i].pc \in {"take", "sys", "sysfn", "imm", "boot", "reset"} => st[i].task \in Node
<1>1. \A i \in 1..Len(st) : st[i] \in FrameSet
  BY DEF FramesOK
<1>2. \A i \in 1..Len(st) : st[i].task \in Node \cup {Nil}
  BY <1>1 DEF FrameSet
<1> QED BY <1>1, <1>2 DEF FramesOK, FrameOK

LEMMA DelayedHandle == Code("delayed") = -2 /\ -2 \in Handle /\ "delayed" \in Lists /\ ListOf(-2) = "delayed"
<1>1. "delayed" \in Lists
  BY DEF Lists
<1> QED BY <1>1, CodeIs, ListOfIs

\* task_add_immediate, task_add_delayed, task_add_systick, task_run_on_startup, task_run_on_reset
LEMMA Adding ==
    ASSUME NEW p, NEW o, NEW c, NEW st, NEW b, NEW q, NEW d, Good(p, o, c, st, b, q, d),
           NEW l \in Lists, l = "booted" => b # "up",
           l = "reset" => \A i \in 1..Len(st) : st[i].pc # "resetfn",
           NEW f \in Task, NEW t \in Times, l = "delayed" => 1 < Half /\ Off(t, c) < Half
    PROVE  Good(Add(p, l, f, t), OwedAdd(o, p, l, f, t), c, st, b, q, d)
<1>1. CASE ~CanAlloc(p)
  BY <1>1 DEF Add, OwedAdd
<1>2. CASE CanAlloc(p)
  <2> DEFINE h == Code(l)
             s == Add(p, l, f, t)
             o2 == OwedAdd(o, p, l, f, t)
  <2>1. PICK r, own, rank : InOrder(p, o, c, st, b, q, d, r, own, rank)
    BY DEF Good
  <2>2. /\ PoolOK(p, c, r, own, rank) /\ RootsOK(r, p.head, st)
        /\ Owned(own, p.time, c, st) /\ FramesOK(st, p.head, b, q, d)
        /\ Owing(o, p.fn, p.time, own)
    BY <2>1 DEF InOrder
  <2>3. /\ h \in Handle /\ h \in -5..-1 /\ (h = -2 <=> l = "delayed") /\ ListOf(h) = l
        /\ \A k \in Lists : Code(k) = h => k = l
    BY CodeIs, ListOfIs
  <2>4. \A i \in 1..Len(st) : l = "booted" => st[i].pc # "bootfn" /\ st[i].pc # "boot"
    BY <2>2 DEF FramesOK, FrameOK, StartupPcs
  <2>5. p.head[l] = r[h]
    BY <2>2, <2>4, HandlesOf
  <2>6. PICK n \in Node, m \in Node \cup {Nil} :
           /\ own[n] = 0 /\ (m = Nil => r[h] = Nil \/ l = "delayed")
           /\ s.fn = [p.fn EXCEPT ![n] = f] /\ s.time = [p.time EXCEPT ![n] = t]
           /\ s.head = IF m = Nil THEN [p.head EXCEPT ![l] = n] ELSE p.head
           /\ PoolOK(s, c, RootIn(r, h, n, m), [own EXCEPT ![n] = h], RankIn(own, rank, h, n, m))
    <3>1. h \in Handle /\ (h = -2 <=> l = "delayed")
      BY <2>3
    <3>2. PoolOK(p, c, r, own, rank) /\ p.head[l] = r[h] /\ (l = "delayed" => 1 < Half /\ Off(t, c) < Half)
      BY <2>2, <2>5
    <3> HIDE DEF h
    <3>3. Added(p, Add(p, l, f, t), c, r, own, rank, l, h, f, t)
      BY <1>2, <3>1, <3>2, AddOne
    <3> QED BY <3>3 DEF Added
  <2> DEFINE r2 == RootIn(r, h, n, m)
             own2 == [own EXCEPT ![n] = h]
  <2>7. Data(p.fn, p.time, own) /\ r \in [Handle -> Node \cup {Nil}] /\ p.head \in [Lists -> Node \cup {Nil}]
    BY <2>2, PoolData DEF PoolOK, Pools
  <2>8. /\ \A k \in Handle : r2[k] = IF k = h /\ m = Nil THEN n ELSE r[k]
        /\ \A k \in Lists : s.head[k] = IF k = l /\ m = Nil THEN n ELSE p.head[k]
    BY <2>3, <2>6, <2>7 DEF RootIn
  <2>9. \A k \in Node : own[k] # 0 => own2[k] = own[k] /\ s.time[k] = p.time[k]
    BY <2>6, <2>7 DEF Data
  <2> HIDE DEF r2, own2, s, o2, h
  <2>10. FramesOK(st, s.head, b, q, d)
    <3>1. \A i \in 1..Len(st) : l = "reset" /\ m = Nil => st[i].pc # "reset"
      BY <2>2, <2>5, <2>6 DEF FramesOK, FrameOK
    <3>2. /\ s.head["booted"] = p.head["booted"] \/ \A i \in 1..Len(st) : st[i].pc # "boot"
          /\ s.head["reset"] = p.head["reset"] \/ \A i \in 1..Len(st) : st[i].pc # "reset"
      BY <2>4, <2>8, <3>1 DEF Lists
    <3> QED BY <2>2, <3>2, FramesHeads
  <2>11. RootsOK(r2, s.head, st)
    <3>1. \A k \in Lists : r2[Code(k)] = IF k = l /\ m = Nil THEN n ELSE r[Code(k)]
      BY <2>3, <2>8, CodeIs DEF h
    <3>2. \A i \in 1..MaxDepth : r2[i] = r[i]
      <4>1. MaxDepth \in Nat
        BY PoolAssumption
      <4>2. \A i \in 1..MaxDepth : i \in Handle /\ i # h
        BY <2>3, <4>1 DEF Handle
      <4> QED BY <2>8, <4>2
    <3>3. /\ r2[-1] = IF l = "immediate" /\ m = Nil THEN n ELSE r[-1]
          /\ r2[-2] = IF l = "delayed" /\ m = Nil THEN n ELSE r[-2]
          /\ r2[-3] = IF l = "systick" /\ m = Nil THEN n ELSE r[-3]
          /\ r2[-4] = IF l = "booted" /\ m = Nil THEN n ELSE r[-4]
          /\ r2[-5] = IF l = "reset" /\ m = Nil THEN n ELSE r[-5]
      BY <3>1, CodeIs DEF Lists
    <3>4. /\ s.head["immediate"] = IF l = "immediate" /\ m = Nil THEN n ELSE p.head["immediate"]
          /\ s.head["delayed"] = IF l = "delayed" /\ m = Nil THEN n ELSE p.head["delayed"]
          /\ s.head["systick"] = IF l = "systick" /\ m = Nil THEN n ELSE p.head["systick"]
          /\ s.head["booted"] = IF l = "booted" /\ m = Nil THEN n ELSE p.head["booted"]
          /\ s.head["reset"] = IF l = "reset" /\ m = Nil THEN n ELSE p.head["reset"]
      BY <2>8 DEF Lists
    <3> QED BY <2>2, <2>4, <3>2, <3>3, <3>4 DEF RootsOK
  <2>12. Owned(own2, s.time, c, st)
    <3>1. \A i \in 1..Len(st) : st[i].pc \in {"take", "sys", "sysfn"} =>
             st[i].task \in Node /\ own[st[i].task] # 0
      BY <2>2, FrameTypes, NilIs DEF Owned
    <3> QED BY <2>2, <2>9, <3>1 DEF Owned
  <2>13. Owing(o2, s.fn, s.time, own2)
    <3>1. o2 = o (+) SetToBag({Req(ListOf(h), f, t)})
      BY <1>2, <2>3 DEF OwedAdd, o2
    <3>2. Owing(o (+) SetToBag({Req(ListOf(h), f, t)}),
                [p.fn EXCEPT ![n] = f], [p.time EXCEPT ![n] = t], [own EXCEPT ![n] = h])
      BY <2>2, <2>3, <2>6, <2>7, OwingMore
    <3> QED BY <2>6, <3>1, <3>2 DEF own2
  <2>14. PoolOK(s, c, r2, own2, RankIn(own, rank, h, n, m))
    BY <2>6 DEF r2, own2
  <2>15. Good(s, o2, c, st, b, q, d)
    BY <2>10, <2>11, <2>12, <2>13, <2>14 DEF Good, InOrder
  <2> QED BY <2>15 DEF s, o2
<1> QED BY <1>1, <1>2

\* task_delete
LEMMA Deleting ==
    ASSUME NEW p, NEW o, NEW c, NEW st, NEW b, NEW q, NEW d, Good(p, o, c, st, b, q, d),
           \A i \in 1..Len(st) : st[i].pc # "take", NEW f
    PROVE  /\ Good(Delete(p, f), OwedDelete(o, p, f), c, st, b, q, d)
           /\ Found(p, f) # Nil => /\ Req("delayed", f, p.time[Found(p, f)]) \in DOMAIN o
                                   /\ DOMAIN o \subseteq TS!Request
<1> DEFINE n == Found(p, f)
<1>1. CASE n = Nil
  BY <1>1 DEF Delete, OwedDelete
<1>2. CASE n # Nil
  <2> DEFINE s == Free(Unlink(p, "delayed", n), n)
             o2 == OwedDelete(o, p, f)
  <2>1. PICK r, own, rank : InOrder(p, o, c, st, b, q, d, r, own, rank)
    BY DEF Good
  <2>2. /\ PoolOK(p, c, r, own, rank) /\ RootsOK(r, p.head, st)
        /\ Owned(own, p.time, c, st) /\ FramesOK(st, p.head, b, q, d)
        /\ Owing(o, p.fn, p.time, own)
    BY <2>1 DEF InOrder
  <2>3. p.head["delayed"] = r[-2]
    BY <2>2 DEF RootsOK
  <2>4. n \in Node /\ own[n] = -2 /\ p.fn[n] = f
    BY <1>2, <2>2, <2>3, FoundIs
  <2>5. /\ s.head = [p.head EXCEPT !["delayed"] = s.head["delayed"]]
        /\ s.fn = [p.fn EXCEPT ![n] = NoFn] /\ s.time = [p.time EXCEPT ![n] = 0]
        /\ PoolOK(s, c, [r EXCEPT ![-2] = s.head["delayed"]], [own EXCEPT ![n] = 0], RankOut(own, rank, n))
    <3> HIDE DEF n
    <3> QED BY <2>2, <2>3, <2>4, DelayedHandle, FreeAny
  <2>6. Delete(p, f) = s
    BY <1>2 DEF Delete
  <2> DEFINE r2 == [r EXCEPT ![-2] = s.head["delayed"]]
             own2 == [own EXCEPT ![n] = 0]
  <2>7. /\ Data(p.fn, p.time, own) /\ (own[n] # 0 => p.fn[n] \in Task)
        /\ r \in [Handle -> Node \cup {Nil}] /\ p.head \in [Lists -> Node \cup {Nil}]
    BY <2>2, <2>4, PoolData DEF PoolOK, Pools
  <2>8. /\ Req("delayed", f, p.time[n]) \in DOMAIN o
        /\ Owing(o2, s.fn, s.time, own2)
    <3>1. own[n] # 0 /\ ListOf(own[n]) = "delayed"
      BY <2>4, DelayedHandle
    <3>2. LET x == Req(ListOf(own[n]), p.fn[n], p.time[n])
          IN  /\ x \in DOMAIN o /\ x \in TS!Request
              /\ Owing(o (-) SetToBag({x}),
                       [p.fn EXCEPT ![n] = NoFn], [p.time EXCEPT ![n] = 0], [own EXCEPT ![n] = 0])
      <4> HIDE DEF n
      <4> QED BY <2>2, <2>4, <2>7, <3>1, OwingLess
    <3>3. o2 = o (-) SetToBag({Req("delayed", f, p.time[n])})
      BY <1>2 DEF OwedDelete
    <3> HIDE DEF n, s, o2
    <3> QED BY <2>4, <2>5, <3>1, <3>2, <3>3
  <2>9. /\ \A k \in Handle : k # -2 => r2[k] = r[k]
        /\ r2[-2] = s.head["delayed"]
        /\ \A k \in Lists : k # "delayed" => s.head[k] = p.head[k]
    <3> HIDE DEF s
    <3> QED BY <2>5, <2>7, DelayedHandle
  <2>10. \A k \in Node : own[k] # -2 => own2[k] = own[k]
    BY <2>4, <2>7 DEF Data
  <2> HIDE DEF r2, own2, s, o2, n
  <2>11. FramesOK(st, s.head, b, q, d)
    BY <2>2, <2>9, FramesHeads DEF Lists
  <2>12. RootsOK(r2, s.head, st)
    <3>1. /\ -1 \in Handle /\ -3 \in Handle /\ -4 \in Handle /\ -5 \in Handle
          /\ \A i \in 1..MaxDepth : i \in Handle /\ i # -2
      BY PoolAssumption DEF Handle
    <3> QED BY <2>2, <2>9, <3>1 DEF RootsOK, Lists
  <2>13. Owned(own2, s.time, c, st)
    <3>1. \A i \in 1..Len(st) : st[i].pc \in {"sys", "sysfn"} => st[i].task \in Node
      BY <2>2, FrameTypes
    <3> QED BY <2>2, <2>10, <3>1 DEF Owned
  <2>14. PoolOK(s, c, r2, own2, RankOut(own, rank, n))
    BY <2>5 DEF r2, own2
  <2>15. Good(s, o2, c, st, b, q, d)
    BY <2>8, <2>11, <2>12, <2>13, <2>14 DEF Good, InOrder
  <2> QED BY <2>2, <2>6, <2>8, <2>15 DEF o2, n, Owing
<1> QED BY <1>1, <1>2

-----------------------------------------------------------------------------
(* Activations that go on, return or begin.                                *)

LEMMA HandlesAre == /\ -1 \in Handle /\ -2 \in Handle /\ -3 \in Handle /\ -4 \in Handle /\ -5 \in Handle
                    /\ \A i \in 1..MaxDepth : i \in Handle /\ i # 0 /\ i \in Nat
                    /\ MaxDepth \in Nat
BY PoolAssumption DEF Handle

\* The innermost activation goes on as fr, with pool p2.
GoesOn(p, c, st, r, own, p2, r2, own2, fr) ==
    LET top == st[Len(st)]
    IN  /\ fr.pc \in StartupPcs => top.pc \in StartupPcs
        /\ r2[-1] = p2.head["immediate"] /\ r2[-2] = p2.head["delayed"] /\ r2[-3] = p2.head["systick"]
        /\ \A i \in 1..MaxDepth : r2[i] = IF i # Len(st) THEN r[i]
                                          ELSE IF fr.pc \in {"imm", "immfn"} THEN fr.task ELSE Nil
        /\ r2[-4] = IF fr.pc = "bootfn" THEN fr.task
                    ELSE IF top.pc = "bootfn" THEN p2.head["booted"] ELSE r[-4]
        /\ r2[-5] = IF fr.pc = "resetfn" THEN fr.task
                    ELSE IF top.pc = "resetfn" THEN p2.head["reset"] ELSE r[-5]
        /\ p2.head["booted"] = p.head["booted"] \/ top.pc = "bootfn"
        /\ p2.head["reset"] = p.head["reset"] \/ top.pc = "resetfn"
        /\ \A n \in Node : own[n] = -3 => own2[n] = -3
        /\ fr.pc = "take" => own2[fr.task] = -2 /\ NotAfter(p2.time[fr.task], c)
        /\ fr.pc \in {"sys", "sysfn"} => own2[fr.task] = -3

LEMMA SetKeeps ==
    ASSUME NEW p, NEW o, NEW c, NEW st, NEW b, NEW q, NEW d, NEW r, NEW own, NEW rank,
           InOrder(p, o, c, st, b, q, d, r, own, rank), st # <<>>,
           NEW p2, NEW o2, NEW r2, NEW own2, NEW rank2,
           PoolOK(p2, c, r2, own2, rank2), Owing(o2, p2.fn, p2.time, own2),
           NEW fr \in FrameSet, FrameOK(fr, p2.head, b, q, d),
           GoesOn(p, c, st, r, own, p2, r2, own2, fr)
    PROVE  InOrder(p2, o2, c, [st EXCEPT ![Len(st)] = fr], b, q, d, r2, own2, rank2)
<1> DEFINE top == st[Len(st)]
<1> USE DEF GoesOn
<1> DEFINE s == [st EXCEPT ![Len(st)] = fr]
<1>1. /\ RootsOK(r, p.head, st) /\ Owned(own, p.time, c, st) /\ FramesOK(st, p.head, b, q, d)
  BY DEF InOrder
<1>2. /\ s \in Seq(FrameSet) /\ Len(s) = Len(st) /\ Len(st) \in 1..Len(st) /\ Len(st) \in 1..MaxDepth
      /\ \A i \in 1..Len(st) : s[i] = IF i = Len(st) THEN fr ELSE st[i]
  <2>1. st \in Seq(FrameSet) /\ Len(st) <= MaxDepth
    BY <1>1 DEF FramesOK
  <2> QED BY <2>1, SetTopIs, TopIs, HandlesAre
<1>3. \A i \in 1..Len(st) : i # Len(st) /\ top.pc \in StartupPcs => st[i].pc \notin StartupPcs
  BY <1>1, <1>2 DEF FramesOK
<1>4. FramesOK(s, p2.head, b, q, d)
  <2>1. /\ p2.head["booted"] = p.head["booted"] \/ \A i \in 1..Len(st) : st[i].pc # "boot"
        /\ p2.head["reset"] = p.head["reset"] \/ \A i \in 1..Len(st) : st[i].pc # "reset"
    BY <1>3 DEF StartupPcs
  <2>2. FramesOK(st, p2.head, b, q, d)
    BY <1>1, <2>1, FramesHeads
  <2> HIDE DEF s
  <2> QED BY <2>2, FramesSet DEF s
<1> HIDE DEF s
<1>5. Owned(own2, p2.time, c, s)
  <2>1. \A i \in 1..Len(st) : st[i].pc \in {"sys", "sysfn"} => st[i].task \in Node
    BY <1>1, FrameTypes
  <2>2. \A i \in 1..Len(st) : i # Len(st) => st[i].pc # "take"
    BY <1>1 DEF FramesOK
  <2> QED BY <1>1, <1>2, <2>1, <2>2 DEF Owned
<1>6. RootsOK(r2, p2.head, s)
  <2>1. \A i \in 1..MaxDepth : r2[i] = IF i \in 1..Len(s) /\ s[i].pc \in {"imm", "immfn"}
                                       THEN s[i].task ELSE Nil
    BY <1>1, <1>2 DEF RootsOK
  <2>2. /\ (\A i \in 1..Len(s) : s[i].pc # "bootfn") => r2[-4] = p2.head["booted"]
        /\ \A i \in 1..Len(s) : s[i].pc = "bootfn" => r2[-4] = s[i].task
    <3>1. CASE fr.pc = "bootfn"
      BY <1>2, <1>3, <3>1 DEF StartupPcs
    <3>2. CASE fr.pc # "bootfn" /\ top.pc = "bootfn"
      BY <1>2, <1>3, <3>2 DEF StartupPcs
    <3>3. CASE fr.pc # "bootfn" /\ top.pc # "bootfn"
      BY <1>1, <1>2, <3>3 DEF RootsOK
    <3> QED BY <3>1, <3>2, <3>3
  <2>3. /\ (\A i \in 1..Len(s) : s[i].pc # "resetfn") => r2[-5] = p2.head["reset"]
        /\ \A i \in 1..Len(s) : s[i].pc = "resetfn" => r2[-5] = s[i].task
    <3>1. CASE fr.pc = "resetfn"
      BY <1>2, <1>3, <3>1 DEF StartupPcs
    <3>2. CASE fr.pc # "resetfn" /\ top.pc = "resetfn"
      BY <1>2, <1>3, <3>2 DEF StartupPcs
    <3>3. CASE fr.pc # "resetfn" /\ top.pc # "resetfn"
      BY <1>1, <1>2, <3>3 DEF RootsOK
    <3> QED BY <3>1, <3>2, <3>3
  <2> QED BY <2>1, <2>2, <2>3 DEF RootsOK
<1>7. InOrder(p2, o2, c, s, b, q, d, r2, own2, rank2)
  BY <1>4, <1>5, <1>6 DEF InOrder
<1> QED BY <1>7 DEF s

\* The innermost activation, which has detached no list, returns with pool p2.
Returns(p, st, r, p2) ==
    LET top == st[Len(st)]
    IN  /\ p2.fn = p.fn /\ p2.time = p.time /\ top.pc \notin {"imm", "immfn"}
        /\ \A l \in Lists \ {"booted", "reset"} : p2.head[l] = p.head[l]
        /\ p2.head["booted"] = IF top.pc = "bootfn" THEN r[-4] ELSE p.head["booted"]
        /\ p2.head["reset"] = IF top.pc = "resetfn" THEN r[-5] ELSE p.head["reset"]

LEMMA PopKeeps ==
    ASSUME NEW p, NEW o, NEW c, NEW st, NEW b, NEW q, NEW d, NEW r, NEW own, NEW rank,
           InOrder(p, o, c, st, b, q, d, r, own, rank), st # <<>>,
           NEW p2, PoolOK(p2, c, r, own, rank), Returns(p, st, r, p2)
    PROVE  InOrder(p2, o, c, SubSeq(st, 1, Len(st) - 1), b, q, d, r, own, rank)
<1> DEFINE top == st[Len(st)]
<1> USE DEF Returns
<1> DEFINE s == SubSeq(st, 1, Len(st) - 1)
<1>1. /\ RootsOK(r, p.head, st) /\ Owned(own, p.time, c, st) /\ FramesOK(st, p.head, b, q, d)
      /\ Owing(o, p2.fn, p2.time, own)
  BY DEF InOrder
<1>2. /\ s \in Seq(FrameSet) /\ Len(s) = Len(st) - 1 /\ Len(s) \in Nat
      /\ \A i \in 1..Len(s) : s[i] = st[i] /\ i # Len(st) /\ i \in 1..Len(st)
      /\ Len(st) \in 1..Len(st) /\ Len(st) \in Nat
  BY <1>1, PopIs, TopIs DEF FramesOK
<1>3. \A i \in 1..Len(st) : i # Len(st) /\ top.pc \in StartupPcs => st[i].pc \notin StartupPcs
  BY <1>1, <1>2 DEF FramesOK
<1>4. FramesOK(s, p2.head, b, q, d)
  <2>1. /\ p2.head["booted"] = p.head["booted"] \/ \A i \in 1..Len(st) : st[i].pc # "boot"
        /\ p2.head["reset"] = p.head["reset"] \/ \A i \in 1..Len(st) : st[i].pc # "reset"
    BY <1>3 DEF StartupPcs
  <2>2. FramesOK(st, p2.head, b, q, d)
    BY <1>1, <2>1, FramesHeads
  <2> HIDE DEF s
  <2> QED BY <2>2, FramesPop DEF s
<1> HIDE DEF s
<1>5. Owned(own, p2.time, c, s)
  BY <1>1, <1>2 DEF Owned
<1>6. RootsOK(r, p2.head, s)
  <2>1. \A i \in 1..MaxDepth : r[i] = IF i \in 1..Len(s) /\ s[i].pc \in {"imm", "immfn"}
                                      THEN s[i].task ELSE Nil
    <3>1. \A i \in 1..Len(st) : i \in 1..Len(s) \/ i = Len(st)
      BY <1>2
    <3> QED BY <1>1, <1>2, <3>1 DEF RootsOK
  <2>2. \A i \in 1..Len(st) : i # Len(st) => i \in 1..Len(s) /\ s[i] = st[i]
    BY <1>2
  <2>3. /\ (\A i \in 1..Len(s) : s[i].pc # "bootfn") => r[-4] = p2.head["booted"]
        /\ \A i \in 1..Len(s) : s[i].pc = "bootfn" => r[-4] = s[i].task
    <3>1. \A i \in 1..Len(s) : s[i].pc = "bootfn" => r[-4] = s[i].task
      BY <1>1, <1>2 DEF RootsOK
    <3>2. ASSUME \A i \in 1..Len(s) : s[i].pc # "bootfn" PROVE r[-4] = p2.head["booted"]
      <4>1. CASE top.pc = "bootfn"
        BY <4>1
      <4>2. CASE top.pc # "bootfn"
        <5>1. \A i \in 1..Len(st) : st[i].pc # "bootfn"
          BY <2>2, <3>2, <4>2
        <5> QED BY <1>1, <4>2, <5>1 DEF RootsOK
      <4> QED BY <4>1, <4>2
    <3> QED BY <3>1, <3>2
  <2>4. /\ (\A i \in 1..Len(s) : s[i].pc # "resetfn") => r[-5] = p2.head["reset"]
        /\ \A i \in 1..Len(s) : s[i].pc = "resetfn" => r[-5] = s[i].task
    <3>1. \A i \in 1..Len(s) : s[i].pc = "resetfn" => r[-5] = s[i].task
      BY <1>1, <1>2 DEF RootsOK
    <3>2. ASSUME \A i \in 1..Len(s) : s[i].pc # "resetfn" PROVE r[-5] = p2.head["reset"]
      <4>1. CASE top.pc = "resetfn"
        BY <4>1
      <4>2. CASE top.pc # "resetfn"
        <5>1. \A i \in 1..Len(st) : st[i].pc # "resetfn"
          BY <2>2, <3>2, <4>2
        <5> QED BY <1>1, <4>2, <5>1 DEF RootsOK
      <4> QED BY <4>1, <4>2
    <3> QED BY <3>1, <3>2
  <2> QED BY <1>1, <2>1, <2>3, <2>4 DEF RootsOK, Lists
<1>7. InOrder(p2, o, c, s, b, q, d, r, own, rank)
  BY <1>1, <1>4, <1>5, <1>6 DEF InOrder
<1> QED BY <1>7 DEF s

\* An activation begins as fr, with pool p2.
Begins(p, st, r, own, p2, r2, own2, fr) ==
    /\ st # <<>> => st[Len(st)].pc # "take"
    /\ fr.pc \in StartupPcs => \A i \in 1..Len(st) : st[i].pc \notin StartupPcs
    /\ fr.pc \in {"imm", "gate", "boot", "reset", "halt"}
    /\ r2[-1] = p2.head["immediate"] /\ r2[-2] = p2.head["delayed"] /\ r2[-3] = p2.head["systick"]
    /\ r2[-4] = r[-4] /\ r2[-5] = r[-5]
    /\ \A i \in 1..MaxDepth : r2[i] = IF i # Len(st) + 1 THEN r[i]
                                      ELSE IF fr.pc = "imm" THEN fr.task ELSE Nil
    /\ p2.head["booted"] = p.head["booted"] /\ p2.head["reset"] = p.head["reset"]
    /\ \A n \in Node : own[n] = -3 => own2[n] = -3

LEMMA PushKeeps ==
    ASSUME NEW p, NEW o, NEW c, NEW st, NEW b, NEW q, NEW d, NEW r, NEW own, NEW rank,
           InOrder(p, o, c, st, b, q, d, r, own, rank), Len(st) < MaxDepth,
           NEW p2, NEW r2, NEW own2, NEW rank2,
           PoolOK(p2, c, r2, own2, rank2), Owing(o, p2.fn, p2.time, own2),
           NEW fr \in FrameSet, FrameOK(fr, p2.head, b, q, d),
           Begins(p, st, r, own, p2, r2, own2, fr)
    PROVE  InOrder(p2, o, c, Append(st, fr), b, q, d, r2, own2, rank2)
<1> USE DEF Begins
<1> DEFINE s == Append(st, fr)
<1>1. /\ RootsOK(r, p.head, st) /\ Owned(own, p.time, c, st) /\ FramesOK(st, p.head, b, q, d)
  BY DEF InOrder
<1>2. /\ s \in Seq(FrameSet) /\ Len(s) = Len(st) + 1 /\ Len(st) \in Nat
      /\ \A i \in 1..Len(s) : s[i] = IF i = Len(s) THEN fr ELSE st[i]
  BY <1>1, PushIs DEF FramesOK
<1>3. \A i \in 1..Len(st) : i \in 1..Len(s) /\ i # Len(s) /\ s[i] = st[i]
  BY <1>2
<1>4. FramesOK(s, p2.head, b, q, d)
  <2>1. FramesOK(st, p2.head, b, q, d)
    BY <1>1, FramesHeads
  <2> HIDE DEF s
  <2> QED BY <2>1, FramesPush DEF s
<1> HIDE DEF s
<1>5. \A i \in 1..Len(s) : i # Len(s) => i \in 1..Len(st)
  BY <1>2
<1>6. Owned(own2, p2.time, c, s)
  <2>1. \A i \in 1..Len(st) : st[i].pc \in {"sys", "sysfn"} => st[i].task \in Node
    BY <1>1, FrameTypes
  <2>2. \A i \in 1..Len(st) : st[i].pc # "take"
    <3>1. \A i \in 1..Len(st) : i = Len(st) => st # <<>>
      BY <1>2
    <3> QED BY <1>1, <3>1 DEF FramesOK
  <2> QED BY <1>1, <1>2, <1>5, <2>1, <2>2 DEF Owned
<1>7. RootsOK(r2, p2.head, s)
  <2>1. \A i \in 1..MaxDepth : r2[i] = IF i \in 1..Len(s) /\ s[i].pc \in {"imm", "immfn"}
                                       THEN s[i].task ELSE Nil
    BY <1>1, <1>2, <1>3, <1>5 DEF RootsOK
  <2> QED BY <1>1, <1>2, <1>3, <1>5, <2>1 DEF RootsOK
<1>8. InOrder(p2, o, c, s, b, q, d, r2, own2, rank2)
  BY <1>4, <1>6, <1>7 DEF InOrder
<1> QED BY <1>8 DEF s

LEMMA FreshSet ==
    ASSUME NEW c, NEW st \in Seq(FrameSet), Fresh(c, st), st # <<>>, st[Len(st)].pc # "halt",
           NEW fr \in FrameSet,
           fr.pc \in PollPcs => fr.now = c \/ (st[Len(st)].pc \in PollPcs /\ fr.now = st[Len(st)].now)
    PROVE  Fresh(c, [st EXCEPT ![Len(st)] = fr])
<1> DEFINE s == [st EXCEPT ![Len(st)] = fr]
<1>1. /\ Len(s) = Len(st) /\ Len(st) \in Nat /\ Len(st) \in 1..Len(st)
      /\ \A i \in 1..Len(st) : s[i] = IF i = Len(st) THEN fr ELSE st[i]
  BY SetTopIs, TopIs
<1> HIDE DEF s
<1>2. ASSUME NEW i \in 1..Len(s), s[i].pc \in PollPcs, \A j \in 1..Len(s) : s[j].pc = "halt" => j < i
      PROVE  c = s[i].now \/ c = (s[i].now + 1) % Period
  <2>1. \A j \in 1..Len(st) : st[j].pc = "halt" => j < i
    BY <1>1, <1>2
  <2>2. CASE i = Len(st) /\ fr.now # c
    BY <1>1, <1>2, <2>1, <2>2 DEF Fresh
  <2>3. CASE i = Len(st) /\ fr.now = c
    BY <1>1, <2>3
  <2>4. CASE i # Len(st)
    BY <1>1, <1>2, <2>1, <2>4 DEF Fresh
  <2> QED BY <2>2, <2>3, <2>4
<1>3. Fresh(c, s)
  BY <1>2 DEF Fresh
<1> QED BY <1>3 DEF s

LEMMA FreshPop ==
    ASSUME NEW c, NEW st \in Seq(FrameSet), Fresh(c, st), st # <<>>, st[Len(st)].pc # "halt"
    PROVE  Fresh(c, SubSeq(st, 1, Len(st) - 1))
<1> DEFINE s == SubSeq(st, 1, Len(st) - 1)
<1>1. /\ Len(s) = Len(st) - 1 /\ Len(s) \in Nat /\ Len(st) \in Nat
      /\ \A i \in 1..Len(s) : s[i] = st[i] /\ i # Len(st) /\ i \in 1..Len(st)
  BY PopIs, TopIs
<1> HIDE DEF s
<1>2. ASSUME NEW i \in 1..Len(s), s[i].pc \in PollPcs, \A j \in 1..Len(s) : s[j].pc = "halt" => j < i
      PROVE  c = s[i].now \/ c = (s[i].now + 1) % Period
  <2>1. \A j \in 1..Len(st) : j = Len(st) \/ (j \in 1..Len(s) /\ s[j] = st[j])
    <3>1. \A j \in 1..Len(st) : j = Len(st) \/ j \in 1..Len(s)
      <4> DEFINE N == Len(st)
                 M == Len(s)
      <4>1. N \in Nat /\ M \in Nat /\ M = N - 1
        BY <1>1
      <4> HIDE DEF N, M
      <4>2. \A j \in 1..N : j = N \/ j \in 1..M
        BY <4>1
      <4> QED BY <4>2 DEF N, M
    <3> QED BY <1>1, <3>1
  <2>2. \A j \in 1..Len(st) : st[j].pc = "halt" => j < i
    BY <1>2, <2>1
  <2> QED BY <1>1, <1>2, <2>2 DEF Fresh
<1>3. Fresh(c, s)
  BY <1>2 DEF Fresh
<1> QED BY <1>3 DEF s

LEMMA FreshPush ==
    ASSUME NEW c, NEW st \in Seq(FrameSet), Fresh(c, st), NEW fr \in FrameSet, fr.pc \notin PollPcs
    PROVE  Fresh(c, Append(st, fr))
<1> DEFINE s == Append(st, fr)
<1>1. /\ Len(s) = Len(st) + 1 /\ Len(st) \in Nat
      /\ \A i \in 1..Len(s) : s[i] = IF i = Len(s) THEN fr ELSE st[i]
  BY PushIs
<1> HIDE DEF s
<1>2. ASSUME NEW i \in 1..Len(s), s[i].pc \in PollPcs, \A j \in 1..Len(s) : s[j].pc = "halt" => j < i
      PROVE  c = s[i].now \/ c = (s[i].now + 1) % Period
  <2>1. i \in 1..Len(st) /\ s[i] = st[i]
    BY <1>1, <1>2
  <2>2. \A j \in 1..Len(st) : j \in 1..Len(s) /\ s[j] = st[j]
    BY <1>1
  <2>3. \A j \in 1..Len(st) : st[j].pc = "halt" => j < i
    BY <1>2, <2>2
  <2> QED BY <1>2, <2>1, <2>3 DEF Fresh
<1>3. Fresh(c, s)
  BY <1>2 DEF Fresh
<1> QED BY <1>3 DEF s

-----------------------------------------------------------------------------
(* The steps.                                                              *)

LEMMA GoodIs ==
    ASSUME NEW p, NEW o, NEW c, NEW st, NEW b, NEW q, NEW d, Good(p, o, c, st, b, q, d)
    PROVE  /\ p \in Pools /\ c \in Times /\ st \in Seq(FrameSet) /\ Len(st) <= MaxDepth
           /\ DOMAIN st = 1..Len(st) /\ Len(st) \in Nat
           /\ FramesOK(st, p.head, b, q, d)
<1>1. p \in Pools /\ c \in Times /\ FramesOK(st, p.head, b, q, d)
  BY DEF Good, InOrder, PoolOK
<1> QED BY <1>1 DEF FramesOK

LEMMA PostKeeps ==
    ASSUME IInv, NEW l \in Lists, NEW f \in Task, NEW d \in Delays \cup {0},
           PostTask(l, f, d), UNCHANGED <<stack, uCtl>>
    PROVE  IInv'
<1> DEFINE t == IF l = "delayed" THEN After(d) ELSE 0
           k == TargetList(l)
<1>1. Good(pool, owed, clock, stack, boot, rt, driver_started)
  BY DEF IInv
<1>2. clock \in Times /\ DOMAIN stack = 1..Len(stack)
  BY <1>1, GoodIs
<1>3. /\ k \in Lists /\ (k = "booted" => boot # "up") /\ (k = "delayed" <=> l = "delayed")
      /\ k = "reset" => \A i \in 1..Len(stack) : stack[i].pc # "resetfn"
  BY <1>2 DEF TargetList, PostTask, Lists
<1>4. t \in Times /\ (k = "delayed" => 1 < Half /\ Off(t, clock) < Half)
  <2>1. CASE l = "delayed"
    <3>1. d \in Delays
      BY <2>1 DEF PostTask
    <3> QED BY <1>2, <2>1, <3>1, OffNow DEF After
  <2>2. CASE l # "delayed"
    BY <1>3, <2>2, PoolAssumption DEF Times
  <2> QED BY <2>1, <2>2
<1>5. OwedAdd(owed, pool, k, f, After(d)) = OwedAdd(owed, pool, k, f, t)
  BY <1>3 DEF OwedAdd, Req
<1>6. pool' = Add(pool, k, f, t) /\ owed' = OwedAdd(owed, pool, k, f, t)
  BY <1>5 DEF PostTask
<1> HIDE DEF t, k
<1>7. Good(Add(pool, k, f, t), OwedAdd(owed, pool, k, f, t), clock, stack, boot, rt, driver_started)
  BY <1>1, <1>3, <1>4, Adding
<1> QED BY <1>6, <1>7 DEF IInv, uCtl

LEMMA CancelKeeps ==
    ASSUME IInv, NEW f, Cancel(f)
    PROVE  IInv'
<1>1. Good(pool, owed, clock, stack, boot, rt, driver_started)
  BY DEF IInv
<1>2. \A i \in 1..Len(stack) : stack[i].pc # "take"
  <2>1. /\ \A i \in 1..Len(stack) : i # Len(stack) => stack[i].pc # "take"
        /\ stack = <<>> => 1..Len(stack) = {}
    BY <1>1, GoodIs DEF FramesOK
  <2>2. stack # <<>> => stack[Len(stack)].pc # "take"
    BY DEF Cancel, InCode, Top, FnPcs
  <2> QED BY <2>1, <2>2
<1>3. Good(Delete(pool, f), OwedDelete(owed, pool, f), clock, stack, boot, rt, driver_started)
  BY <1>1, <1>2, Deleting
<1> QED BY <1>3 DEF IInv, Cancel, uCtl

\* Without races of st_go_idle() with the taking of a delayed task.
LEMMA GoIdleKeeps ==
    ASSUME IInv, ~CancelRaces, NEW f \in Task, NEW d \in Delays, StGoIdle(f, d)
    PROVE  IInv'
<1> DEFINE p == Delete(pool, f)
           o == OwedDelete(owed, pool, f)
           t == After(d)
<1>1. Good(pool, owed, clock, stack, boot, rt, driver_started)
  BY DEF IInv
<1>2. clock \in Times /\ DOMAIN stack = 1..Len(stack)
  BY <1>1, GoodIs
<1>3. \A i \in 1..Len(stack) : stack[i].pc # "take"
  BY <1>2 DEF StGoIdle
<1>4. Good(p, o, clock, stack, boot, rt, driver_started)
  BY <1>1, <1>3, Deleting
<1>5. t \in Times /\ 1 < Half /\ Off(t, clock) < Half
  BY <1>2, OffNow DEF After
<1>6. pool' = Add(p, "delayed", f, t) /\ owed' = OwedAdd(o, p, "delayed", f, t)
  BY DEF StGoIdle
<1> HIDE DEF p, o, t
<1>7. Good(Add(p, "delayed", f, t), OwedAdd(o, p, "delayed", f, t), clock, stack, boot, rt, driver_started)
  BY <1>4, <1>5, Adding DEF Lists
<1> QED BY <1>6, <1>7 DEF IInv, StGoIdle, uCtl

\* The activation at the top, and what it owns.
LEMMA TopHas ==
    ASSUME NEW p, NEW o, NEW c, NEW st, NEW b, NEW q, NEW d, NEW r, NEW own, NEW rank,
           InOrder(p, o, c, st, b, q, d, r, own, rank), st # <<>>,
           NEW top, top = st[Len(st)]
    PROVE  /\ top \in FrameSet /\ FrameOK(top, p.head, b, q, d) /\ Len(st) \in 1..MaxDepth
           /\ st \in Seq(FrameSet)
           /\ \A i \in 1..MaxDepth :
                 i = Len(st) => r[i] = IF top.pc \in {"imm", "immfn"} THEN top.task ELSE Nil
           /\ top.pc = "boot" => r[-4] = top.task
           /\ top.pc = "reset" => r[-5] = top.task
           /\ top.pc = "bootfn" => r[-4] = top.task
           /\ top.pc = "resetfn" => r[-5] = top.task
           /\ top.pc = "take" => own[top.task] = -2 /\ NotAfter(p.time[top.task], c)
           /\ top.pc \in {"sys", "sysfn"} => own[top.task] = -3
           /\ top.pc \in {"take", "sys", "sysfn", "imm", "boot", "reset"} => top.task \in Node
           /\ top.pc \notin {"boot", "bootfn"} /\ top.pc \in StartupPcs => r[-4] = p.head["booted"]
           /\ top.pc \notin {"reset", "resetfn"} /\ top.pc \in StartupPcs => r[-5] = p.head["reset"]
<1>1. RootsOK(r, p.head, st) /\ Owned(own, p.time, c, st) /\ FramesOK(st, p.head, b, q, d)
  BY DEF InOrder
<1>2. Len(st) \in 1..Len(st) /\ Len(st) \in 1..MaxDepth /\ st \in Seq(FrameSet)
  BY <1>1, TopIs, HandlesAre DEF FramesOK
<1>3. \A i \in 1..Len(st) : i # Len(st) /\ top.pc \in StartupPcs => st[i].pc \notin StartupPcs
  BY <1>1, <1>2 DEF FramesOK
<1>4. top.pc \in StartupPcs /\ top.pc # "bootfn" => r[-4] = p.head["booted"]
  <2>1. ASSUME top.pc \in StartupPcs, top.pc # "bootfn" PROVE \A i \in 1..Len(st) : st[i].pc # "bootfn"
    BY <1>3, <2>1 DEF StartupPcs
  <2> QED BY <1>1, <2>1 DEF RootsOK
<1>5. top.pc \in StartupPcs /\ top.pc # "resetfn" => r[-5] = p.head["reset"]
  <2>1. ASSUME top.pc \in StartupPcs, top.pc # "resetfn" PROVE \A i \in 1..Len(st) : st[i].pc # "resetfn"
    BY <1>3, <2>1 DEF StartupPcs
  <2> QED BY <1>1, <2>1 DEF RootsOK
<1>6. top \in FrameSet /\ FrameOK(top, p.head, b, q, d)
      /\ (top.pc \in {"take", "sys", "sysfn", "imm", "boot", "reset"} => top.task \in Node)
  BY <1>1, <1>2, FrameTypes DEF FramesOK
<1>7. /\ top.pc = "boot" => r[-4] = top.task
      /\ top.pc = "reset" => r[-5] = top.task
  BY <1>4, <1>5, <1>6 DEF FrameOK, StartupPcs
<1>8. \A i \in 1..MaxDepth :
         i = Len(st) => r[i] = IF top.pc \in {"imm", "immfn"} THEN top.task ELSE Nil
  BY <1>1, <1>2 DEF RootsOK
<1>9. /\ top.pc = "bootfn" => r[-4] = top.task
      /\ top.pc = "resetfn" => r[-5] = top.task
  BY <1>1, <1>2 DEF RootsOK
<1>10. /\ top.pc = "take" => own[top.task] = -2 /\ NotAfter(p.time[top.task], c)
       /\ top.pc \in {"sys", "sysfn"} => own[top.task] = -3
  BY <1>1, <1>2 DEF Owned
<1> QED BY <1>2, <1>4, <1>5, <1>6, <1>7, <1>8, <1>9, <1>10

\* The runs of task_run.
Runners == {<<"imm", "immediate", "immfn">>, <<"boot", "booted", "bootfn">>,
            <<"reset", "reset", "resetfn">>}

LEMMA RunKeeps ==
    ASSUME IInv, NEW pc, NEW l, NEW fnpc, <<pc, l, fnpc>> \in Runners, Run(pc, l, fnpc)
    PROVE  /\ IInv'
           /\ Req(l, pool.fn[Top.task], 0) \in DOMAIN owed /\ DOMAIN owed \subseteq TS!Request
<1> DEFINE n == Top.task
           fr == [Top EXCEPT !.pc = fnpc, !.task = pool.next[n], !.f = pool.fn[n]]
           p2 == Free(pool, n)
           o2 == owed (-) SetToBag({Req(l, pool.fn[n], 0)})
           h == IF pc = "imm" THEN Len(stack) ELSE Code(l)
<1>1. /\ stack # <<>> /\ Top.pc = pc /\ stack' = [stack EXCEPT ![Len(stack)] = fr]
      /\ pool' = p2 /\ owed' = o2 /\ UNCHANGED uCtl
  BY DEF Run, RunFrom, At, SetTop
<1>2. PICK r, own, rank : InOrder(pool, owed, clock, stack, boot, rt, driver_started, r, own, rank)
  BY DEF IInv, Good
<1>3. /\ PoolOK(pool, clock, r, own, rank) /\ RootsOK(r, pool.head, stack)
      /\ Owing(owed, pool.fn, pool.time, own)
  BY <1>2 DEF InOrder
<1>4. \/ pc = "imm" /\ l = "immediate" /\ fnpc = "immfn"
      \/ pc = "boot" /\ l = "booted" /\ fnpc = "bootfn"
      \/ pc = "reset" /\ l = "reset" /\ fnpc = "resetfn"
  BY DEF Runners
<1>5. /\ Top \in FrameSet /\ FrameOK(Top, pool.head, boot, rt, driver_started)
      /\ Len(stack) \in 1..MaxDepth /\ stack \in Seq(FrameSet)
      /\ r[Len(stack)] = IF Top.pc \in {"imm", "immfn"} THEN Top.task ELSE Nil
      /\ Top.pc = "boot" => r[-4] = Top.task
      /\ Top.pc = "reset" => r[-5] = Top.task
      /\ Top.pc \in {"imm", "boot", "reset"} => Top.task \in Node
      /\ Top.pc \notin {"boot", "bootfn"} /\ Top.pc \in StartupPcs => r[-4] = pool.head["booted"]
      /\ Top.pc \notin {"reset", "resetfn"} /\ Top.pc \in StartupPcs => r[-5] = pool.head["reset"]
  BY <1>1, <1>2, TopHas DEF Top
<1>6. /\ h \in Handle /\ r[h] = n /\ n \in Node /\ ListOf(h) = l /\ l \in Lists /\ l # "delayed"
      /\ (pc = "imm" => h = Len(stack)) /\ (pc = "boot" => h = -4) /\ (pc = "reset" => h = -5)
      /\ h # -1 /\ h # -2 /\ h # -3
  <2>1. CASE pc = "imm"
    <3>1. h = Len(stack) /\ h \in Handle /\ ListOf(h) = "immediate" /\ h \in Nat
      BY <1>5, <2>1, HandlesAre, ListOfIs
    <3> QED BY <1>1, <1>4, <1>5, <2>1, <3>1 DEF Lists
  <2>2. CASE pc = "boot"
    <3>1. h = -4 /\ h \in Handle /\ ListOf(h) = "booted"
      BY <1>4, <2>2, CodeIs, ListOfIs DEF Lists
    <3> QED BY <1>1, <1>4, <1>5, <2>2, <3>1 DEF Lists
  <2>3. CASE pc = "reset"
    <3>1. h = -5 /\ h \in Handle /\ ListOf(h) = "reset"
      BY <1>4, <2>3, CodeIs, ListOfIs DEF Lists
    <3> QED BY <1>1, <1>4, <1>5, <2>3, <3>1 DEF Lists
  <2> QED BY <1>4, <2>1, <2>2, <2>3
<1> HIDE DEF h, n
<1> DEFINE r2 == [r EXCEPT ![h] = pool.next[n]]
           own2 == [own EXCEPT ![n] = 0]
<1>7. /\ own[n] = h /\ p2.head = pool.head
      /\ p2.fn = [pool.fn EXCEPT ![n] = NoFn] /\ p2.time = [pool.time EXCEPT ![n] = 0]
      /\ PoolOK(p2, clock, r2, own2, RankOut(own, rank, n))
  <2>1. r[h] # Nil
    BY <1>6, NilIs
  <2>2. LET x == r[h]
            q == Free(pool, x)
        IN  /\ x \in Node /\ own[x] = h /\ q.head = pool.head
            /\ q.fn = [pool.fn EXCEPT ![x] = NoFn] /\ q.time = [pool.time EXCEPT ![x] = 0]
            /\ PoolOK(q, clock, [r EXCEPT ![h] = pool.next[x]], [own EXCEPT ![x] = 0], RankOut(own, rank, x))
    BY <1>3, <1>6, <2>1, FreeFirst, Zenon
  <2> QED BY <1>6, <2>2
<1>8. /\ Data(pool.fn, pool.time, own) /\ own[n] # 0 /\ pool.fn[n] \in Task /\ pool \in Pools
      /\ r \in [Handle -> Node \cup {Nil}]
  <2>1. own[n] # 0
    BY <1>6, <1>7, NilIs
  <2> QED BY <1>3, <1>6, <2>1, PoolData DEF PoolOK
<1>9. /\ Req(l, pool.fn[n], 0) \in DOMAIN owed
      /\ Owing(o2, p2.fn, p2.time, own2)
  <2>1. LET x == Req(ListOf(own[n]), pool.fn[n], pool.time[n])
        IN  /\ x \in DOMAIN owed /\ x \in TS!Request
            /\ Owing(owed (-) SetToBag({x}),
                     [pool.fn EXCEPT ![n] = NoFn], [pool.time EXCEPT ![n] = 0], [own EXCEPT ![n] = 0])
    BY <1>3, <1>6, <1>8, OwingLess
  <2>2. Req(ListOf(own[n]), pool.fn[n], pool.time[n]) = Req(l, pool.fn[n], 0)
    BY <1>6, <1>7, ReqIs
  <2> QED BY <1>7, <2>1, <2>2
<1>10. \A k \in Handle : r2[k] = IF k = h THEN pool.next[n] ELSE r[k]
  BY <1>8
<1>11. /\ fr \in FrameSet /\ fr.pc = fnpc /\ fr.task = pool.next[n]
       /\ FrameOK(fr, p2.head, boot, rt, driver_started)
  <2>1. pool.next[n] \in Node \cup {Nil} /\ pool.fn[n] \in Task \cup {NoFn}
    BY <1>6, <1>8 DEF Pools
  <2>2. fr \in FrameSet /\ fr.pc = fnpc /\ fr.task = pool.next[n]
    BY <1>4, <1>5, <2>1 DEF FrameSet, Pcs, FnPcs
  <2> HIDE DEF fr
  <2> QED BY <1>1, <1>4, <1>5, <2>2 DEF FrameOK, StartupPcs
<1> HIDE DEF fr, r2, own2, p2, o2
<1>12. InOrder(p2, o2, clock, [stack EXCEPT ![Len(stack)] = fr], boot, rt, driver_started,
               r2, own2, RankOut(own, rank, n))
  <2>1. fr.pc \in StartupPcs => Top.pc \in StartupPcs
    BY <1>1, <1>4, <1>11 DEF StartupPcs
  <2>2. r2[-1] = p2.head["immediate"] /\ r2[-2] = p2.head["delayed"] /\ r2[-3] = p2.head["systick"]
    BY <1>3, <1>6, <1>7, <1>10, HandlesAre DEF RootsOK
  <2>3. \A i \in 1..MaxDepth : r2[i] = IF i # Len(stack) THEN r[i]
                                       ELSE IF fr.pc \in {"imm", "immfn"} THEN fr.task ELSE Nil
    <3>1. ASSUME NEW i \in 1..MaxDepth PROVE i \in Handle /\ i # -4 /\ i # -5
      BY HandlesAre
    <3> QED BY <1>1, <1>4, <1>5, <1>6, <1>10, <1>11, <3>1
  <2>4. r2[-4] = IF fr.pc = "bootfn" THEN fr.task
                 ELSE IF Top.pc = "bootfn" THEN p2.head["booted"] ELSE r[-4]
    BY <1>1, <1>4, <1>5, <1>6, <1>10, <1>11, HandlesAre
  <2>5. r2[-5] = IF fr.pc = "resetfn" THEN fr.task
                 ELSE IF Top.pc = "resetfn" THEN p2.head["reset"] ELSE r[-5]
    BY <1>1, <1>4, <1>5, <1>6, <1>10, <1>11, HandlesAre
  <2>6. \A k \in Node : own[k] = -3 => own2[k] = -3
    BY <1>6, <1>7, <1>8 DEF own2, Data
  <2>7. fr.pc # "take" /\ fr.pc \notin {"sys", "sysfn"}
    BY <1>4, <1>11
  <2>8. Top = stack[Len(stack)]
    BY DEF Top
  <2>9. GoesOn(pool, clock, stack, r, own, p2, r2, own2, fr)
    BY <1>7, <2>1, <2>2, <2>3, <2>4, <2>5, <2>6, <2>7, <2>8 DEF GoesOn
  <2> QED BY <1>1, <1>2, <1>7, <1>9, <1>11, <2>9, SetKeeps
<1>13. Fresh(clock, [stack EXCEPT ![Len(stack)] = fr])
  <2>1. stack[Len(stack)].pc # "halt" /\ fr.pc \notin PollPcs
    BY <1>1, <1>4, <1>11 DEF Top, PollPcs
  <2> QED BY <1>1, <1>5, <1>11, <2>1, FreshSet DEF IInv
<1>14. IInv'
  BY <1>1, <1>12, <1>13 DEF IInv, Good, uCtl
<1> QED BY <1>3, <1>9, <1>14 DEF n, Owing

\* task_execute detaches the immediate list, or finds it empty.
LEMMA ExecuteKeeps ==
    ASSUME IInv, Execute
    PROVE  IInv'
<1>1. PICK r, own, rank : InOrder(pool, owed, clock, stack, boot, rt, driver_started, r, own, rank)
  BY DEF IInv, Good
<1>2. /\ PoolOK(pool, clock, r, own, rank) /\ RootsOK(r, pool.head, stack)
      /\ Owing(owed, pool.fn, pool.time, own) /\ Data(pool.fn, pool.time, own)
      /\ stack \in Seq(FrameSet) /\ Len(stack) \in Nat /\ pool \in Pools
      /\ r \in [Handle -> Node \cup {Nil}]
  <2>1. /\ PoolOK(pool, clock, r, own, rank) /\ RootsOK(r, pool.head, stack)
        /\ Owing(owed, pool.fn, pool.time, own)
        /\ FramesOK(stack, pool.head, boot, rt, driver_started)
    BY <1>1 DEF InOrder
  <2>2. Data(pool.fn, pool.time, own)
    BY <2>1, PoolData
  <2>3. pool \in Pools /\ r \in [Handle -> Node \cup {Nil}]
    BY <2>1 DEF PoolOK
  <2>4. stack \in Seq(FrameSet) /\ Len(stack) \in Nat
    BY <2>1 DEF FramesOK
  <2> QED BY <2>1, <2>2, <2>3, <2>4
<1> DEFINE k == Len(stack) + 1
<1>3. /\ k \in 1..MaxDepth /\ k \in Handle /\ k \notin 1..Len(stack) /\ Len(stack) < MaxDepth
      /\ \A i \in 1..MaxDepth : i \in Handle
  BY <1>2, HandlesAre DEF Execute
<1>4. r[k] = Nil
  BY <1>2, <1>3 DEF RootsOK
<1>5. stack # <<>> => stack[Len(stack)].pc # "take"
  BY DEF Execute, MayPoll, Top, FnPcs
<1>6. Fresh(clock, stack)
  BY DEF IInv
<1>7. CASE pool.head["immediate"] # Nil /\ driver_started
  <2> DEFINE fr == Frame("imm", pool.head["immediate"])
             p2 == [pool EXCEPT !.head["immediate"] = Nil]
             r2 == [r EXCEPT ![-1] = Nil, ![k] = r[-1]]
             own2 == [n \in Node |-> IF own[n] = -1 THEN k ELSE own[n]]
  <2>1. stack' = Append(stack, fr) /\ pool' = p2 /\ owed' = owed /\ UNCHANGED uCtl
    BY <1>7 DEF Execute
  <2>2. /\ p2 \in Pools /\ p2.fn = pool.fn /\ p2.next = pool.next /\ p2.time = pool.time
        /\ p2.last_freed = pool.last_freed /\ p2.head["immediate"] = Nil
        /\ \A l \in Lists : l # "immediate" => p2.head[l] = pool.head[l]
    BY <1>2 DEF Pools, Lists
  <2>3. pool.head["immediate"] = r[-1] /\ r[-1] \in Node \cup {Nil} /\ -1 \in Handle
    BY <1>2, HandlesAre DEF RootsOK
  <2>4. fr \in FrameSet /\ fr.pc = "imm" /\ fr.task = r[-1]
    BY <1>2, <2>3, PoolAssumption DEF Frame, FrameSet, Pcs, FnPcs, Times
  <2> HIDE DEF fr, p2
  <2>5. k # -1 /\ k # -2 /\ k # -3 /\ k # -4 /\ k # -5 /\ k # 0
    BY <1>3
  <2> HIDE DEF k
  <2>6. /\ Links(pool.fn, pool.next, r2) /\ Owners(pool.fn, pool.next, r2, own2, rank)
    <3>1. Links(pool.fn, pool.next, r) /\ Owners(pool.fn, pool.next, r, own, rank)
      BY <1>2, PoolLinks
    <3>2. Moved(pool.fn, pool.next, r, own, rank, -1, k)
      BY <1>3, <1>4, <2>3, <2>5, <3>1, OwnersMove
    <3> QED BY <3>2 DEF Moved
  <2>7. \A i \in Handle : r2[i] = IF i = k THEN r[-1] ELSE IF i = -1 THEN Nil ELSE r[i]
    BY <1>2, <2>5
  <2>8. \A n \in Node : own2[n] = IF own[n] = -1 THEN k ELSE own[n]
    OBVIOUS
  <2> HIDE DEF r2, own2
  <2>9. PoolOK(p2, clock, r2, own2, rank)
    <3>1. InTime(p2, clock, own2)
      BY <1>2, <2>2, <2>5, <2>8 DEF PoolOK, InTime
    <3> QED BY <1>2, <2>2, <2>6, <3>1 DEF PoolOK, Links
  <2>10. Owing(owed, p2.fn, p2.time, own2)
    <3>1. ListOf(-1) = "immediate" /\ ListOf(k) = "immediate"
      BY <1>3, ListOfIs DEF ListOf
    <3> QED BY <1>2, <2>2, <2>5, <2>8, <3>1, OwingSame
  <2>11. FrameOK(fr, p2.head, boot, rt, driver_started)
    BY <1>7, <2>3, <2>4 DEF FrameOK, StartupPcs
  <2>12. Begins(pool, stack, r, own, p2, r2, own2, fr)
    <3>1. /\ r2[-1] = Nil /\ r2[-2] = r[-2] /\ r2[-3] = r[-3] /\ r2[-4] = r[-4] /\ r2[-5] = r[-5]
      BY <2>5, <2>7, HandlesAre
    <3>2. \A i \in 1..MaxDepth : r2[i] = IF i # Len(stack) + 1 THEN r[i] ELSE r[-1]
      <4>1. \A i \in 1..MaxDepth : i \in Handle /\ i # -1
        BY HandlesAre
      <4> QED BY <2>7, <4>1 DEF k
    <3>3. \A n \in Node : own[n] = -3 => own2[n] = -3
      BY <2>8
    <3> QED BY <1>2, <1>5, <2>2, <2>4, <3>1, <3>2, <3>3 DEF Begins, RootsOK, StartupPcs, Lists
  <2>13. InOrder(p2, owed, clock, Append(stack, fr), boot, rt, driver_started, r2, own2, rank)
    BY <1>1, <1>3, <2>4, <2>9, <2>10, <2>11, <2>12, PushKeeps
  <2>14. Fresh(clock, Append(stack, fr))
    <3>1. fr.pc \notin PollPcs
      BY <2>4 DEF PollPcs
    <3> QED BY <1>2, <1>6, <2>4, <3>1, FreshPush
  <2> QED BY <2>1, <2>13, <2>14 DEF IInv, Good, uCtl
<1>8. CASE ~(pool.head["immediate"] # Nil /\ driver_started)
  <2> DEFINE fr == Frame("gate", Nil)
  <2>1. stack' = Append(stack, fr) /\ pool' = pool /\ owed' = owed /\ UNCHANGED uCtl
    BY <1>8 DEF Execute
  <2>2. fr \in FrameSet /\ fr.pc = "gate" /\ fr.task = Nil
    BY PoolAssumption DEF Frame, FrameSet, Pcs, FnPcs, Times
  <2> HIDE DEF fr
  <2>3. FrameOK(fr, pool.head, boot, rt, driver_started)
    BY <2>2 DEF FrameOK, StartupPcs
  <2>4. Begins(pool, stack, r, own, pool, r, own, fr)
    BY <1>2, <1>4, <1>5, <2>2 DEF Begins, RootsOK, StartupPcs
  <2>5. InOrder(pool, owed, clock, Append(stack, fr), boot, rt, driver_started, r, own, rank)
    BY <1>1, <1>2, <1>3, <2>2, <2>3, <2>4, PushKeeps
  <2>6. Fresh(clock, Append(stack, fr))
    <3>1. fr.pc \notin PollPcs
      BY <2>2 DEF PollPcs
    <3> QED BY <1>2, <1>6, <2>2, <3>1, FreshPush
  <2> QED BY <2>1, <2>5, <2>6 DEF IInv, Good, uCtl
<1> QED BY <1>7, <1>8

\* The innermost activation goes on as fr and leaves the pool alone.
LEMMA GoKeeps ==
    ASSUME NEW p, NEW o, NEW c, NEW st, NEW b, NEW q, NEW d, NEW r, NEW own, NEW rank,
           InOrder(p, o, c, st, b, q, d, r, own, rank), st # <<>>,
           NEW top, top = st[Len(st)], top.pc \in {"gate", "sys", "sysfn", "peek", "delfn"},
           NEW fr \in FrameSet, fr.pc \in {"sys", "sysfn", "peek", "take"},
           fr.pc \in {"sys", "sysfn"} => fr.task # Nil /\ own[fr.task] = -3,
           fr.pc = "take" => fr.task # Nil /\ own[fr.task] = -2 /\ NotAfter(p.time[fr.task], c)
    PROVE  InOrder(p, o, c, [st EXCEPT ![Len(st)] = fr], b, q, d, r, own, rank)
<1>1. PoolOK(p, c, r, own, rank) /\ Owing(o, p.fn, p.time, own) /\ RootsOK(r, p.head, st)
      /\ Len(st) \in 1..Len(st) /\ Len(st) \in 1..MaxDepth
  <2>1. Len(st) \in 1..MaxDepth /\ st \in Seq(FrameSet)
    BY TopHas
  <2>2. Len(st) \in 1..Len(st)
    BY <2>1, TopIs
  <2> QED BY <2>1, <2>2 DEF InOrder
<1>2. FrameOK(fr, p.head, b, q, d)
  BY DEF FrameOK, StartupPcs
<1>3. /\ r[-4] = IF fr.pc = "bootfn" THEN fr.task
                 ELSE IF top.pc = "bootfn" THEN p.head["booted"] ELSE r[-4]
      /\ r[-5] = IF fr.pc = "resetfn" THEN fr.task
                 ELSE IF top.pc = "resetfn" THEN p.head["reset"] ELSE r[-5]
      /\ fr.pc \in StartupPcs => top.pc \in StartupPcs
  BY DEF StartupPcs
<1>4. \A i \in 1..MaxDepth : r[i] = IF i # Len(st) THEN r[i]
                                    ELSE IF fr.pc \in {"imm", "immfn"} THEN fr.task ELSE Nil
  BY <1>1 DEF RootsOK
<1>5. GoesOn(p, c, st, r, own, p, r, own, fr)
  BY <1>1, <1>3, <1>4 DEF GoesOn, RootsOK
<1> QED BY <1>1, <1>2, <1>5, SetKeeps

LEMMA PopSame ==
    ASSUME NEW p, NEW o, NEW c, NEW st, NEW b, NEW q, NEW d, NEW r, NEW own, NEW rank,
           InOrder(p, o, c, st, b, q, d, r, own, rank), st # <<>>,
           st[Len(st)].pc \in {"gate", "peek"}
    PROVE  InOrder(p, o, c, SubSeq(st, 1, Len(st) - 1), b, q, d, r, own, rank)
<1>1. PoolOK(p, c, r, own, rank)
  BY DEF InOrder
<1>2. Returns(p, st, r, p)
  BY DEF Returns
<1> QED BY <1>1, <1>2, PopKeeps

LEMMA GateKeeps ==
    ASSUME IInv, Gate
    PROVE  IInv'
<1>1. PICK r, own, rank : InOrder(pool, owed, clock, stack, boot, rt, driver_started, r, own, rank)
  BY DEF IInv, Good
<1>2. /\ stack # <<>> /\ Top.pc = "gate" /\ Top = stack[Len(stack)]
      /\ UNCHANGED <<pool, owed, clock, boot, driver_started, rt, abort>>
      /\ polled' \in BOOLEAN /\ lock' \in BOOLEAN
  BY DEF Gate, At, Top, IInv
<1>3. /\ stack \in Seq(FrameSet) /\ Fresh(clock, stack) /\ stack[Len(stack)].pc # "halt"
      /\ clock \in Times /\ pool \in Pools
      /\ PoolOK(pool, clock, r, own, rank) /\ RootsOK(r, pool.head, stack)
  BY <1>1, <1>2 DEF IInv, InOrder, FramesOK, PoolOK
<1>4. CASE Pop
  <2>1. InOrder(pool, owed, clock, stack', boot, rt, driver_started, r, own, rank)
    BY <1>1, <1>2, <1>4, PopSame DEF Pop
  <2>2. Fresh(clock, stack')
    BY <1>2, <1>3, <1>4, FreshPop DEF Pop
  <2> QED BY <1>2, <2>1, <2>2 DEF IInv, Good
<1>5. CASE ~Pop
  <2> DEFINE s == pool.head["systick"]
             fr == [Frame(IF s # Nil THEN "sys" ELSE "peek", s) EXCEPT !.now = clock]
  <2>1. stack' = [stack EXCEPT ![Len(stack)] = fr]
    BY <1>5 DEF Gate, SetTop
  <2>2. s \in Node \cup {Nil} /\ s = r[-3] /\ r[-3] \in Node \cup {Nil} /\ -3 \in Handle
    BY <1>3, HandlesAre DEF PoolOK, RootsOK, Pools, Lists
  <2>3. /\ fr \in FrameSet /\ fr.now = clock /\ fr.task = s /\ fr.pc \in {"sys", "peek"}
        /\ fr.pc = "sys" => s # Nil
    BY <1>3, <2>2, PoolAssumption DEF Frame, FrameSet, Pcs, FnPcs, Times
  <2> HIDE DEF fr, s
  <2>4. fr.pc = "sys" => own[fr.task] = -3
    BY <1>3, <2>2, <2>3 DEF PoolOK, Owners
  <2>5. InOrder(pool, owed, clock, stack', boot, rt, driver_started, r, own, rank)
    BY <1>1, <1>2, <2>1, <2>3, <2>4, GoKeeps
  <2>6. Fresh(clock, stack')
    BY <1>2, <1>3, <2>1, <2>3, FreshSet
  <2> QED BY <1>2, <2>5, <2>6 DEF IInv, Good
<1> QED BY <1>4, <1>5

\* What a node in use holds is owed.
LEMMA OwedHeld ==
    ASSUME NEW o, NEW fn, NEW time, NEW own, Data(fn, time, own), Owing(o, fn, time, own),
           NEW n \in Node, own[n] # 0, fn[n] \in Task
    PROVE  Req(ListOf(own[n]), fn[n], time[n]) \in DOMAIN o
<1>1. LET x == Req(ListOf(own[n]), fn[n], time[n]) IN x \in DOMAIN o
  BY OwingLess
<1> QED BY <1>1

\* A poll function runs: it stays in its list.
LEMMA PollKeeps ==
    ASSUME IInv, PollSystick
    PROVE  /\ IInv' /\ Req("systick", pool.fn[Top.task], 0) \in DOMAIN owed
           /\ DOMAIN owed \subseteq TS!Request
<1>1. PICK r, own, rank : InOrder(pool, owed, clock, stack, boot, rt, driver_started, r, own, rank)
  BY DEF IInv, Good
<1> DEFINE n == Top.task
           fr == [Top EXCEPT !.pc = "sysfn", !.f = pool.fn[n]]
<1>2. /\ stack # <<>> /\ Top.pc = "sys" /\ Top = stack[Len(stack)]
      /\ stack' = [stack EXCEPT ![Len(stack)] = fr] /\ UNCHANGED <<pool, owed, uCtl>>
  BY DEF PollSystick, At, Top, SetTop
<1>3. /\ stack \in Seq(FrameSet) /\ Fresh(clock, stack) /\ pool \in Pools
      /\ PoolOK(pool, clock, r, own, rank) /\ Owing(owed, pool.fn, pool.time, own)
  BY <1>1 DEF IInv, InOrder, FramesOK, PoolOK
<1>4. Top \in FrameSet /\ n \in Node /\ own[n] = -3
  BY <1>1, <1>2, TopHas
<1>5. pool.fn[n] \in Task /\ Data(pool.fn, pool.time, own)
  BY <1>3, <1>4, PoolData
<1>6. /\ fr \in FrameSet /\ fr.pc = "sysfn" /\ fr.task = n /\ fr.now = Top.now
  BY <1>4, <1>5 DEF FrameSet, Pcs, FnPcs
<1> HIDE DEF fr, n
<1>7. InOrder(pool, owed, clock, stack', boot, rt, driver_started, r, own, rank)
  BY <1>1, <1>2, <1>4, <1>6, NilIs, GoKeeps
<1>8. Fresh(clock, stack')
  <2>1. stack[Len(stack)].pc \in PollPcs /\ fr.now = stack[Len(stack)].now /\ stack[Len(stack)].pc # "halt"
    BY <1>2, <1>6 DEF PollPcs
  <2> QED BY <1>2, <1>3, <1>6, <2>1, FreshSet
<1>9. Req("systick", pool.fn[n], 0) \in DOMAIN owed
  <2>1. Req(ListOf(own[n]), pool.fn[n], pool.time[n]) \in DOMAIN owed
    <3>1. own[n] # 0
      BY <1>4
    <3> QED BY <1>3, <1>4, <1>5, <3>1, OwedHeld
  <2>2. ListOf(-3) = "systick"
    BY DEF ListOf
  <2> QED BY <1>4, <2>1, <2>2, ReqIs DEF Lists
<1> QED BY <1>2, <1>3, <1>7, <1>8, <1>9 DEF IInv, Good, uCtl, Owing, n

\* What was not later than the tick a poll works for is not later than the clock.
LEMMA DueStays ==
    ASSUME NEW t \in Times, NEW e \in Times, NEW c \in Times, 1 < Half, Off(t, c) < Half,
           c = e \/ c = (e + 1) % Period, NotAfter(t, e)
    PROVE  NotAfter(t, c)
<1>1. Period \in Nat \ {0} /\ t \in 0..(Period - 1) /\ e \in 0..(Period - 1) /\ c \in 0..(Period - 1)
      /\ e + 1 < Period + Period
  BY PoolAssumption DEF Times
<1>2. CASE c = e
  BY <1>2
<1>3. CASE c = (e + 1) % Period
  <2>1. c = IF e + 1 < Period THEN e + 1 ELSE e + 1 - Period
    BY <1>1, <1>3, ModOnce
  <2>2. Off(e, c) = 0 /\ Off(c, c) = 1
    <3>1. Half \in Nat /\ Half + Half <= Period
      BY HalfIs
    <3>2. Off(e, c) = IF e + 1 - c >= Period THEN e + 1 - c - Period
                      ELSE IF e + 1 >= c THEN e + 1 - c ELSE e + 1 + Period - c
      BY OffIs
    <3>3. Off(c, c) = IF c + 1 - c >= Period THEN c + 1 - c - Period
                      ELSE IF c + 1 >= c THEN c + 1 - c ELSE c + 1 + Period - c
      BY OffIs
    <3> QED BY <1>1, <2>1, <3>1, <3>2, <3>3
  <2>3. Off(t, c) \in Nat /\ Half \in Nat
    BY <1>1, OffIs, HalfIs DEF Times
  <2>4. NotAfter(t, e) <=> Off(t, c) <= Off(e, c)
    <3>1. Off(e, c) < Half
      BY <2>2, <2>3
    <3> QED BY <3>1, NotAfterOrders
  <2>5. NotAfter(t, c) <=> Off(t, c) <= Off(c, c)
    <3>1. Off(c, c) < Half
      BY <2>2
    <3> QED BY <3>1, NotAfterOrders
  <2> QED BY <2>2, <2>3, <2>4, <2>5
<1> QED BY <1>2, <1>3

LEMMA PeekKeeps ==
    ASSUME IInv, PeekDelayed
    PROVE  IInv'
<1>1. PICK r, own, rank : InOrder(pool, owed, clock, stack, boot, rt, driver_started, r, own, rank)
  BY DEF IInv, Good
<1>2. /\ stack # <<>> /\ Top.pc = "peek" /\ Top = stack[Len(stack)]
      /\ UNCHANGED <<pool, owed, clock, polled, boot, driver_started, rt, abort>>
      /\ lock' \in BOOLEAN
  BY DEF PeekDelayed, At, Top, IInv
<1>3. /\ stack \in Seq(FrameSet) /\ Fresh(clock, stack) /\ stack[Len(stack)].pc # "halt"
      /\ clock \in Times /\ pool \in Pools
      /\ PoolOK(pool, clock, r, own, rank) /\ RootsOK(r, pool.head, stack)
  BY <1>1, <1>2 DEF IInv, InOrder, FramesOK, PoolOK
<1>4. CASE Pop
  <2>1. InOrder(pool, owed, clock, stack', boot, rt, driver_started, r, own, rank)
    BY <1>1, <1>2, <1>4, PopSame DEF Pop
  <2>2. Fresh(clock, stack')
    BY <1>2, <1>3, <1>4, FreshPop DEF Pop
  <2> QED BY <1>2, <2>1, <2>2 DEF IInv, Good
<1>5. CASE ~Pop
  <2> DEFINE h == pool.head["delayed"]
             fr == [Top EXCEPT !.pc = "take", !.task = h]
  <2>1. stack' = [stack EXCEPT ![Len(stack)] = fr] /\ h # Nil /\ NotAfter(pool.time[h], Top.now)
    BY <1>5 DEF PeekDelayed, SetTop, IsDue
  <2>2. h \in Node /\ h = r[-2] /\ -2 \in Handle
    BY <1>3, <2>1, HandlesAre DEF PoolOK, RootsOK, Pools, Lists
  <2>3. Top \in FrameSet /\ Len(stack) \in 1..Len(stack)
    BY <1>2, <1>3, TopIs
  <2>4. fr \in FrameSet /\ fr.now = Top.now /\ fr.task = h /\ fr.pc = "take" /\ Top.now \in Times
    BY <2>2, <2>3 DEF FrameSet, Pcs, FnPcs
  <2> HIDE DEF fr, h
  <2>5. own[h] = -2
    BY <1>3, <2>1, <2>2 DEF PoolOK, Owners
  <2>6. clock = Top.now \/ clock = (Top.now + 1) % Period
    <3>1. \A j \in 1..Len(stack) : stack[j].pc = "halt" => j < Len(stack)
      <4> DEFINE N == Len(stack)
      <4>1. N \in Nat /\ (\A j \in 1..N : stack[j].pc = "halt" => j # N)
        BY <1>3, <2>3
      <4> HIDE DEF N
      <4>2. \A j \in 1..N : stack[j].pc = "halt" => j < N
        BY <4>1
      <4> QED BY <4>2 DEF N
    <3> QED BY <1>2, <1>3, <2>3, <3>1 DEF Fresh, PollPcs
  <2>7. NotAfter(pool.time[h], clock)
    <3>1. pool.time[h] \in Times /\ 1 < Half /\ Off(pool.time[h], clock) < Half
      BY <1>3, <2>2, <2>5 DEF PoolOK, InTime, Pools
    <3> QED BY <1>3, <2>1, <2>4, <2>6, <3>1, DueStays
  <2>8. InOrder(pool, owed, clock, stack', boot, rt, driver_started, r, own, rank)
    BY <1>1, <1>2, <2>1, <2>4, <2>5, <2>7, GoKeeps
  <2>9. Fresh(clock, stack')
    <3>1. stack[Len(stack)].pc \in PollPcs /\ fr.now = stack[Len(stack)].now
      BY <1>2, <2>4 DEF PollPcs
    <3> QED BY <1>3, <1>2, <2>1, <2>4, <3>1, FreshSet
  <2> QED BY <1>2, <2>8, <2>9 DEF IInv, Good
<1> QED BY <1>4, <1>5

\* The delayed task found due is taken out of the list, wherever it is by now.
LEMMA TakeKeeps ==
    ASSUME IInv, TakeDelayed
    PROVE  /\ IInv' /\ Req("delayed", pool.fn[Top.task], pool.time[Top.task]) \in DOMAIN owed
           /\ DOMAIN owed \subseteq TS!Request /\ NotAfter(pool.time[Top.task], clock)
<1>1. PICK r, own, rank : InOrder(pool, owed, clock, stack, boot, rt, driver_started, r, own, rank)
  BY DEF IInv, Good
<1> DEFINE n == Top.task
           fr == [Top EXCEPT !.pc = "delfn", !.task = Nil, !.f = pool.fn[n]]
           p2 == Free(Unlink(pool, "delayed", n), n)
           o2 == owed (-) SetToBag({Req("delayed", pool.fn[n], pool.time[n])})
           own2 == [own EXCEPT ![n] = 0]
           r2 == [r EXCEPT ![-2] = p2.head["delayed"]]
           rank2 == RankOut(own, rank, n)
<1>2. /\ stack # <<>> /\ Top.pc = "take" /\ Top = stack[Len(stack)]
      /\ stack' = [stack EXCEPT ![Len(stack)] = fr] /\ pool' = p2 /\ owed' = o2 /\ UNCHANGED uCtl
  BY DEF TakeDelayed, At, Top, SetTop
<1>3. /\ stack \in Seq(FrameSet) /\ Fresh(clock, stack) /\ pool \in Pools
      /\ PoolOK(pool, clock, r, own, rank) /\ Owing(owed, pool.fn, pool.time, own)
      /\ RootsOK(r, pool.head, stack) /\ r \in [Handle -> Node \cup {Nil}]
  BY <1>1 DEF IInv, InOrder, FramesOK, PoolOK
<1>4. Top \in FrameSet /\ n \in Node /\ own[n] = -2 /\ NotAfter(pool.time[n], clock)
      /\ Len(stack) \in 1..MaxDepth
  BY <1>1, <1>2, TopHas
<1>5. pool.fn[n] \in Task /\ Data(pool.fn, pool.time, own) /\ own[n] # 0
  BY <1>3, <1>4, PoolData
<1>6. fr \in FrameSet /\ fr.pc = "delfn" /\ fr.now = Top.now
  BY <1>4, <1>5 DEF FrameSet, Pcs, FnPcs
<1> HIDE DEF fr, n
<1>7. /\ p2.head = [pool.head EXCEPT !["delayed"] = p2.head["delayed"]]
      /\ p2.fn = [pool.fn EXCEPT ![n] = NoFn] /\ p2.time = [pool.time EXCEPT ![n] = 0]
      /\ PoolOK(p2, clock, r2, own2, rank2)
  <2>1. pool.head["delayed"] = r[-2] /\ -2 \in Handle /\ "delayed" \in Lists
    BY <1>3, HandlesAre DEF RootsOK, Lists
  <2>2. LET q == Free(Unlink(pool, "delayed", n), n)
        IN  /\ q.head = [pool.head EXCEPT !["delayed"] = q.head["delayed"]]
            /\ q.fn = [pool.fn EXCEPT ![n] = NoFn] /\ q.time = [pool.time EXCEPT ![n] = 0]
            /\ PoolOK(q, clock, [r EXCEPT ![-2] = q.head["delayed"]], [own EXCEPT ![n] = 0], RankOut(own, rank, n))
    BY <1>3, <1>4, <2>1, FreeAny, Zenon
  <2> QED BY <2>2
<1>8. Req("delayed", pool.fn[n], pool.time[n]) \in DOMAIN owed /\ Owing(o2, p2.fn, p2.time, own2)
  <2>1. LET x == Req(ListOf(own[n]), pool.fn[n], pool.time[n])
        IN  /\ x \in DOMAIN owed /\ x \in TS!Request
            /\ Owing(owed (-) SetToBag({x}),
                     [pool.fn EXCEPT ![n] = NoFn], [pool.time EXCEPT ![n] = 0], [own EXCEPT ![n] = 0])
    BY <1>3, <1>4, <1>5, OwingLess
  <2>2. ListOf(own[n]) = "delayed"
    BY <1>4 DEF ListOf
  <2> QED BY <1>7, <2>1, <2>2
<1>9. /\ \A k \in Handle : r2[k] = IF k = -2 THEN p2.head["delayed"] ELSE r[k]
      /\ \A m \in Node : own2[m] = IF m = n THEN 0 ELSE own[m]
      /\ \A l \in Lists : l # "delayed" => p2.head[l] = pool.head[l]
  <2>1. \A l \in Lists : l # "delayed" => p2.head[l] = pool.head[l]
    <3>1. pool.head \in [Lists -> Node \cup {Nil}]
      BY <1>3 DEF Pools
    <3> QED BY <1>7, <3>1
  <2> HIDE DEF p2
  <2>2. -2 \in Handle
    BY HandlesAre
  <2> QED BY <1>3, <1>5, <2>1, <2>2 DEF Data
<1> HIDE DEF p2, r2, own2, rank2, o2
<1>10. GoesOn(pool, clock, stack, r, own, p2, r2, own2, fr)
  <2>1. \A i \in 1..MaxDepth : r2[i] = IF i # Len(stack) THEN r[i]
                                       ELSE IF fr.pc \in {"imm", "immfn"} THEN fr.task ELSE Nil
    <3>1. \A i \in 1..MaxDepth : i \in Handle /\ i # -2
      BY HandlesAre
    <3>2. r[Len(stack)] = Nil
      BY <1>2, <1>3, <1>4 DEF RootsOK
    <3> QED BY <1>6, <1>9, <3>1, <3>2
  <2>2. /\ r2[-1] = r[-1] /\ r2[-2] = p2.head["delayed"] /\ r2[-3] = r[-3] /\ r2[-4] = r[-4]
        /\ r2[-5] = r[-5]
    BY <1>9, HandlesAre
  <2> QED BY <1>2, <1>3, <1>4, <1>6, <1>9, <2>1, <2>2 DEF GoesOn, RootsOK, StartupPcs, Lists
<1>11. InOrder(p2, o2, clock, stack', boot, rt, driver_started, r2, own2, rank2)
  <2>1. FrameOK(fr, p2.head, boot, rt, driver_started)
    BY <1>6 DEF FrameOK, StartupPcs
  <2> QED BY <1>1, <1>2, <1>6, <1>7, <1>8, <1>10, <2>1, SetKeeps
<1>12. Fresh(clock, stack')
  <2>1. stack[Len(stack)].pc \in PollPcs /\ fr.now = stack[Len(stack)].now /\ stack[Len(stack)].pc # "halt"
    BY <1>2, <1>6 DEF PollPcs
  <2> QED BY <1>2, <1>3, <1>6, <2>1, FreshSet
<1> QED BY <1>2, <1>3, <1>4, <1>8, <1>11, <1>12 DEF IInv, Good, uCtl, Owing, n

\* task_execute_on_startup is about to run the head of a list, or done
StartupOK(fr, hd) == /\ fr.pc \in {"boot", "reset", "halt"}
                     /\ fr.pc = "boot" => fr.task = hd["booted"] /\ fr.task # Nil
                     /\ fr.pc = "reset" => fr.task = hd["reset"] /\ fr.task # Nil

\* A startup or reset task has returned: its list goes on behind it, and so
\* does task_execute_on_startup.
LEMMA StartupReturns ==
    ASSUME NEW p, NEW o, NEW c, NEW st, NEW b, NEW q, NEW d, NEW r, NEW own, NEW rank,
           InOrder(p, o, c, st, b, q, d, r, own, rank), st # <<>>,
           NEW top, top = st[Len(st)], NEW l,
           (top.pc = "bootfn" /\ l = "booted") \/ (top.pc = "resetfn" /\ l = "reset"),
           NEW p2, p2 = [p EXCEPT !.head[l] = top.task],
           NEW fr \in FrameSet, StartupOK(fr, p2.head)
    PROVE  /\ InOrder(p2, o, c, [st EXCEPT ![Len(st)] = fr], b, q, d, r, own, rank)
           /\ InOrder(p2, o, c, SubSeq(st, 1, Len(st) - 1), b, q, d, r, own, rank)
<1>1. /\ PoolOK(p, c, r, own, rank) /\ Owing(o, p.fn, p.time, own) /\ RootsOK(r, p.head, st)
  BY DEF InOrder
<1>2. /\ top \in FrameSet /\ FrameOK(top, p.head, b, q, d) /\ Len(st) \in 1..MaxDepth
      /\ top.pc = "bootfn" => r[-4] = top.task
      /\ top.pc = "resetfn" => r[-5] = top.task
      /\ \A i \in 1..MaxDepth :
                 i = Len(st) => r[i] = IF top.pc \in {"imm", "immfn"} THEN top.task ELSE Nil
      /\ top.pc \notin {"boot", "bootfn"} /\ top.pc \in StartupPcs => r[-4] = p.head["booted"]
      /\ top.pc \notin {"reset", "resetfn"} /\ top.pc \in StartupPcs => r[-5] = p.head["reset"]
  BY TopHas
<1>3. top.task \in Node \cup {Nil}
  BY <1>2 DEF FrameSet
<1>4. /\ p2 \in Pools /\ p2.fn = p.fn /\ p2.next = p.next /\ p2.time = p.time
      /\ p2.last_freed = p.last_freed /\ p2.head[l] = top.task
      /\ \A k \in Lists : k # l => p2.head[k] = p.head[k]
  <2>1. p \in Pools /\ l \in Lists
    BY <1>1 DEF PoolOK, Lists
  <2> QED BY <1>3, <2>1 DEF Pools
<1>5. PoolOK(p2, c, r, own, rank) /\ Owing(o, p2.fn, p2.time, own)
  BY <1>1, <1>4 DEF PoolOK, InTime
<1>6. /\ fr.pc \in {"boot", "reset", "halt"}
      /\ fr.pc = "boot" => fr.task = p2.head["booted"] /\ fr.task # Nil
      /\ fr.pc = "reset" => fr.task = p2.head["reset"] /\ fr.task # Nil
  BY DEF StartupOK
<1>7. FrameOK(fr, p2.head, b, q, d)
  BY <1>2, <1>6 DEF FrameOK, StartupPcs
<1>8. GoesOn(p, c, st, r, own, p2, r, own, fr)
  BY <1>1, <1>2, <1>4, <1>6 DEF GoesOn, RootsOK, StartupPcs, Lists
<1>9. InOrder(p2, o, c, [st EXCEPT ![Len(st)] = fr], b, q, d, r, own, rank)
  BY <1>5, <1>7, <1>8, SetKeeps
<1>10. Returns(p, st, r, p2)
  BY <1>2, <1>4 DEF Returns, Lists
<1>11. InOrder(p2, o, c, SubSeq(st, 1, Len(st) - 1), b, q, d, r, own, rank)
  BY <1>5, <1>10, PopKeeps
<1> QED BY <1>9, <1>11

\* The function at the top returns to the loop that called it.
LEMMA ReturnKeeps ==
    ASSUME IInv, Return
    PROVE  IInv'
<1>1. PICK r, own, rank : InOrder(pool, owed, clock, stack, boot, rt, driver_started, r, own, rank)
  BY DEF IInv, Good
<1> DEFINE n == Top.task
           up(pc, m) == [[Top EXCEPT !.f = NoFn] EXCEPT !.pc = pc, !.task = m]
<1>2. /\ stack # <<>> /\ Top.pc \in FnPcs /\ Top = stack[Len(stack)]
      /\ UNCHANGED <<owed, uCtl>>
  BY DEF Return, Top
<1>3. /\ stack \in Seq(FrameSet) /\ Fresh(clock, stack) /\ pool \in Pools
      /\ PoolOK(pool, clock, r, own, rank) /\ Owing(owed, pool.fn, pool.time, own)
      /\ RootsOK(r, pool.head, stack) /\ stack[Len(stack)].pc # "halt"
  BY <1>1, <1>2 DEF IInv, InOrder, FramesOK, PoolOK, FnPcs
<1>4. /\ Top \in FrameSet /\ FrameOK(Top, pool.head, boot, rt, driver_started)
      /\ Len(stack) \in 1..MaxDepth
      /\ \A i \in 1..MaxDepth :
                 i = Len(stack) => r[i] = IF Top.pc \in {"imm", "immfn"} THEN Top.task ELSE Nil
      /\ Top.pc = "sysfn" => own[n] = -3 /\ n \in Node
  <2>1. \A i \in 1..Len(stack) :
           stack[i].pc = "sysfn" => stack[i].task \in Node /\ own[stack[i].task] = -3
    BY <1>1, FrameTypes DEF InOrder, Owned
  <2>2. Len(stack) \in 1..Len(stack)
    BY <1>2, <1>3, TopIs
  <2> QED BY <1>1, <1>2, <2>1, <2>2, TopHas
<1>5. n \in Node \cup {Nil} /\ Top.now \in Times /\ NoFn \in Task \cup {NoFn}
  BY <1>4 DEF FrameSet
<1>6. ASSUME NEW pc \in Pcs, NEW m \in Node \cup {Nil}
      PROVE  up(pc, m) \in FrameSet /\ up(pc, m).pc = pc /\ up(pc, m).task = m /\ up(pc, m).now = Top.now
  BY <1>4, <1>5, <1>6 DEF FrameSet
<1>7. ASSUME NEW p2, pool' = p2, NEW s, stack' = s, Fresh(clock, s),
             NEW r2, NEW own2, NEW rank2,
             InOrder(p2, owed, clock, s, boot, rt, driver_started, r2, own2, rank2)
      PROVE  IInv'
  BY <1>2, <1>7 DEF IInv, Good, uCtl
<1>8. CASE Top.pc = "immfn"
  <2> DEFINE pc == IF n # Nil THEN "imm" ELSE "gate"
             fr == up(pc, n)
             s == [stack EXCEPT ![Len(stack)] = fr]
  <2>1. stack' = s /\ pool' = pool
    BY <1>8 DEF Return, SetTop
  <2>2. fr \in FrameSet /\ fr.pc = (IF n # Nil THEN "imm" ELSE "gate") /\ fr.task = n
    <3>1. pc \in Pcs
      BY DEF Pcs
    <3> HIDE DEF pc
    <3>2. fr \in FrameSet /\ fr.pc = pc /\ fr.task = n
      BY <1>5, <1>6, <3>1
    <3> QED BY <3>2 DEF pc
  <2> HIDE DEF fr
  <2>3. FrameOK(fr, pool.head, boot, rt, driver_started)
    BY <1>4, <1>8, <2>2 DEF FrameOK, StartupPcs
  <2>4. GoesOn(pool, clock, stack, r, own, pool, r, own, fr)
    BY <1>2, <1>3, <1>4, <1>8, <2>2 DEF GoesOn, RootsOK, StartupPcs
  <2>5. InOrder(pool, owed, clock, s, boot, rt, driver_started, r, own, rank)
    BY <1>1, <1>2, <1>3, <2>2, <2>3, <2>4, SetKeeps
  <2>6. Fresh(clock, s)
    BY <1>2, <1>3, <2>2, FreshSet DEF PollPcs
  <2> QED BY <1>7, <2>1, <2>5, <2>6
<1>9. CASE Top.pc = "sysfn"
  <2> DEFINE m == pool.next[n]
             pc == IF m # Nil THEN "sys" ELSE "peek"
             fr == up(pc, m)
             s == [stack EXCEPT ![Len(stack)] = fr]
  <2>1. stack' = s /\ pool' = pool
    BY <1>9 DEF Return, SetTop
  <2>2. m \in Node \cup {Nil} /\ (m # Nil => own[m] = -3)
    <3>1. own[n] # 0 /\ pool.next \in [Node -> Node \cup {Nil}]
      BY <1>3, <1>4, <1>9 DEF Pools
    <3> QED BY <1>3, <1>4, <1>9, <3>1 DEF PoolOK, Owners
  <2> HIDE DEF m
  <2>3. /\ fr \in FrameSet /\ fr.pc = (IF m # Nil THEN "sys" ELSE "peek") /\ fr.task = m
        /\ fr.now = Top.now
    <3>1. pc \in Pcs
      BY DEF Pcs
    <3> HIDE DEF pc
    <3>2. fr \in FrameSet /\ fr.pc = pc /\ fr.task = m /\ fr.now = Top.now
      BY <1>6, <2>2, <3>1
    <3> QED BY <3>2 DEF pc
  <2> HIDE DEF fr
  <2>4. InOrder(pool, owed, clock, s, boot, rt, driver_started, r, own, rank)
    BY <1>1, <1>2, <1>9, <2>2, <2>3, GoKeeps
  <2>5. Fresh(clock, s)
    <3>1. stack[Len(stack)].pc \in PollPcs /\ fr.now = stack[Len(stack)].now
      BY <1>2, <1>9, <2>3 DEF PollPcs
    <3> QED BY <1>2, <1>3, <2>3, <3>1, FreshSet
  <2> QED BY <1>7, <2>1, <2>4, <2>5
<1>10. CASE Top.pc = "delfn"
  <2> DEFINE fr == up("peek", Nil)
             s == [stack EXCEPT ![Len(stack)] = fr]
  <2>1. stack' = s /\ pool' = pool
    BY <1>10 DEF Return, SetTop
  <2>2. fr \in FrameSet /\ fr.pc = "peek" /\ fr.now = Top.now
    BY <1>6 DEF Pcs
  <2> HIDE DEF fr
  <2>3. InOrder(pool, owed, clock, s, boot, rt, driver_started, r, own, rank)
    BY <1>1, <1>2, <1>10, <2>2, GoKeeps
  <2>4. Fresh(clock, s)
    <3>1. stack[Len(stack)].pc \in PollPcs /\ fr.now = stack[Len(stack)].now
      BY <1>2, <1>10, <2>2 DEF PollPcs
    <3> QED BY <1>2, <1>3, <2>2, <3>1, FreshSet
  <2> QED BY <1>7, <2>1, <2>3, <2>4
<1>11. ASSUME NEW l, (Top.pc = "bootfn" /\ l = "booted") \/ (Top.pc = "resetfn" /\ l = "reset"),
              NEW p2, p2 = [pool EXCEPT !.head[l] = n], pool' = p2,
              NEW fr \in FrameSet, StartupOK(fr, p2.head), EndsOr(fr)
       PROVE  IInv'
  <2> DEFINE s == [stack EXCEPT ![Len(stack)] = fr]
             t == SubSeq(stack, 1, Len(stack) - 1)
  <2>1. fr.pc \in {"boot", "reset", "halt"}
    BY <1>11 DEF StartupOK
  <2>2. /\ InOrder(p2, owed, clock, s, boot, rt, driver_started, r, own, rank)
        /\ InOrder(p2, owed, clock, t, boot, rt, driver_started, r, own, rank)
    BY <1>1, <1>2, <1>11, <2>1, StartupReturns
  <2>3. Fresh(clock, s)
    BY <1>2, <1>3, <2>1, FreshSet DEF PollPcs
  <2>4. Fresh(clock, t)
    BY <1>2, <1>3, FreshPop
  <2>5. stack' = s \/ stack' = t
    BY <1>11 DEF EndsOr, SetTop, Pop
  <2> QED BY <1>7, <1>11, <2>2, <2>3, <2>4, <2>5
<1>12. CASE Top.pc = "bootfn"
  <2> DEFINE p2 == [pool EXCEPT !.head["booted"] = n]
             fr == StartupFrame(n, pool.head["reset"])
  <2>1. pool' = p2 /\ EndsOr(fr)
    BY <1>12 DEF Return
  <2>2. p2.head["booted"] = n /\ p2.head["reset"] = pool.head["reset"] /\ pool.head["reset"] \in Node \cup {Nil}
    BY <1>3 DEF Pools, Lists
  <2> HIDE DEF p2
  <2>3. fr \in FrameSet /\ StartupOK(fr, p2.head)
    BY <1>5, <2>2, PoolAssumption
       DEF StartupFrame, StartupOK, Frame, FrameSet, Pcs, FnPcs, Times
  <2> HIDE DEF fr
  <2> QED BY <1>11, <1>12, <2>1, <2>3 DEF p2
<1>13. CASE Top.pc = "resetfn"
  <2> DEFINE p2 == [pool EXCEPT !.head["reset"] = n]
             fr == StartupFrame(Nil, n)
  <2>1. pool' = p2 /\ EndsOr(fr)
    BY <1>13 DEF Return
  <2>2. p2.head["reset"] = n /\ p2.head["booted"] = pool.head["booted"] /\ pool.head["booted"] \in Node \cup {Nil}
    BY <1>3 DEF Pools, Lists
  <2> HIDE DEF p2
  <2>3. fr \in FrameSet /\ StartupOK(fr, p2.head)
    BY <1>5, <2>2, PoolAssumption
       DEF StartupFrame, StartupOK, Frame, FrameSet, Pcs, FnPcs, Times
  <2> HIDE DEF fr
  <2> QED BY <1>11, <1>13, <2>1, <2>3 DEF p2
<1> QED BY <1>2, <1>8, <1>9, <1>10, <1>12, <1>13 DEF FnPcs

-----------------------------------------------------------------------------
(* Start-up, reset and time.                                               *)

LEMMA FlagsKeep ==
    ASSUME NEW p, NEW o, NEW c, NEW st, NEW b, NEW q, NEW d, NEW r, NEW own, NEW rank,
           InOrder(p, o, c, st, b, q, d, r, own, rank), NEW b2, NEW q2, NEW d2,
           "RT_COMMAND" \in q2 => b2 = "up",
           st = <<>> \/ (b2 = b /\ d2 = d /\ ("RT_COMMAND" \in q2 => "RT_COMMAND" \in q))
    PROVE  InOrder(p, o, c, st, b2, q2, d2, r, own, rank)
<1>1. FramesOK(st, p.head, b, q, d)
  BY DEF InOrder
<1>2. FramesOK(st, p.head, b2, q2, d2)
  <2>1. CASE st = <<>>
    <3>1. 1..Len(st) = {}
      BY <2>1
    <3> QED BY <1>1, <3>1 DEF FramesOK
  <2>2. CASE b2 = b /\ d2 = d /\ ("RT_COMMAND" \in q2 => "RT_COMMAND" \in q)
    BY <1>1, <2>2 DEF FramesOK, FrameOK
  <2> QED BY <2>1, <2>2
<1> QED BY <1>2 DEF InOrder

\* With no activation, the lists and what is owed are all there is.
LEMMA AtRest ==
    ASSUME NEW p, NEW o, NEW c, NEW b, NEW q, NEW d, NEW r, NEW own, NEW rank,
           PoolOK(p, c, r, own, rank), Owing(o, p.fn, p.time, own),
           "RT_COMMAND" \in q => b = "up",
           \A l \in Lists : r[Code(l)] = p.head[l], \A i \in 1..MaxDepth : r[i] = Nil
    PROVE  InOrder(p, o, c, <<>>, b, q, d, r, own, rank)
<1> DEFINE st == <<>>
<1>1. 1..Len(st) = {} /\ st \in Seq(FrameSet) /\ Len(st) <= MaxDepth
  BY PoolAssumption
<1> HIDE DEF st
<1>2. RootsOK(r, p.head, st)
  BY <1>1, CodeIs DEF RootsOK, Lists
<1>3. Owned(own, p.time, c, st) /\ FramesOK(st, p.head, b, q, d)
  BY <1>1 DEF Owned, FramesOK
<1>4. InOrder(p, o, c, st, b, q, d, r, own, rank)
  BY <1>2, <1>3 DEF InOrder
<1> QED BY <1>4 DEF st

LEMMA StepsAtRest ==
    ASSUME IInv, DriverStarts \/ ColdStartEnds \/ Reinitialize
    PROVE  IInv'
<1>1. PICK r, own, rank : InOrder(pool, owed, clock, stack, boot, rt, driver_started, r, own, rank)
  BY DEF IInv, Good
<1>2. "RT_COMMAND" \in rt => boot = "up"
  BY <1>1 DEF InOrder, FramesOK
<1>3. /\ UNCHANGED <<pool, owed, stack, clock, polled, lock>> /\ stack = <<>>
      /\ boot' \in {"init", "loop", "up"} /\ driver_started' \in BOOLEAN
      /\ rt' \subseteq {"RESET", "RT_COMMAND"} /\ abort' \in BOOLEAN
      /\ "RT_COMMAND" \in rt' => boot' = "up"
  BY <1>2 DEF IInv, DriverStarts, ColdStartEnds, Reinitialize, ColdStartFlags
<1>4. InOrder(pool, owed, clock, stack, boot', rt', driver_started', r, own, rank)
  BY <1>1, <1>3, FlagsKeep
<1> QED BY <1>3, <1>4 DEF IInv, Good

LEMMA SoftResetKeeps ==
    ASSUME IInv, SoftReset
    PROVE  IInv'
<1>1. PICK r, own, rank : InOrder(pool, owed, clock, stack, boot, rt, driver_started, r, own, rank)
  BY DEF IInv, Good
<1>2. "RT_COMMAND" \in rt => boot = "up"
  BY <1>1 DEF InOrder, FramesOK
<1>3. /\ UNCHANGED <<pool, owed, stack, clock, polled, lock, boot, driver_started, abort>>
      /\ rt' = rt \cup {"RESET"}
  BY DEF SoftReset
<1>4. InOrder(pool, owed, clock, stack, boot, rt', driver_started, r, own, rank)
  <2>1. "RT_COMMAND" \in rt' => "RT_COMMAND" \in rt
    BY <1>3
  <2> QED BY <1>1, <1>2, <2>1, FlagsKeep
<1> QED BY <1>3, <1>4 DEF IInv, Good

\* The millisecond counter.
LEMMA TickKeeps ==
    ASSUME IInv, Tick
    PROVE  IInv'
<1>1. PICK r, own, rank : InOrder(pool, owed, clock, stack, boot, rt, driver_started, r, own, rank)
  BY DEF IInv, Good
<1> DEFINE e == (clock + 1) % Period
<1>2. /\ KeepsUp /\ clock' = e /\ polled' = FALSE
      /\ UNCHANGED <<pool, owed, stack, lock, boot, driver_started, rt, abort>>
  BY DEF Tick
<1>3. /\ PoolOK(pool, clock, r, own, rank) /\ RootsOK(r, pool.head, stack)
      /\ Owned(own, pool.time, clock, stack) /\ FramesOK(stack, pool.head, boot, rt, driver_started)
      /\ Owing(owed, pool.fn, pool.time, own)
  BY <1>1 DEF InOrder
<1>4. clock \in Times /\ e \in Times /\ pool \in Pools
  <2>1. clock \in Times /\ Period \in Nat \ {0} /\ pool \in Pools
    BY <1>3, PoolAssumption DEF PoolOK
  <2> QED BY <2>1 DEF Times
<1>5. ASSUME NEW n \in Node, own[n] = -2
      PROVE  /\ ~Before(pool.time[n], clock) /\ pool.time[n] \in Times /\ 1 < Half
             /\ Off(pool.time[n], clock) < Half /\ Off(pool.time[n], e) + 1 = Off(pool.time[n], clock)
             /\ Off(pool.time[n], e) \in Nat /\ Off(pool.time[n], e) < Half
             /\ pool.next[n] # Nil => /\ pool.next[n] \in Node /\ own[pool.next[n]] = -2
                                      /\ Off(pool.time[n], clock) <= Off(pool.time[pool.next[n]], clock)
  <2>1. n \in Chain(pool, pool.head["delayed"])
    <3>1. Chain(pool, r[-2]) = {m \in Node : own[m] = -2}
      <4>1. Links(pool.fn, pool.next, r) /\ Owners(pool.fn, pool.next, r, own, rank)
        BY <1>3, PoolLinks
      <4> QED BY <4>1, HandlesAre, ChainOwns
    <3> QED BY <1>3, <1>5, <3>1 DEF RootsOK
  <2>2. ~Before(pool.time[n], clock) /\ pool.time[n] \in Times
    BY <1>2, <1>4, <2>1 DEF KeepsUp, Pools
  <2>3. /\ 1 < Half /\ Off(pool.time[n], clock) < Half
        /\ pool.next[n] # Nil => Off(pool.time[n], clock) <= Off(pool.time[pool.next[n]], clock)
    BY <1>3, <1>5 DEF PoolOK, InTime
  <2>4. pool.next[n] # Nil => pool.next[n] \in Node /\ own[pool.next[n]] = -2
    BY <1>3, <1>4, <1>5 DEF PoolOK, Pools, Owners
  <2>5. Off(pool.time[n], e) + 1 = Off(pool.time[n], clock)
    BY <1>4, <2>2, <2>3, OffTick
  <2>6. Off(pool.time[n], e) \in Nat /\ Off(pool.time[n], clock) \in Nat /\ Half \in Nat
    <3>1. Off(pool.time[n], e) \in Times /\ Off(pool.time[n], clock) \in Times
      BY <1>4, <2>2, OffIs
    <3> QED BY <3>1, HalfIs DEF Times
  <2> QED BY <2>2, <2>3, <2>4, <2>5, <2>6
<1> HIDE DEF e
<1>6. PoolOK(pool, e, r, own, rank)
  <2>1. InTime(pool, e, own)
    <3>1. ASSUME NEW n \in Node, own[n] = -2, pool.next[n] # Nil
          PROVE  Off(pool.time[n], e) <= Off(pool.time[pool.next[n]], e)
      <4> DEFINE x == Off(pool.time[n], e)
                 y == Off(pool.time[pool.next[n]], e)
                 u == Off(pool.time[n], clock)
                 v == Off(pool.time[pool.next[n]], clock)
      <4>1. x \in Nat /\ x + 1 = u /\ u <= v /\ pool.next[n] \in Node /\ own[pool.next[n]] = -2
        BY <1>5, <3>1
      <4>2. y \in Nat /\ y + 1 = v
        BY <1>5, <4>1
      <4> HIDE DEF x, y, u, v
      <4>3. x <= y
        BY <4>1, <4>2
      <4> QED BY <4>3 DEF x, y
    <3> QED BY <1>5, <3>1 DEF InTime
  <2> QED BY <1>3, <1>4, <2>1 DEF PoolOK
<1>7. Owned(own, pool.time, e, stack)
  <2> SUFFICES ASSUME NEW i \in 1..Len(stack), stack[i].pc = "take"
               PROVE  NotAfter(pool.time[stack[i].task], e)
    BY <1>3 DEF Owned
  <2> DEFINE n == stack[i].task
  <2>1. n \in Node /\ own[n] = -2 /\ NotAfter(pool.time[n], clock)
    BY <1>3, FrameTypes DEF Owned
  <2>2. pool.time[n] = clock
    BY <1>5, <2>1 DEF Before
  <2> QED BY <1>4, <1>5, <2>1, <2>2, DueStays DEF e
<1>8. InOrder(pool, owed, e, stack, boot, rt, driver_started, r, own, rank)
  BY <1>3, <1>6, <1>7 DEF InOrder
<1>9. Fresh(e, stack)
  <2>1. DOMAIN stack = 1..Len(stack)
    BY <1>3 DEF FramesOK
  <2>2. ASSUME NEW i \in 1..Len(stack), stack[i].pc \in PollPcs,
               \A j \in 1..Len(stack) : stack[j].pc = "halt" => j < i
        PROVE  e = (stack[i].now + 1) % Period
    <3>1. stack[i].now = clock
      BY <1>2, <2>1, <2>2 DEF KeepsUp, PollPcs
    <3> QED BY <3>1 DEF e
  <2> QED BY <2>2 DEF Fresh
<1> QED BY <1>2, <1>8, <1>9 DEF IInv, Good

\* task_execute_on_startup is entered: no startup task is being run.
LEMMA StartupBegins ==
    ASSUME NEW p, NEW o, NEW c, NEW st, NEW b, NEW q, NEW d,
           Good(p, o, c, st, b, q, d), Fresh(c, st), Len(st) < MaxDepth,
           b = "up", "RT_COMMAND" \notin q, st # <<>> => st[Len(st)].pc # "take",
           \A i \in 1..Len(st) : st[i].pc \notin StartupPcs,
           NEW fr, fr = StartupFrame(p.head["booted"], p.head["reset"])
    PROVE  Good(p, o, c, Append(st, fr), b, q, d) /\ Fresh(c, Append(st, fr))
<1>1. PICK r, own, rank : InOrder(p, o, c, st, b, q, d, r, own, rank)
  BY DEF Good
<1>2. /\ PoolOK(p, c, r, own, rank) /\ RootsOK(r, p.head, st) /\ Owing(o, p.fn, p.time, own)
      /\ st \in Seq(FrameSet) /\ Len(st) \in Nat /\ p \in Pools
  BY <1>1 DEF InOrder, FramesOK, PoolOK
<1>3. fr \in FrameSet /\ StartupOK(fr, p.head)
  <2>1. p.head["booted"] \in Node \cup {Nil} /\ p.head["reset"] \in Node \cup {Nil}
    BY <1>2 DEF Pools, Lists
  <2> QED BY <2>1, PoolAssumption
          DEF StartupFrame, StartupOK, Frame, FrameSet, Pcs, FnPcs, Times
<1>4. FrameOK(fr, p.head, b, q, d)
  BY <1>3 DEF FrameOK, StartupOK
<1>5. r[Len(st) + 1] = Nil
  <2>1. Len(st) + 1 \in 1..MaxDepth /\ Len(st) + 1 \notin 1..Len(st)
    BY <1>2, HandlesAre
  <2> QED BY <1>2, <2>1 DEF RootsOK
<1>6. Begins(p, st, r, own, p, r, own, fr)
  BY <1>2, <1>3, <1>5 DEF Begins, RootsOK, StartupOK
<1>7. InOrder(p, o, c, Append(st, fr), b, q, d, r, own, rank)
  BY <1>1, <1>2, <1>3, <1>4, <1>6, PushKeeps
<1>8. fr.pc \notin PollPcs
  BY <1>3 DEF StartupOK, PollPcs
<1>9. Fresh(c, Append(st, fr))
  BY <1>2, <1>3, <1>8, FreshPush
<1> QED BY <1>7, <1>9 DEF Good

\* The handles and heads of the other lists stay.
OthersStay(p, q, r, r2, l, h) ==
    /\ \A k \in Lists : k # l => q.head[k] = p.head[k]
    /\ \A k \in Handle : r2[k] = IF k = h THEN q.head[l] ELSE r[k]
    /\ q.head \in [Lists -> Node \cup {Nil}] /\ r2 \in [Handle -> Node \cup {Nil}]

LEMMA DroppedLeaves ==
    ASSUME NEW p, NEW q, NEW c, NEW r, NEW own, NEW l \in Lists, NEW h \in Handle, NEW fs,
           NEW own2, NEW r2, Dropped(p, q, c, r, own, l, h, fs, own2, r2),
           p.head \in [Lists -> Node \cup {Nil}], r \in [Handle -> Node \cup {Nil}]
    PROVE  OthersStay(p, q, r, r2, l, h)
<1>1. PICK rank2 : PoolOK(q, c, r2, own2, rank2)
  BY DEF Dropped
<1>2. q.head \in [Lists -> Node \cup {Nil}] /\ r2 \in [Handle -> Node \cup {Nil}]
  BY <1>1 DEF PoolOK, Pools
<1> DEFINE x == q.head[l]
<1>3. q.head = [p.head EXCEPT ![l] = x] /\ r2 = [r EXCEPT ![h] = x]
  BY DEF Dropped
<1> HIDE DEF x
<1>4. /\ \A k \in Lists : k # l => q.head[k] = p.head[k]
      /\ \A k \in Handle : r2[k] = IF k = h THEN x ELSE r[k]
  BY <1>3
<1> QED BY <1>2, <1>4 DEF x, OthersStay

\* What a driver that did not start still runs.
Wanted(o) == {e \in DOMAIN o : \/ e.list \in {"immediate", "reset"}
                               \/ e.list = "booted" /\ e.fn \in Warning}

LEMMA GivesUp ==
    ASSUME NEW p, NEW o, NEW c, NEW b, NEW q, NEW d, Good(p, o, c, <<>>, b, q, d),
           "RT_COMMAND" \in q => b = "up"
    PROVE  Good(KeepWarnings(p), [e \in Wanted(o) |-> o[e]], c, <<>>, b, q, d)
<1>1. PICK r, own, rank : InOrder(p, o, c, <<>>, b, q, d, r, own, rank)
  BY DEF Good
<1>2. /\ PoolOK(p, c, r, own, rank) /\ RootsOK(r, p.head, <<>>) /\ Owing(o, p.fn, p.time, own)
      /\ p.head \in [Lists -> Node \cup {Nil}] /\ r \in [Handle -> Node \cup {Nil}]
  BY <1>1 DEF InOrder, PoolOK, Pools
<1>3. /\ r[-1] = p.head["immediate"] /\ r[-2] = p.head["delayed"] /\ r[-3] = p.head["systick"]
      /\ r[-4] = p.head["booted"] /\ r[-5] = p.head["reset"]
      /\ \A i \in 1..MaxDepth : r[i] = Nil
  <2> DEFINE st == <<>>
  <2>1. 1..Len(st) = {}
    OBVIOUS
  <2>2. RootsOK(r, p.head, st)
    BY <1>2
  <2> HIDE DEF st
  <2> QED BY <2>1, <2>2 DEF RootsOK
<1> DEFINE p1 == Drop(p, "booted", Task \ Warning)
           p2 == Drop(p1, "delayed", Task)
           p3 == Drop(p2, "systick", Task)
<1>4. /\ -2 \in Handle /\ -3 \in Handle /\ -4 \in Handle
      /\ "booted" \in Lists /\ "delayed" \in Lists /\ "systick" \in Lists
  BY HandlesAre DEF Lists
<1>5. PICK own1, r1 : Dropped(p, p1, c, r, own, "booted", -4, Task \ Warning, own1, r1)
  BY <1>2, <1>3, <1>4, DropIs
<1> HIDE DEF p1
<1>6. /\ \A k \in Lists : k # "booted" => p1.head[k] = p.head[k]
      /\ \A k \in Handle : r1[k] = IF k = -4 THEN p1.head["booted"] ELSE r[k]
      /\ p1.head \in [Lists -> Node \cup {Nil}] /\ r1 \in [Handle -> Node \cup {Nil}]
  <2>1. OthersStay(p, p1, r, r1, "booted", -4)
    BY <1>2, <1>4, <1>5, DroppedLeaves
  <2> QED BY <2>1 DEF OthersStay
<1>7. PICK rank1 : PoolOK(p1, c, r1, own1, rank1)
  BY <1>5 DEF Dropped
<1>8. PICK own2, r2 : Dropped(p1, p2, c, r1, own1, "delayed", -2, Task, own2, r2)
  <2>1. p1.head["delayed"] = r1[-2]
    BY <1>3, <1>4, <1>6
  <2> QED BY <1>4, <1>7, <2>1, DropIs
<1> HIDE DEF p2
<1>9. /\ \A k \in Lists : k # "delayed" => p2.head[k] = p1.head[k]
      /\ \A k \in Handle : r2[k] = IF k = -2 THEN p2.head["delayed"] ELSE r1[k]
      /\ p2.head \in [Lists -> Node \cup {Nil}] /\ r2 \in [Handle -> Node \cup {Nil}]
  <2>1. OthersStay(p1, p2, r1, r2, "delayed", -2)
    BY <1>4, <1>6, <1>8, DroppedLeaves
  <2> QED BY <2>1 DEF OthersStay
<1>10. PICK rank2 : PoolOK(p2, c, r2, own2, rank2)
  BY <1>8 DEF Dropped
<1>11. PICK own3, r3 : Dropped(p2, p3, c, r2, own2, "systick", -3, Task, own3, r3)
  <2>1. p2.head["systick"] = r2[-3]
    BY <1>3, <1>4, <1>6, <1>9
  <2> QED BY <1>4, <1>10, <2>1, DropIs
<1> HIDE DEF p3
<1>12. /\ \A k \in Lists : k # "systick" => p3.head[k] = p2.head[k]
       /\ \A k \in Handle : r3[k] = IF k = -3 THEN p3.head["systick"] ELSE r2[k]
  <2>1. OthersStay(p2, p3, r2, r3, "systick", -3)
    BY <1>4, <1>9, <1>11, DroppedLeaves
  <2> QED BY <2>1 DEF OthersStay
<1>13. PICK rank3 : PoolOK(p3, c, r3, own3, rank3)
  BY <1>11 DEF Dropped
<1>14. /\ \A l \in Lists : r3[Code(l)] = p3.head[l]
       /\ \A i \in 1..MaxDepth : r3[i] = Nil
  <2>1. /\ r3[-1] = p3.head["immediate"] /\ r3[-2] = p3.head["delayed"] /\ r3[-3] = p3.head["systick"]
        /\ r3[-4] = p3.head["booted"] /\ r3[-5] = p3.head["reset"]
    BY <1>3, <1>6, <1>9, <1>12, HandlesAre DEF Lists
  <2>2. \A i \in 1..MaxDepth : i \in Handle /\ i # -2 /\ i # -3 /\ i # -4
    BY HandlesAre
  <2>3. \A i \in 1..MaxDepth : r3[i] = Nil
    BY <1>3, <1>6, <1>9, <1>12, <2>2
  <2> QED BY <2>1, <2>3, CodeIs DEF Lists
<1>15. ASSUME NEW n \in Node
       PROVE  /\ own1[n] = IF own[n] = -4 /\ p.fn[n] \in Task \ Warning THEN 0 ELSE own[n]
              /\ own2[n] = IF own1[n] = -2 /\ p1.fn[n] \in Task THEN 0 ELSE own1[n]
              /\ own3[n] = IF own2[n] = -3 /\ p2.fn[n] \in Task THEN 0 ELSE own2[n]
              /\ own1[n] # 0 => p1.fn[n] = p.fn[n] /\ p1.time[n] = p.time[n]
              /\ own2[n] # 0 => p2.fn[n] = p1.fn[n] /\ p2.time[n] = p1.time[n]
              /\ own3[n] # 0 => p3.fn[n] = p2.fn[n] /\ p3.time[n] = p2.time[n]
              /\ own[n] # 0 => p.fn[n] \in Task
              /\ own[n] \in Handle \cup {0}
  <2>1. /\ own1[n] = IF own[n] = -4 /\ p.fn[n] \in Task \ Warning THEN 0 ELSE own[n]
        /\ own1[n] # 0 => p1.fn[n] = p.fn[n] /\ p1.time[n] = p.time[n]
    BY <1>5 DEF Dropped
  <2>2. /\ own2[n] = IF own1[n] = -2 /\ p1.fn[n] \in Task THEN 0 ELSE own1[n]
        /\ own2[n] # 0 => p2.fn[n] = p1.fn[n] /\ p2.time[n] = p1.time[n]
    BY <1>8 DEF Dropped
  <2>3. /\ own3[n] = IF own2[n] = -3 /\ p2.fn[n] \in Task THEN 0 ELSE own2[n]
        /\ own3[n] # 0 => p3.fn[n] = p2.fn[n] /\ p3.time[n] = p2.time[n]
    BY <1>11 DEF Dropped
  <2>4. (own[n] # 0 => p.fn[n] \in Task) /\ own[n] \in Handle \cup {0}
    BY <1>2, PoolData DEF Data
  <2> QED BY <2>1, <2>2, <2>3, <2>4
<1>16. \A n \in Node : own3[n] # 0 => p3.fn[n] = p.fn[n] /\ p3.time[n] = p.time[n]
  BY <1>15
<1>17. \A n \in Node :
          own3[n] = IF own[n] # 0 /\ Req(ListOf(own[n]), p.fn[n], p.time[n]) \in Wanted(o)
                    THEN own[n] ELSE 0
  <2> TAKE n \in Node
  <2>1. CASE own[n] = 0
    BY <1>15, <2>1
  <2>2. CASE own[n] # 0
    <3> DEFINE x == Req(ListOf(own[n]), p.fn[n], p.time[n])
    <3>1. x \in DOMAIN o
      BY <1>2, <1>15, <2>2, PoolData, OwedHeld
    <3>2. x.list = ListOf(own[n]) /\ x.fn = p.fn[n] /\ p.fn[n] \in Task
      BY <1>15, <2>2, ReqIs
    <3> HIDE DEF x
    <3>3. x \in Wanted(o) <=> \/ ListOf(own[n]) \in {"immediate", "reset"}
                              \/ ListOf(own[n]) = "booted" /\ p.fn[n] \in Warning
      BY <3>1, <3>2 DEF Wanted
    <3>4. own3[n] = IF own[n] = -2 \/ own[n] = -3 \/ (own[n] = -4 /\ p.fn[n] \notin Warning)
                    THEN 0 ELSE own[n]
      <4>1. CASE own[n] = -4
        BY <1>15, <3>2, <4>1
      <4>2. CASE own[n] = -2
        BY <1>15, <3>2, <4>2
      <4>3. CASE own[n] # -4 /\ own[n] # -2
        <5>1. own1[n] = own[n] /\ own2[n] = own[n] /\ p1.fn[n] = p.fn[n] /\ p2.fn[n] = p.fn[n]
          BY <1>15, <2>2, <4>3
        <5> QED BY <1>15, <3>2, <4>3, <5>1
      <4> QED BY <4>1, <4>2, <4>3
    <3>5. x \in Wanted(o) <=> ~(own[n] = -2 \/ own[n] = -3 \/ (own[n] = -4 /\ p.fn[n] \notin Warning))
      BY <3>3 DEF ListOf
    <3> QED BY <2>2, <3>4, <3>5 DEF x
  <2> QED BY <2>1, <2>2
<1>18. Owing([e \in Wanted(o) |-> o[e]], p3.fn, p3.time, own3)
  <2>1. Wanted(o) \subseteq DOMAIN o
    BY DEF Wanted
  <2> QED BY <1>2, <1>16, <1>17, <2>1, OwingKept
<1>19. InOrder(p3, [e \in Wanted(o) |-> o[e]], c, <<>>, b, q, d, r3, own3, rank3)
  BY <1>13, <1>14, <1>18, AtRest
<1> QED BY <1>19 DEF Good, KeepWarnings, p3, p2, p1

\* RESET is served alone; the startup tasks run, or are given up, on RT_COMMAND.
LEMMA ServeKeeps ==
    ASSUME IInv, ServeRealtime
    PROVE  IInv'
<1>1. /\ Good(pool, owed, clock, stack, boot, rt, driver_started) /\ Fresh(clock, stack)
      /\ FramesOK(stack, pool.head, boot, rt, driver_started) /\ stack \in Seq(FrameSet)
      /\ Len(stack) \in Nat
  BY GoodIs DEF IInv
<1>2. /\ stack # <<>> => stack[Len(stack)].pc \in {"immfn", "bootfn", "resetfn"}
      /\ Len(stack) < MaxDepth /\ rt' = {} /\ rt # {}
      /\ UNCHANGED <<clock, polled, lock, boot, driver_started>>
  BY DEF ServeRealtime, Top
<1>3. Good(pool, owed, clock, stack, boot, {}, driver_started)
  <2>1. PICK r, own, rank : InOrder(pool, owed, clock, stack, boot, rt, driver_started, r, own, rank)
    BY <1>1 DEF Good
  <2>2. InOrder(pool, owed, clock, stack, boot, {}, driver_started, r, own, rank)
    <3> DEFINE q2 == {}
    <3>1. "RT_COMMAND" \notin q2
      OBVIOUS
    <3> HIDE DEF q2
    <3>2. InOrder(pool, owed, clock, stack, boot, q2, driver_started, r, own, rank)
      BY <2>1, <3>1, FlagsKeep
    <3> QED BY <3>2 DEF q2
  <2> QED BY <2>2 DEF Good
<1>4. CASE "RESET" \in rt
  <2>1. abort' = TRUE /\ UNCHANGED <<pool, stack, owed>>
    BY <1>4 DEF ServeRealtime
  <2> QED BY <1>1, <1>2, <1>3, <2>1 DEF IInv
<1>5. CASE "RESET" \notin rt
  <2>1. "RT_COMMAND" \in rt /\ ExecuteOnStartup /\ UNCHANGED abort
    BY <1>2, <1>5 DEF ServeRealtime, IInv
  <2>2. boot = "up" /\ \A i \in 1..Len(stack) : stack[i].pc \notin StartupPcs
    BY <1>1, <2>1 DEF FramesOK, FrameOK
  <2>3. stack # <<>> => stack[Len(stack)].pc # "take"
    BY <1>2
  <2>4. ASSUME NEW p, NEW o, Good(p, o, clock, stack, boot, {}, driver_started),
               NEW fr, fr = StartupFrame(p.head["booted"], p.head["reset"])
        PROVE  Good(p, o, clock, Append(stack, fr), boot, {}, driver_started) /\ Fresh(clock, Append(stack, fr))
    <3> DEFINE q2 == {}
    <3>1. "RT_COMMAND" \notin q2 /\ Good(p, o, clock, stack, boot, q2, driver_started)
      BY <2>4
    <3> HIDE DEF q2
    <3>2. Good(p, o, clock, Append(stack, fr), boot, q2, driver_started) /\ Fresh(clock, Append(stack, fr))
      BY <1>1, <1>2, <2>2, <2>3, <2>4, <3>1, StartupBegins
    <3> QED BY <3>2 DEF q2
  <2>5. CASE driver_started
    <3> DEFINE fr == StartupFrame(pool.head["booted"], pool.head["reset"])
    <3>1. pool' = pool /\ owed' = owed /\ (stack' = stack \/ stack' = Append(stack, fr))
      BY <2>1, <2>5 DEF ExecuteOnStartup
    <3> QED BY <1>1, <1>2, <1>3, <2>1, <2>4, <3>1 DEF IInv
  <2>6. CASE ~driver_started
    <3> DEFINE p == KeepWarnings(pool)
               o == [e \in Wanted(owed) |-> owed[e]]
               fr == StartupFrame(p.head["booted"], p.head["reset"])
    <3>1. pool' = p /\ stack' = Append(stack, fr) /\ owed' = o
      BY <2>1, <2>6 DEF ExecuteOnStartup, Wanted
    <3>2. stack = <<>>
      <4>1. stack # <<>> => Len(stack) \in 1..Len(stack)
        BY <1>1, TopIs
      <4> QED BY <1>1, <1>2, <2>2, <2>6, <4>1 DEF FramesOK, FrameOK, StartupPcs
    <3>3. Good(p, o, clock, stack, boot, {}, driver_started)
      <4> DEFINE q2 == {}
      <4>1. "RT_COMMAND" \notin q2 /\ Good(pool, owed, clock, <<>>, boot, q2, driver_started)
        BY <1>3, <3>2
      <4> HIDE DEF q2, p
      <4>2. Good(KeepWarnings(pool), [e \in Wanted(owed) |-> owed[e]], clock, <<>>, boot, q2, driver_started)
        BY <4>1, GivesUp
      <4> QED BY <3>2, <4>2 DEF p, q2
    <3> HIDE DEF p, o
    <3> QED BY <1>1, <1>2, <2>1, <2>4, <3>1, <3>3 DEF IInv
  <2> QED BY <2>5, <2>6
<1> QED BY <1>4, <1>5

-----------------------------------------------------------------------------
(* The invariant.                                                          *)

LEMMA InitIInv == Init => IInv
<1> SUFFICES ASSUME Init PROVE IInv
  OBVIOUS
<1> DEFINE r == [h \in Handle |-> Nil]
           own == [n \in Node |-> 0]
           rank == [n \in Node |-> 0]
<1>1. /\ pool.fn = [n \in Node |-> NoFn] /\ pool.next = [n \in Node |-> Nil]
      /\ pool.time = [n \in Node |-> 0] /\ pool.head = [l \in Lists |-> Nil]
      /\ pool.last_freed = Nil /\ pool \in Pools /\ clock \in Times
      /\ owed = EmptyBag /\ stack = <<>>
  <2>1. 0 \in Times
    BY PoolAssumption DEF Times
  <2> QED BY <2>1 DEF Init, Pools
<1>2. /\ \A h \in Handle : r[h] = Nil
      /\ \A n \in Node : own[n] = 0 /\ rank[n] = 0
      /\ r \in [Handle -> Node \cup {Nil}] /\ own \in [Node -> Handle \cup {0}]
      /\ rank \in [Node -> Nat]
  OBVIOUS
<1> HIDE DEF r, own, rank
<1>3. PoolOK(pool, clock, r, own, rank)
  <2>1. Owners(pool.fn, pool.next, r, own, rank)
    BY <1>1, <1>2 DEF Owners
  <2>2. InTime(pool, clock, own)
    BY <1>2 DEF InTime
  <2> QED BY <1>1, <1>2, <2>1, <2>2 DEF PoolOK
<1>4. Owing(owed, pool.fn, pool.time, own)
  <2>1. DOMAIN owed = {} /\ owed \in [DOMAIN owed -> Nat \ {0}]
    BY <1>1 DEF EmptyBag, SetToBag
  <2>2. \A e : Holding(pool.fn, pool.time, own, e) = {}
    BY <1>2 DEF Holding
  <2>3. \A e : Copies(e, owed) = 0
    BY <2>1 DEF Copies
  <2> QED BY <2>1, <2>2, <2>3, FS_EmptySet DEF Owing
<1>5. InOrder(pool, owed, clock, <<>>, boot, rt, driver_started, r, own, rank)
  <2>1. "RT_COMMAND" \notin rt
    BY DEF Init
  <2>2. \A l \in Lists : r[Code(l)] = pool.head[l]
    BY <1>1, <1>2, CodeIs
  <2>3. \A i \in 1..MaxDepth : r[i] = Nil
    BY <1>2, HandlesAre
  <2> QED BY <1>3, <1>4, <2>1, <2>2, <2>3, AtRest
<1>6. Fresh(clock, stack)
  BY <1>1 DEF Fresh
<1>7. /\ polled \in BOOLEAN /\ lock \in BOOLEAN /\ abort \in BOOLEAN
      /\ boot \in {"init", "loop", "up"} /\ driver_started \in BOOLEAN
      /\ rt \subseteq {"RESET", "RT_COMMAND"}
  BY DEF Init
<1> QED BY <1>1, <1>5, <1>6, <1>7 DEF IInv, Good

\* Every step keeps the lists and the activations in order, as long as st_go_idle()
\* does not come between the reading and the taking of a delayed task.
LEMMA NextIInv ==
    ASSUME ~CancelRaces, IInv, Next
    PROVE  IInv'
<1>1. ASSUME NEW lf \in Posts, NEW d \in Delays \cup {0}, Post(lf[1], lf[2], d)
      PROVE  IInv'
  <2>1. lf[1] \in Lists /\ lf[2] \in Task
    BY PoolAssumption
  <2> QED BY <1>1, <2>1, PostKeeps DEF Post
<1>2. ASSUME NEW lf \in IsrPosts, NEW d \in Delays \cup {0}, IsrPost(lf[1], lf[2], d)
      PROVE  IInv'
  <2>1. lf[1] \in Lists /\ lf[2] \in Task
    BY PoolAssumption
  <2> QED BY <1>2, <2>1, PostKeeps DEF IsrPost
<1>3. ASSUME NEW f \in Cancels, NEW d \in Delays, StGoIdle(f, d) PROVE IInv'
  <2>1. f \in Task
    BY PoolAssumption
  <2> QED BY <1>3, <2>1, GoIdleKeeps
<1>4. ASSUME NEW f \in Cancels, Cancel(f) PROVE IInv'
  BY <1>4, CancelKeeps
<1>5. CASE TaskSteps
  <2>1. ASSUME NEW pc, NEW l, NEW fnpc, <<pc, l, fnpc>> \in Runners, Run(pc, l, fnpc) PROVE IInv'
    BY <2>1, RunKeeps
  <2>2. CASE RunImmediate
    BY <2>1, <2>2 DEF RunImmediate, Runners
  <2>3. CASE RunBooted
    BY <2>1, <2>3 DEF RunBooted, Runners
  <2>4. CASE RunReset
    BY <2>1, <2>4 DEF RunReset, Runners
  <2> QED BY <1>5, <2>2, <2>3, <2>4, GateKeeps, PollKeeps, PeekKeeps, TakeKeeps DEF TaskSteps
<1>6. CASE Execute
  BY <1>6, ExecuteKeeps
<1>7. CASE Return
  BY <1>7, ReturnKeeps
<1>8. CASE ServeRealtime
  BY <1>8, ServeKeeps
<1>9. CASE DriverStarts \/ ColdStartEnds \/ Reinitialize
  BY <1>9, StepsAtRest
<1>10. CASE SoftReset
  BY <1>10, SoftResetKeeps
<1>11. CASE Tick
  BY <1>11, TickKeeps
<1> QED BY <1>1, <1>2, <1>3, <1>4, <1>5, <1>6, <1>7, <1>8, <1>9, <1>10, <1>11 DEF Next

LEMMA StutterIInv ==
    ASSUME IInv, UNCHANGED vars
    PROVE  IInv'
BY DEF vars, IInv

\* The lists, the activations and what is owed are in order whenever a critical
\* section of grbllib.c ends.
THEOREM Invariant ==
    ASSUME ~CancelRaces
    PROVE  Spec => []IInv
<1>1. IInv /\ [Next]_vars => IInv'
  BY NextIInv, StutterIInv
<1> QED BY <1>1, InitIInv, PTL DEF Spec

-----------------------------------------------------------------------------
(* What the invariant says of the properties.                              *)

LEMMA ChainIs ==
    ASSUME NEW p, NEW c, NEW r, NEW own, NEW rank, PoolOK(p, c, r, own, rank), NEW h \in Handle
    PROVE  Chain(p, r[h]) = {n \in Node : own[n] = h}
<1>1. Links(p.fn, p.next, r) /\ Owners(p.fn, p.next, r, own, rank)
  BY PoolLinks
<1> QED BY <1>1, ChainOwns

\* The nodes that hold requests of a list are those of its handles.
LEMMA HeldIs ==
    ASSUME NEW r, NEW own, NEW rank,
           InOrder(pool, owed, clock, stack, boot, rt, driver_started, r, own, rank),
           NEW l \in Lists
    PROVE  Held(l) = {n \in Node : own[n] # 0 /\ ListOf(own[n]) = l}
<1>1. /\ PoolOK(pool, clock, r, own, rank) /\ RootsOK(r, pool.head, stack)
      /\ FramesOK(stack, pool.head, boot, rt, driver_started)
      /\ DOMAIN stack = 1..Len(stack) /\ Len(stack) \in Nat /\ Len(stack) <= MaxDepth
  BY DEF InOrder, FramesOK
<1>2. \A h \in Handle : Chain(pool, r[h]) = {n \in Node : own[n] = h}
  BY <1>1, ChainIs
<1>3. Owners(pool.fn, pool.next, r, own, rank) /\ own \in [Node -> Handle \cup {0}] /\ 0 \notin Handle
  BY <1>1, PoolLinks, NilIs
<1>4. \A i \in 1..Len(stack) : i \in 1..MaxDepth
  BY <1>1, HandlesAre
<1>5. ASSUME NEW pcs, NEW n
      PROVE  n \in Detached(pcs) <=> \E i \in 1..Len(stack) :
                                        stack[i].pc \in pcs /\ n \in Chain(pool, stack[i].task)
  BY <1>1 DEF Detached
<1>6. CASE l = "immediate"
  <2>1. Held(l) = Chain(pool, pool.head[l]) \cup Detached({"imm", "immfn"})
    BY <1>6 DEF Held
  <2>2. Chain(pool, pool.head[l]) = {n \in Node : own[n] = -1}
    BY <1>1, <1>2, <1>6, HandlesAre DEF RootsOK
  <2>3. \A i \in 1..Len(stack) : stack[i].pc \in {"imm", "immfn"} =>
           Chain(pool, stack[i].task) = {n \in Node : own[n] = i}
    <3> TAKE i \in 1..Len(stack)
    <3>1. stack[i].pc \in {"imm", "immfn"} => stack[i].task = r[i] /\ i \in Handle
      BY <1>1, <1>4, HandlesAre DEF RootsOK
    <3> QED BY <1>2, <3>1
  <2>4. \A n \in Node, i \in 1..MaxDepth :
           own[n] = i => i \in 1..Len(stack) /\ stack[i].pc \in {"imm", "immfn"}
    <3> TAKE n \in Node, i \in 1..MaxDepth
    <3>1. i \in Handle /\ (r[i] = Nil => own[n] # i)
      BY <1>3, HandlesAre, NilOwnsNothing
    <3> QED BY <1>1, <3>1 DEF RootsOK
  <2>5. \A n : n \in Detached({"imm", "immfn"}) <=> n \in Node /\ own[n] \in 1..MaxDepth
    <3> TAKE n
    <3>1. n \in Detached({"imm", "immfn"}) => n \in Node /\ own[n] \in 1..MaxDepth
      BY <1>4, <1>5, <2>3
    <3>2. n \in Node /\ own[n] \in 1..MaxDepth => n \in Detached({"imm", "immfn"})
      BY <1>5, <2>3, <2>4
    <3> QED BY <3>1, <3>2
  <2>6. \A n \in Node : (own[n] # 0 /\ ListOf(own[n]) = "immediate")
                           <=> (own[n] = -1 \/ own[n] \in 1..MaxDepth)
    <3> TAKE n \in Node
    <3>1. own[n] # 0 => own[n] \in Handle
      BY <1>3
    <3>2. own[n] \in Handle => own[n] \in 1..MaxDepth \/ own[n] \in {-1, -2, -3, -4, -5}
      BY HandlesAre DEF Handle
    <3>3. own[n] \in 1..MaxDepth => ListOf(own[n]) = "immediate" /\ own[n] # 0
      BY ListOfIs, HandlesAre
    <3>4. own[n] \in {-1, -2, -3, -4, -5} => (ListOf(own[n]) = "immediate" <=> own[n] = -1)
      BY DEF ListOf
    <3> QED BY <3>1, <3>2, <3>3, <3>4
  <2> QED BY <1>6, <2>1, <2>2, <2>5, <2>6
<1>7. CASE l # "immediate"
  <2>1. Held(l) = Chain(pool, r[Code(l)])
    <3>1. CASE l = "booted" /\ Runs("bootfn")
      <4>1. Held(l) = Detached({"bootfn"})
        BY <1>7, <3>1 DEF Held
      <4>2. \A i \in 1..Len(stack) : stack[i].pc = "bootfn" => stack[i].task = r[-4]
        BY <1>1 DEF RootsOK
      <4>3. \E i \in 1..Len(stack) : stack[i].pc = "bootfn"
        BY <1>1, <3>1 DEF Runs
      <4>4. \A n : n \in Detached({"bootfn"}) <=> n \in Chain(pool, r[-4])
        BY <1>5, <4>2, <4>3
      <4>5. Detached({"bootfn"}) = Chain(pool, r[-4])
        BY <4>4
      <4> QED BY <3>1, <4>1, <4>5, CodeIs
    <3>2. CASE l = "reset" /\ Runs("resetfn")
      <4>1. Held(l) = Detached({"resetfn"})
        BY <1>7, <3>2 DEF Held
      <4>2. \A i \in 1..Len(stack) : stack[i].pc = "resetfn" => stack[i].task = r[-5]
        BY <1>1 DEF RootsOK
      <4>3. \E i \in 1..Len(stack) : stack[i].pc = "resetfn"
        BY <1>1, <3>2 DEF Runs
      <4>4. \A n : n \in Detached({"resetfn"}) <=> n \in Chain(pool, r[-5])
        BY <1>5, <4>2, <4>3
      <4>5. Detached({"resetfn"}) = Chain(pool, r[-5])
        BY <4>4
      <4> QED BY <3>2, <4>1, <4>5, CodeIs
    <3>3. CASE ~(l = "booted" /\ Runs("bootfn")) /\ ~(l = "reset" /\ Runs("resetfn"))
      <4>1. Held(l) = Chain(pool, pool.head[l])
        BY <1>7, <3>3 DEF Held
      <4>2. pool.head[l] = r[Code(l)]
        BY <1>1, <3>3, HandlesOf DEF Runs
      <4> QED BY <4>1, <4>2
    <3> QED BY <3>1, <3>2, <3>3
  <2>2. Held(l) = {n \in Node : own[n] = Code(l)}
    BY <1>2, <2>1, CodeIs
  <2>3. \A n \in Node : (own[n] # 0 /\ ListOf(own[n]) = l) <=> own[n] = Code(l)
    <3> TAKE n \in Node
    <3>1. own[n] = Code(l) => own[n] # 0 /\ ListOf(own[n]) = l
      BY <1>3, CodeIs, ListOfIs
    <3>2. own[n] # 0 /\ ListOf(own[n]) = l => own[n] = Code(l)
      <4>1. own[n] # 0 => own[n] \in Handle
        BY <1>3
      <4> QED BY <1>7, <4>1, ListOfIs
    <3> QED BY <3>1, <3>2
  <2> QED BY <2>2, <2>3
<1> QED BY <1>6, <1>7

LEMMA IInvTypeOK == IInv => TypeOK
<1> SUFFICES ASSUME IInv PROVE TypeOK
  OBVIOUS
<1>1. /\ pool \in Pools /\ clock \in Times /\ stack \in Seq(FrameSet) /\ Len(stack) <= MaxDepth
      /\ DOMAIN stack = 1..Len(stack) /\ Len(stack) \in Nat
  BY GoodIs DEF IInv
<1>2. \A i \in DOMAIN stack : stack[i] \in FrameSet
  BY <1>1
<1> QED BY <1>1, <1>2 DEF TypeOK, IInv, Pools, FrameSet

LEMMA IInvPartition == IInv => PoolPartition
<1> SUFFICES ASSUME IInv PROVE PoolPartition
  OBVIOUS
<1>1. PICK r, own, rank : InOrder(pool, owed, clock, stack, boot, rt, driver_started, r, own, rank)
  BY DEF IInv, Good
<1>2. \A l \in Lists : Held(l) = {n \in Node : own[n] # 0 /\ ListOf(own[n]) = l}
  BY <1>1, HeldIs
<1>3. PoolOK(pool, clock, r, own, rank)
  BY <1>1 DEF InOrder
<1>4. /\ pool.last_freed # Nil => pool.fn[pool.last_freed] = NoFn
      /\ \A n \in Node : pool.fn[n] = NoFn <=> own[n] = 0
      /\ own \in [Node -> Handle \cup {0}]
  BY <1>3 DEF PoolOK, Owners
<1>5. \A n \in Node : own[n] # 0 => ListOf(own[n]) \in Lists
  BY <1>4, ListOfIs
<1> QED BY <1>2, <1>4, <1>5 DEF PoolPartition

LEMMA IInvDelayed == IInv => DelayedInOrder
<1> SUFFICES ASSUME IInv PROVE DelayedInOrder
  OBVIOUS
<1>1. PICK r, own, rank : InOrder(pool, owed, clock, stack, boot, rt, driver_started, r, own, rank)
  BY DEF IInv, Good
<1>2. PoolOK(pool, clock, r, own, rank) /\ RootsOK(r, pool.head, stack)
  BY <1>1 DEF InOrder
<1>3. Chain(pool, pool.head["delayed"]) = {n \in Node : own[n] = -2}
  BY <1>2, HandlesAre, ChainIs DEF RootsOK
<1>4. ASSUME NEW n \in Node, own[n] = -2, pool.next[n] # Nil
      PROVE  NotAfter(pool.time[n], pool.time[pool.next[n]])
  <2> DEFINE m == pool.next[n]
  <2>1. m \in Node /\ own[m] = -2 /\ pool.time[n] \in Times /\ pool.time[m] \in Times /\ clock \in Times
    BY <1>2, <1>4 DEF PoolOK, Owners, Pools
  <2>2. /\ Off(pool.time[n], clock) < Half /\ Off(pool.time[m], clock) < Half
        /\ Off(pool.time[n], clock) <= Off(pool.time[m], clock)
    BY <1>2, <1>4, <2>1 DEF PoolOK, InTime
  <2> QED BY <2>1, <2>2, NotAfterOrders
<1> QED BY <1>3, <1>4 DEF DelayedInOrder

LEMMA IInvAccounted == IInv => Accounted
<1> SUFFICES ASSUME IInv PROVE Accounted
  OBVIOUS
<1>1. PICK r, own, rank : InOrder(pool, owed, clock, stack, boot, rt, driver_started, r, own, rank)
  BY DEF IInv, Good
<1>2. Owing(owed, pool.fn, pool.time, own) /\ pool \in Pools
  BY <1>1 DEF InOrder, PoolOK
<1>3. ASSUME NEW e \in DOMAIN owed \cup {Req(l, pool.fn[n], pool.time[n]) : l \in Lists, n \in Node},
             e.fn \in Task
      PROVE  Copies(e, owed) = Cardinality({n \in Held(e.list) :
                                               Req(e.list, pool.fn[n], pool.time[n]) = e})
  <2>1. e \in TS!Request
    <3>1. CASE e \in DOMAIN owed
      BY <1>2, <3>1 DEF Owing
    <3>2. CASE e \notin DOMAIN owed
      <4>1. PICK l \in Lists, n \in Node : e = Req(l, pool.fn[n], pool.time[n])
        BY <3>2
      <4>2. e.fn = pool.fn[n] /\ pool.time[n] \in Times
        BY <1>2, <4>1, ReqIs DEF Pools
      <4> QED BY <1>3, <4>1, <4>2, ReqIs
    <3> QED BY <3>1, <3>2
  <2>2. e.list \in Lists
    BY <2>1 DEF TS!Request, TS!Lists, Lists
  <2>3. Held(e.list) = {n \in Node : own[n] # 0 /\ ListOf(own[n]) = e.list}
    BY <1>1, <2>2, HeldIs
  <2>4. \A n : Req(ListOf(own[n]), pool.fn[n], pool.time[n]) = e => ListOf(own[n]) = e.list
    BY ReqIs
  <2>5. {n \in Held(e.list) : Req(e.list, pool.fn[n], pool.time[n]) = e}
           = Holding(pool.fn, pool.time, own, e)
    BY <2>3, <2>4 DEF Holding
  <2> QED BY <1>2, <2>1, <2>5 DEF Owing
<1> QED BY <1>3 DEF Accounted

\* The pool, the statics and the activations keep their types.
THEOREM TypeCorrect ==
    ASSUME ~CancelRaces
    PROVE  Spec => []TypeOK
<1> QED BY Invariant, IInvTypeOK, PTL

\* Every node of the pool is free or in exactly one list, whatever interrupts add or
\* cancel while task_execute walks, detaches and frees: nothing leaks.
THEOREM PartitionKept ==
    ASSUME ~CancelRaces
    PROVE  Spec => []PoolPartition
<1> QED BY Invariant, IInvPartition, PTL

\* task_add_delayed keeps the list sorted across the wrap of the counter.
THEOREM OrderKept ==
    ASSUME ~CancelRaces
    PROVE  Spec => []DelayedInOrder
<1> QED BY Invariant, IInvDelayed, PTL

\* What the add functions accepted and nobody cancelled, ran or gave up is what the
\* lists hold, request by request.
THEOREM AllAccounted ==
    ASSUME ~CancelRaces
    PROVE  Spec => []Accounted
<1> QED BY Invariant, IInvAccounted, PTL

-----------------------------------------------------------------------------
(* The functions being run, as TaskService sees them.                      *)

Called(st, w, k) == IF k = 0 THEN <<>>
                    ELSE IF st[k].pc \in FnPcs THEN Append(w[k - 1], st[k].f)
                    ELSE w[k - 1]
IsCalls(st, n, w) == w = [k \in 0..n |-> Called(st, w, k)]

LEMMA CallsExist ==
    ASSUME NEW st, NEW n \in Nat
    PROVE  \E w : IsCalls(st, n, w)
<1> DEFINE T == {i \in Nat : \E w : IsCalls(st, i, w)}
<1>1. 0 \in T
  <2> DEFINE w == [k \in 0..0 |-> <<>>]
  <2>1. IsCalls(st, 0, w)
    BY DEF Called, IsCalls
  <2> QED BY <2>1
<1>2. ASSUME NEW i \in T PROVE i + 1 \in T
  <2>1. i \in Nat /\ i + 1 \in Nat
    OBVIOUS
  <2>2. PICK w : IsCalls(st, i, w)
    OBVIOUS
  <2> DEFINE v == [k \in 0..(i + 1) |-> IF k <= i THEN w[k] ELSE Called(st, w, k)]
  <2>3. \A k \in 0..(i + 1) : v[k] = Called(st, v, k)
    <3>1. \A k \in 0..(i + 1) : v[k] = IF k <= i THEN w[k] ELSE Called(st, w, k)
      OBVIOUS
    <3>2. \A k \in 0..i : w[k] = Called(st, w, k)
      BY <2>2 DEF IsCalls
    <3>3. \A k \in 0..(i + 1) : k = 0 \/ v[k - 1] = w[k - 1]
      BY <2>1, <3>1
    <3>4. \A k \in 0..(i + 1) : Called(st, v, k) = Called(st, w, k)
      BY <3>3 DEF Called
    <3> HIDE DEF v
    <3> QED BY <2>1, <3>1, <3>2, <3>4
  <2>4. IsCalls(st, i + 1, v)
    BY <2>3 DEF IsCalls
  <2> HIDE DEF v
  <2> QED BY <2>1, <2>4
<1>3. T \in SUBSET Nat
  OBVIOUS
<1> HIDE DEF T
<1>4. n \in T
  BY <1>1, <1>2, <1>3, Induct
<1> QED BY <1>4 DEF T

LEMMA FunctionsAre ==
    ASSUME NEW st \in Seq(FrameSet)
    PROVE  /\ Functions(st)[0] = <<>>
           /\ \A k \in 1..Len(st) :
                 Functions(st)[k] = IF st[k].pc \in FnPcs THEN Append(Functions(st)[k - 1], st[k].f)
                                    ELSE Functions(st)[k - 1]
<1> DEFINE W == Functions(st)
           n == Len(st)
<1>1. n \in Nat
  OBVIOUS
<1>2. \E w : IsCalls(st, n, w)
  BY <1>1, CallsExist
<1>3. W = [k \in 0..n |-> Called(st, W, k)]
  BY <1>2 DEF Functions, IsCalls, Called
<1> HIDE DEF W, n
<1>4. \A k \in 0..n : W[k] = Called(st, W, k)
  BY <1>3
<1>5. /\ W[0] = <<>>
      /\ \A k \in 1..n : W[k] = IF st[k].pc \in FnPcs THEN Append(W[k - 1], st[k].f) ELSE W[k - 1]
  BY <1>1, <1>4 DEF Called
<1> QED BY <1>5 DEF W, n

LEMMA FunctionsType ==
    ASSUME NEW st \in Seq(FrameSet), NEW k \in 0..Len(st)
    PROVE  Functions(st)[k] \in Seq(Task \cup {NoFn})
<1> DEFINE W == Functions(st)
           T == {i \in Nat : i <= Len(st) => W[i] \in Seq(Task \cup {NoFn})}
<1>1. /\ W[0] = <<>> /\ Len(st) \in Nat
      /\ \A i \in 1..Len(st) : W[i] = IF st[i].pc \in FnPcs THEN Append(W[i - 1], st[i].f) ELSE W[i - 1]
  BY FunctionsAre
<1> HIDE DEF W
<1>2. 0 \in T
  <2>1. <<>> \in Seq(Task \cup {NoFn})
    OBVIOUS
  <2> QED BY <1>1, <2>1
<1>3. ASSUME NEW i \in T PROVE i + 1 \in T
  <2> SUFFICES ASSUME i + 1 <= Len(st) PROVE W[i + 1] \in Seq(Task \cup {NoFn})
    OBVIOUS
  <2>1. i + 1 \in 1..Len(st) /\ (i + 1) - 1 = i /\ W[i] \in Seq(Task \cup {NoFn})
    BY <1>1
  <2>2. st[i + 1] \in FrameSet
    BY <2>1
  <2>3. st[i + 1].f \in Task \cup {NoFn}
    BY <2>2 DEF FrameSet
  <2>4. W[i + 1] = IF st[i + 1].pc \in FnPcs THEN Append(W[i], st[i + 1].f) ELSE W[i]
    BY <1>1, <2>1
  <2> QED BY <2>1, <2>3, <2>4
<1>4. T \in SUBSET Nat
  OBVIOUS
<1> HIDE DEF T
<1>5. k \in T
  BY <1>1, <1>2, <1>3, <1>4, Induct
<1> QED BY <1>5 DEF T, W

\* They depend on the activations below only.
LEMMA FunctionsBelow ==
    ASSUME NEW s \in Seq(FrameSet), NEW t \in Seq(FrameSet), NEW n \in Nat,
           n <= Len(s), n <= Len(t), \A i \in 1..n : s[i] = t[i]
    PROVE  Functions(s)[n] = Functions(t)[n]
<1> DEFINE T == {i \in Nat : i <= n => Functions(s)[i] = Functions(t)[i]}
<1>1. 0 \in T
  BY FunctionsAre
<1>2. ASSUME NEW i \in T PROVE i + 1 \in T
  <2> SUFFICES ASSUME i + 1 <= n PROVE Functions(s)[i + 1] = Functions(t)[i + 1]
    OBVIOUS
  <2> DEFINE j == i + 1
  <2>1. j \in 1..Len(s) /\ j \in 1..Len(t) /\ j \in 1..n /\ j - 1 = i
    OBVIOUS
  <2>2. s[j] = t[j] /\ Functions(s)[i] = Functions(t)[i]
    BY <2>1
  <2> HIDE DEF j
  <2>3. /\ Functions(s)[j] = IF s[j].pc \in FnPcs THEN Append(Functions(s)[j - 1], s[j].f)
                             ELSE Functions(s)[j - 1]
        /\ Functions(t)[j] = IF t[j].pc \in FnPcs THEN Append(Functions(t)[j - 1], t[j].f)
                             ELSE Functions(t)[j - 1]
    BY <2>1, FunctionsAre
  <2>4. Functions(s)[j] = Functions(t)[j]
    BY <2>1, <2>2, <2>3
  <2> QED BY <2>4 DEF j
<1>3. T \in SUBSET Nat
  OBVIOUS
<1> HIDE DEF T
<1>4. \A k \in 0..n : k \in T
  <2>1. \A k \in T : k < n => k + 1 \in T
    BY <1>2
  <2> QED BY <1>1, <1>3, <2>1, Induct, Zenon
<1>5. n \in T
  <2>1. n \in 0..n
    OBVIOUS
  <2> QED BY <1>4, <2>1
<1> QED BY <1>5 DEF T

\* the functions being run, and those of the activations under the innermost
Calls(st) == Functions(st)[Len(st)]
Under(st) == Functions(st)[Len(st) - 1]

LEMMA CallsAre ==
    ASSUME NEW st \in Seq(FrameSet), st # <<>>
    PROVE  /\ Calls(st) = IF st[Len(st)].pc \in FnPcs THEN Append(Under(st), st[Len(st)].f)
                          ELSE Under(st)
           /\ Under(st) \in Seq(Task \cup {NoFn})
           /\ st[Len(st)].pc \in FnPcs =>
                 Calls(st) # <<>> /\ SubSeq(Calls(st), 1, Len(Calls(st)) - 1) = Under(st)
<1>1. Len(st) \in 1..Len(st) /\ Len(st) - 1 \in 0..Len(st) /\ st[Len(st)] \in FrameSet
  BY TopIs
<1>2. Calls(st) = IF st[Len(st)].pc \in FnPcs THEN Append(Under(st), st[Len(st)].f) ELSE Under(st)
  BY <1>1, FunctionsAre DEF Calls, Under
<1>3. Under(st) \in Seq(Task \cup {NoFn}) /\ st[Len(st)].f \in Task \cup {NoFn}
  BY <1>1, FunctionsType DEF Under, FrameSet
<1>4. ASSUME NEW u \in Seq(Task \cup {NoFn}), NEW f \in Task \cup {NoFn}
      PROVE  Append(u, f) # <<>> /\ SubSeq(Append(u, f), 1, Len(Append(u, f)) - 1) = u
  <2> DEFINE a == Append(u, f)
  <2>1. a \in Seq(Task \cup {NoFn}) /\ a # <<>> /\ Len(a) = Len(u) + 1
        /\ \A i \in 1..Len(u) : a[i] = u[i]
    OBVIOUS
  <2> DEFINE v == SubSeq(a, 1, Len(a) - 1)
  <2>2. v \in Seq(Task \cup {NoFn}) /\ Len(v) = Len(u) /\ \A i \in 1..Len(u) : v[i] = a[i]
    BY <2>1
  <2>3. v = u
    <3> HIDE DEF v, a
    <3> QED BY <2>1, <2>2
  <2> QED BY <2>1, <2>3
<1> QED BY <1>2, <1>3, <1>4

LEMMA CallsSet ==
    ASSUME NEW st \in Seq(FrameSet), st # <<>>, NEW fr \in FrameSet
    PROVE  LET t == [st EXCEPT ![Len(st)] = fr]
           IN  /\ Calls(t) = IF fr.pc \in FnPcs THEN Append(Under(st), fr.f) ELSE Under(st)
               /\ t \in Seq(FrameSet)
<1> DEFINE t == [st EXCEPT ![Len(st)] = fr]
<1>1. /\ t \in Seq(FrameSet) /\ Len(t) = Len(st) /\ Len(st) \in Nat /\ Len(st) >= 1
      /\ \A i \in 1..Len(st) : t[i] = IF i = Len(st) THEN fr ELSE st[i]
  BY SetTopIs, TopIs
<1> HIDE DEF t
<1>2. t # <<>> /\ t[Len(t)] = fr /\ \A i \in 1..(Len(st) - 1) : t[i] = st[i]
  BY <1>1
<1>3. Under(t) = Under(st)
  <2>1. Len(st) - 1 \in Nat /\ Len(st) - 1 <= Len(st)
    BY <1>1
  <2> QED BY <1>1, <1>2, <2>1, FunctionsBelow DEF Under
<1> QED BY <1>1, <1>2, <1>3, CallsAre DEF t

LEMMA CallsPop ==
    ASSUME NEW st \in Seq(FrameSet), st # <<>>
    PROVE  Calls(SubSeq(st, 1, Len(st) - 1)) = Under(st)
<1> DEFINE t == SubSeq(st, 1, Len(st) - 1)
<1>1. /\ t \in Seq(FrameSet) /\ Len(t) = Len(st) - 1 /\ Len(t) \in Nat /\ Len(st) \in Nat
      /\ \A i \in 1..Len(t) : t[i] = st[i]
  BY PopIs, TopIs
<1> HIDE DEF t
<1>2. Functions(t)[Len(t)] = Functions(st)[Len(t)]
  <2>1. Len(t) <= Len(t) /\ Len(t) <= Len(st)
    BY <1>1
  <2> QED BY <1>1, <2>1, FunctionsBelow
<1>3. Calls(t) = Under(st)
  BY <1>1, <1>2 DEF Calls, Under
<1> QED BY <1>3 DEF t

LEMMA CallsPush ==
    ASSUME NEW st \in Seq(FrameSet), NEW fr \in FrameSet, fr.pc \notin FnPcs
    PROVE  Calls(Append(st, fr)) = Calls(st)
<1> DEFINE t == Append(st, fr)
<1>1. /\ t \in Seq(FrameSet) /\ Len(t) = Len(st) + 1 /\ Len(st) \in Nat
      /\ \A i \in 1..Len(t) : t[i] = IF i = Len(t) THEN fr ELSE st[i]
  BY PushIs
<1> HIDE DEF t
<1>2. t # <<>> /\ t[Len(t)] = fr /\ Len(t) - 1 = Len(st) /\ \A i \in 1..Len(st) : t[i] = st[i]
  BY <1>1
<1>3. Under(t) = Calls(st)
  <2>1. Len(st) <= Len(st) /\ Len(st) <= Len(t)
    BY <1>1
  <2>2. Functions(t)[Len(st)] = Functions(st)[Len(st)]
    BY <1>1, <1>2, <2>1, FunctionsBelow
  <2> QED BY <1>2, <2>2 DEF Under, Calls
<1>4. Calls(t) = Calls(st)
  BY <1>1, <1>2, <1>3, CallsAre
<1> QED BY <1>4 DEF t

-----------------------------------------------------------------------------
(* The lists implement the service.                                        *)

Serves == [TS!ServiceNext]_TS!svars

LEMMA RunningIs == Running = Calls(stack) /\ Running' = Calls(stack')
BY DEF Running, Calls

LEMMA ServiceSteps ==
    ASSUME NEW x, NEW y
    PROVE  /\ TS!Accept(x) <=> owed' = (owed (+) SetToBag({x})) /\ UNCHANGED <<Running, clock>>
           /\ TS!Cancel(x) <=> /\ x.list = "delayed" /\ x \in DOMAIN owed
                               /\ owed' = owed (-) SetToBag({x})
                               /\ UNCHANGED <<Running, clock>>
           /\ TS!Restart(x, y) <=> /\ x.list = "delayed" /\ x \in DOMAIN owed
                                   /\ owed' = (owed (-) SetToBag({x})) (+) SetToBag({y})
                                   /\ UNCHANGED <<Running, clock>>
           /\ TS!Start(x) <=> /\ x \in DOMAIN owed
                              /\ x.list = "delayed" => NotAfter(x.time, clock)
                              /\ owed' = IF x.list = "systick" THEN owed ELSE owed (-) SetToBag({x})
                              /\ Running' = Append(Running, x.fn)
                              /\ UNCHANGED clock
<1>1. TS!Accept(x) <=> owed' = (owed (+) SetToBag({x})) /\ UNCHANGED <<Running, clock>>
  BY DEF TS!Accept, TS!(+), TS!SetToBag, (+), SetToBag
<1>2. TS!Cancel(x) <=> /\ x.list = "delayed" /\ x \in DOMAIN owed
                       /\ owed' = owed (-) SetToBag({x})
                       /\ UNCHANGED <<Running, clock>>
  BY DEF TS!Cancel, TS!(-), TS!SetToBag, (-), SetToBag
<1>3. TS!Restart(x, y) <=> /\ x.list = "delayed" /\ x \in DOMAIN owed
                           /\ owed' = (owed (-) SetToBag({x})) (+) SetToBag({y})
                           /\ UNCHANGED <<Running, clock>>
  BY DEF TS!Restart, TS!(+), TS!(-), TS!SetToBag, (+), (-), SetToBag
<1>4. TS!Start(x) <=> /\ x \in DOMAIN owed
                      /\ x.list = "delayed" => NotAfter(x.time, clock)
                      /\ owed' = IF x.list = "systick" THEN owed ELSE owed (-) SetToBag({x})
                      /\ Running' = Append(Running, x.fn)
                      /\ UNCHANGED clock
  BY DEF TS!Start, TS!(-), TS!SetToBag, (-), SetToBag, TS!NotAfter, NotAfter
<1> QED BY <1>1, <1>2, <1>3, <1>4

\* Steps that call nothing, change nothing that is owed and let no time pass.
LEMMA QuietSteps ==
    ASSUME UNCHANGED <<owed, clock>>, Calls(stack') = Calls(stack)
    PROVE  Serves
BY RunningIs DEF Serves, TS!svars

LEMMA PostServes ==
    ASSUME IInv, NEW l \in Lists, NEW f \in Task, NEW d \in Delays \cup {0},
           PostTask(l, f, d), UNCHANGED <<stack, uCtl>>
    PROVE  Serves
<1> DEFINE x == Req(TargetList(l), f, After(d))
<1>1. x \in TS!Request
  <2>1. TargetList(l) \in Lists /\ clock \in Times
    BY GoodIs DEF TargetList, Lists, IInv
  <2>2. d \in Nat /\ Period \in Nat \ {0}
    BY PoolAssumption
  <2>3. After(d) \in Times
    BY <2>1, <2>2 DEF After, Times
  <2> QED BY <2>1, <2>3, ReqIs
<1>2. /\ owed' = owed (+) SetToBag({x}) \/ owed' = owed
      /\ clock' = clock /\ stack' = stack
  BY DEF PostTask, OwedAdd, uCtl
<1> HIDE DEF x
<1>3. CASE owed' = owed
  BY <1>2, <1>3, QuietSteps
<1>4. CASE owed' = owed (+) SetToBag({x})
  <2>1. TS!Accept(x)
    BY <1>2, <1>4, RunningIs, ServiceSteps
  <2> QED BY <1>1, <2>1 DEF Serves, TS!ServiceNext
<1> QED BY <1>2, <1>3, <1>4

\* What task_delete finds is owed.
LEMMA DeleteFinds ==
    ASSUME IInv, NEW f, \A i \in 1..Len(stack) : stack[i].pc # "take", Found(pool, f) # Nil
    PROVE  Req("delayed", f, pool.time[Found(pool, f)]) \in DOMAIN owed
<1>1. Good(pool, owed, clock, stack, boot, rt, driver_started)
  BY DEF IInv
<1> QED BY <1>1, Deleting

LEMMA CancelServes ==
    ASSUME IInv, NEW f, Cancel(f)
    PROVE  Serves
<1> DEFINE x == Req("delayed", f, pool.time[Found(pool, f)])
<1>1. \A i \in 1..Len(stack) : stack[i].pc # "take"
  <2>1. FramesOK(stack, pool.head, boot, rt, driver_started)
    BY GoodIs DEF IInv
  <2>2. /\ \A i \in 1..Len(stack) : i # Len(stack) => stack[i].pc # "take"
        /\ stack = <<>> => 1..Len(stack) = {}
    BY <2>1 DEF FramesOK
  <2>3. stack # <<>> => stack[Len(stack)].pc # "take"
    BY DEF Cancel, InCode, Top, FnPcs
  <2> QED BY <2>2, <2>3
<1>2. /\ Found(pool, f) # Nil /\ owed' = owed (-) SetToBag({x})
      /\ clock' = clock /\ stack' = stack
  BY DEF Cancel, OwedDelete, uCtl
<1>3. x \in DOMAIN owed /\ x.list = "delayed"
  BY <1>1, <1>2, DeleteFinds, ReqIs
<1> HIDE DEF x
<1>4. TS!Cancel(x)
  BY <1>2, <1>3, RunningIs, ServiceSteps
<1> QED BY <1>3, <1>4 DEF Serves, TS!ServiceNext

LEMMA GoIdleServes ==
    ASSUME IInv, ~CancelRaces, NEW f \in Task, NEW d \in Delays, StGoIdle(f, d)
    PROVE  Serves
<1> DEFINE x == Req("delayed", f, pool.time[Found(pool, f)])
           y == Req("delayed", f, After(d))
           o == IF Found(pool, f) = Nil THEN owed ELSE owed (-) SetToBag({x})
<1>1. clock \in Times /\ DOMAIN stack = 1..Len(stack)
  BY GoodIs DEF IInv
<1>2. y \in TS!Request
  <2>1. After(d) \in Times
    BY <1>1, OffNow DEF After
  <2> QED BY <2>1, ReqIs DEF Lists
<1>3. Found(pool, f) # Nil => x \in DOMAIN owed /\ x.list = "delayed"
  <2>1. \A i \in 1..Len(stack) : stack[i].pc # "take"
    BY <1>1 DEF StGoIdle
  <2> QED BY <2>1, DeleteFinds, ReqIs
<1>4. /\ owed' = o (+) SetToBag({y}) \/ owed' = o
      /\ clock' = clock /\ stack' = stack
  BY DEF StGoIdle, OwedAdd, OwedDelete, uCtl
<1> HIDE DEF x, y
<1>5. CASE Found(pool, f) = Nil
  <2>1. CASE owed' = owed
    BY <1>4, <2>1, QuietSteps
  <2>2. CASE owed' = owed (+) SetToBag({y})
    <3>1. TS!Accept(y)
      BY <1>4, <2>2, RunningIs, ServiceSteps
    <3> QED BY <1>2, <3>1 DEF Serves, TS!ServiceNext
  <2> QED BY <1>4, <1>5, <2>1, <2>2
<1>6. CASE Found(pool, f) # Nil
  <2>1. CASE owed' = owed (-) SetToBag({x})
    <3>1. TS!Cancel(x)
      BY <1>3, <1>4, <1>6, <2>1, RunningIs, ServiceSteps
    <3> QED BY <1>3, <1>6, <3>1 DEF Serves, TS!ServiceNext
  <2>2. CASE owed' = (owed (-) SetToBag({x})) (+) SetToBag({y})
    <3>1. TS!Restart(x, y)
      BY <1>3, <1>4, <1>6, <2>2, RunningIs, ServiceSteps
    <3> QED BY <1>2, <1>3, <1>6, <3>1 DEF Serves, TS!ServiceNext
  <2> QED BY <1>4, <1>6, <2>1, <2>2
<1> QED BY <1>5, <1>6

\* The function of a request that is owed is called.
LEMMA StartServes ==
    ASSUME NEW x \in DOMAIN owed, DOMAIN owed \subseteq TS!Request, stack \in Seq(FrameSet), stack # <<>>,
           Top.pc \notin FnPcs, clock' = clock,
           x.list = "delayed" => NotAfter(x.time, clock),
           owed' = IF x.list = "systick" THEN owed ELSE owed (-) SetToBag({x}),
           NEW fr \in FrameSet, fr.pc \in FnPcs, fr.f = x.fn,
           stack' = [stack EXCEPT ![Len(stack)] = fr]
    PROVE  Serves
<1>1. Calls(stack) = Under(stack)
  BY CallsAre DEF Top
<1>2. Calls(stack') = Append(Under(stack), fr.f)
  BY CallsSet
<1>3. TS!Start(x)
  BY <1>1, <1>2, RunningIs, ServiceSteps
<1> QED BY <1>3 DEF Serves, TS!ServiceNext

LEMMA RunServes ==
    ASSUME IInv, NEW pc, NEW l, NEW fnpc, <<pc, l, fnpc>> \in Runners, Run(pc, l, fnpc)
    PROVE  Serves
<1> DEFINE n == Top.task
           x == Req(l, pool.fn[n], 0)
           fr == [Top EXCEPT !.pc = fnpc, !.task = pool.next[n], !.f = pool.fn[n]]
<1>1. x \in DOMAIN owed /\ DOMAIN owed \subseteq TS!Request /\ IInv'
  BY RunKeeps
<1>2. /\ stack # <<>> /\ Top.pc = pc /\ stack' = [stack EXCEPT ![Len(stack)] = fr]
      /\ owed' = owed (-) SetToBag({x}) /\ clock' = clock
  BY DEF Run, RunFrom, At, SetTop, uCtl
<1>3. /\ pc \notin FnPcs /\ fnpc \in FnPcs /\ fnpc \in Pcs /\ l # "delayed" /\ l # "systick"
  BY DEF Runners, FnPcs, Pcs
<1>4. x.list = l /\ x.fn = pool.fn[n]
  BY ReqIs
<1>5. stack \in Seq(FrameSet) /\ stack' \in Seq(FrameSet)
  BY <1>1, GoodIs DEF IInv
<1>6. fr \in FrameSet /\ fr.pc = fnpc /\ fr.f = pool.fn[n]
  <2>1. Len(stack) \in 1..Len(stack) /\ DOMAIN stack = 1..Len(stack) /\ Top \in FrameSet
    BY <1>2, <1>5, TopIs DEF Top
  <2>2. fr.pc = fnpc /\ fr.f = pool.fn[n]
    BY <2>1 DEF FrameSet
  <2> HIDE DEF fr
  <2>3. stack'[Len(stack)] = fr /\ Len(stack') = Len(stack)
    BY <1>2, <1>5, <2>1
  <2>4. stack'[Len(stack)] \in FrameSet
    BY <1>5, <2>1, <2>3
  <2> QED BY <2>2, <2>3, <2>4
<1> HIDE DEF x, fr
<1> QED BY <1>1, <1>2, <1>3, <1>4, <1>5, <1>6, StartServes

\* The innermost activation, after a step that sets it.
LEMMA TopSet ==
    ASSUME IInv, IInv', stack # <<>>, NEW fr, stack' = [stack EXCEPT ![Len(stack)] = fr]
    PROVE  stack \in Seq(FrameSet) /\ stack' \in Seq(FrameSet) /\ Top \in FrameSet /\ fr \in FrameSet
<1>1. stack \in Seq(FrameSet) /\ stack' \in Seq(FrameSet)
  BY GoodIs DEF IInv
<1>2. Len(stack) \in 1..Len(stack) /\ DOMAIN stack = 1..Len(stack) /\ Top \in FrameSet
  BY <1>1, TopIs DEF Top
<1>3. stack'[Len(stack)] = fr /\ Len(stack') = Len(stack)
  BY <1>1, <1>2
<1> QED BY <1>1, <1>2, <1>3

LEMMA PollServes ==
    ASSUME IInv, PollSystick
    PROVE  Serves
<1> DEFINE n == Top.task
           x == Req("systick", pool.fn[n], 0)
           fr == [Top EXCEPT !.pc = "sysfn", !.f = pool.fn[n]]
<1>1. x \in DOMAIN owed /\ DOMAIN owed \subseteq TS!Request /\ IInv'
  BY PollKeeps
<1>2. /\ stack # <<>> /\ Top.pc = "sys" /\ stack' = [stack EXCEPT ![Len(stack)] = fr]
      /\ owed' = owed /\ clock' = clock
  BY DEF PollSystick, At, SetTop, uCtl
<1>3. Top.pc \notin FnPcs /\ "sysfn" \in FnPcs
  BY <1>2 DEF FnPcs
<1>4. x.list = "systick" /\ x.fn = pool.fn[n]
  BY ReqIs
<1>5. stack \in Seq(FrameSet) /\ Top \in FrameSet /\ fr \in FrameSet
  BY <1>1, <1>2, TopSet
<1>6. fr.pc = "sysfn" /\ fr.f = pool.fn[n]
  BY <1>5 DEF FrameSet
<1> HIDE DEF x, fr
<1> QED BY <1>1, <1>2, <1>3, <1>4, <1>5, <1>6, StartServes

LEMMA TakeServes ==
    ASSUME IInv, TakeDelayed
    PROVE  Serves
<1> DEFINE n == Top.task
           x == Req("delayed", pool.fn[n], pool.time[n])
           fr == [Top EXCEPT !.pc = "delfn", !.task = Nil, !.f = pool.fn[n]]
<1>1. /\ x \in DOMAIN owed /\ DOMAIN owed \subseteq TS!Request /\ IInv'
      /\ NotAfter(pool.time[n], clock)
  BY TakeKeeps
<1>2. /\ stack # <<>> /\ Top.pc = "take" /\ stack' = [stack EXCEPT ![Len(stack)] = fr]
      /\ owed' = owed (-) SetToBag({x}) /\ clock' = clock
  BY DEF TakeDelayed, At, SetTop, uCtl
<1>3. Top.pc \notin FnPcs /\ "delfn" \in FnPcs
  BY <1>2 DEF FnPcs
<1>4. x.list = "delayed" /\ x.fn = pool.fn[n] /\ x.time = pool.time[n]
  BY DEF Req
<1>5. stack \in Seq(FrameSet) /\ Top \in FrameSet /\ fr \in FrameSet
  BY <1>1, <1>2, TopSet
<1>6. fr.pc = "delfn" /\ fr.f = pool.fn[n]
  BY <1>5 DEF FrameSet
<1> HIDE DEF x, fr
<1> QED BY <1>1, <1>2, <1>3, <1>4, <1>5, <1>6, StartServes

\* An activation that calls nothing goes on or returns.
LEMMA QuietTop ==
    ASSUME IInv, IInv', stack # <<>>, Top.pc \notin FnPcs, UNCHANGED <<owed, clock>>,
           \/ Pop
           \/ \E fr : fr.pc \notin FnPcs /\ stack' = [stack EXCEPT ![Len(stack)] = fr]
    PROVE  Serves
<1>1. stack \in Seq(FrameSet) /\ Calls(stack) = Under(stack)
  <2>1. stack \in Seq(FrameSet)
    BY GoodIs DEF IInv
  <2> QED BY <2>1, CallsAre DEF Top
<1>2. CASE Pop
  <2>1. Calls(stack') = Under(stack)
    BY <1>1, <1>2, CallsPop DEF Pop
  <2> QED BY <1>1, <2>1, QuietSteps
<1>3. ASSUME NEW fr, fr.pc \notin FnPcs, stack' = [stack EXCEPT ![Len(stack)] = fr]
      PROVE  Serves
  <2>1. fr \in FrameSet
    BY <1>3, TopSet
  <2>2. Calls(stack') = Under(stack)
    BY <1>1, <1>3, <2>1, CallsSet
  <2> QED BY <1>1, <2>2, QuietSteps
<1> QED BY <1>2, <1>3

LEMMA GateServes ==
    ASSUME IInv, IInv', Gate
    PROVE  Serves
<1> DEFINE s == pool.head["systick"]
           fr == [Frame(IF s # Nil THEN "sys" ELSE "peek", s) EXCEPT !.now = clock]
<1>1. /\ stack # <<>> /\ Top.pc \notin FnPcs /\ UNCHANGED <<owed, clock>>
      /\ Pop \/ stack' = [stack EXCEPT ![Len(stack)] = fr]
  BY DEF Gate, At, SetTop, FnPcs
<1>2. fr.pc \notin FnPcs
  BY DEF Frame, FnPcs
<1> HIDE DEF fr
<1> QED BY <1>1, <1>2, QuietTop

LEMMA PeekServes ==
    ASSUME IInv, IInv', PeekDelayed
    PROVE  Serves
<1> DEFINE fr == [Top EXCEPT !.pc = "take", !.task = pool.head["delayed"]]
<1>1. /\ stack # <<>> /\ Top.pc \notin FnPcs /\ UNCHANGED <<owed, clock>>
      /\ Pop \/ stack' = [stack EXCEPT ![Len(stack)] = fr]
  BY DEF PeekDelayed, At, SetTop, FnPcs
<1>2. fr.pc \notin FnPcs
  <2>1. stack \in Seq(FrameSet)
    BY GoodIs DEF IInv
  <2>2. Top \in FrameSet
    BY <1>1, <2>1, TopIs DEF Top
  <2> QED BY <2>2 DEF FrameSet, FnPcs
<1> HIDE DEF fr
<1> QED BY <1>1, <1>2, QuietTop

\* A function returns.
LEMMA ReturnServes ==
    ASSUME IInv, IInv', Return
    PROVE  Serves
<1>1. stack # <<>> /\ Top.pc \in FnPcs /\ UNCHANGED <<owed, clock>>
  BY DEF Return, uCtl
<1>2. stack \in Seq(FrameSet) /\ Top \in FrameSet
  <2>1. stack \in Seq(FrameSet)
    BY GoodIs DEF IInv
  <2> QED BY <1>1, <2>1, TopIs DEF Top
<1>3. /\ Calls(stack) # <<>> /\ SubSeq(Calls(stack), 1, Len(Calls(stack)) - 1) = Under(stack)
  BY <1>1, <1>2, CallsAre DEF Top
<1> DEFINE n == Top.task
           up(pc, m) == [[Top EXCEPT !.f = NoFn] EXCEPT !.pc = pc, !.task = m]
<1>4. Pop \/ \E fr : fr.pc \notin FnPcs /\ stack' = [stack EXCEPT ![Len(stack)] = fr]
  <2>1. ASSUME NEW pc, pc \notin FnPcs, NEW m, SetTop(up(pc, m))
        PROVE  \E fr : fr.pc \notin FnPcs /\ stack' = [stack EXCEPT ![Len(stack)] = fr]
    <3>1. up(pc, m).pc = pc
      BY <1>2 DEF FrameSet
    <3> QED BY <2>1, <3>1 DEF SetTop
  <2>2. ASSUME NEW h, NEW k, EndsOr(StartupFrame(h, k))
        PROVE  Pop \/ \E fr : fr.pc \notin FnPcs /\ stack' = [stack EXCEPT ![Len(stack)] = fr]
    <3> DEFINE fr == StartupFrame(h, k)
    <3>1. fr.pc \notin FnPcs
      BY DEF StartupFrame, Frame, FnPcs
    <3>2. Pop \/ stack' = [stack EXCEPT ![Len(stack)] = fr]
      BY <2>2 DEF EndsOr, SetTop
    <3> QED BY <3>1, <3>2
  <2>3. "imm" \notin FnPcs /\ "gate" \notin FnPcs /\ "sys" \notin FnPcs /\ "peek" \notin FnPcs
    BY DEF FnPcs
  <2>4. CASE Top.pc = "immfn"
    <3>1. SetTop(up(IF n # Nil THEN "imm" ELSE "gate", n))
      BY <2>4 DEF Return
    <3> HIDE DEF up
    <3> QED BY <2>1, <2>3, <3>1
  <2>5. CASE Top.pc = "sysfn"
    <3>1. SetTop(up(IF pool.next[n] # Nil THEN "sys" ELSE "peek", pool.next[n]))
      BY <2>5 DEF Return
    <3> HIDE DEF up
    <3> QED BY <2>1, <2>3, <3>1
  <2>6. CASE Top.pc = "delfn"
    <3>1. SetTop(up("peek", Nil))
      BY <2>6 DEF Return
    <3> HIDE DEF up
    <3> QED BY <2>1, <2>3, <3>1
  <2>7. CASE Top.pc = "bootfn"
    <3>1. EndsOr(StartupFrame(n, pool.head["reset"]))
      BY <2>7 DEF Return
    <3> QED BY <2>2, <3>1
  <2>8. CASE Top.pc = "resetfn"
    <3>1. EndsOr(StartupFrame(Nil, n))
      BY <2>8 DEF Return
    <3> QED BY <2>2, <3>1
  <2> QED BY <1>1, <2>4, <2>5, <2>6, <2>7, <2>8 DEF FnPcs
<1>5. Calls(stack') = Under(stack)
  <2>1. CASE Pop
    BY <1>1, <1>2, <2>1, CallsPop DEF Pop
  <2>2. ASSUME NEW fr, fr.pc \notin FnPcs, stack' = [stack EXCEPT ![Len(stack)] = fr]
        PROVE  Calls(stack') = Under(stack)
    <3>1. fr \in FrameSet
      BY <1>1, <2>2, TopSet
    <3> QED BY <1>1, <1>2, <2>2, <3>1, CallsSet
  <2> QED BY <1>4, <2>1, <2>2
<1>6. TS!Return
  BY <1>1, <1>3, <1>5, RunningIs DEF TS!Return
<1> QED BY <1>6 DEF Serves, TS!ServiceNext

LEMMA ExecuteServes ==
    ASSUME IInv, Execute
    PROVE  Serves
<1>1. stack \in Seq(FrameSet) /\ pool \in Pools
  BY GoodIs DEF IInv
<1>2. ASSUME NEW pc \in {"imm", "gate"}, NEW n \in Node \cup {Nil}, stack' = Append(stack, Frame(pc, n))
      PROVE  Calls(stack') = Calls(stack)
  <2> DEFINE fr == Frame(pc, n)
  <2>1. fr \in FrameSet /\ fr.pc \notin FnPcs
    BY PoolAssumption DEF Frame, FrameSet, Pcs, FnPcs, Times
  <2> HIDE DEF fr
  <2>2. Calls(Append(stack, fr)) = Calls(stack)
    BY <1>1, <2>1, CallsPush
  <2> QED BY <1>2, <2>2 DEF fr
<1>3. pool.head["immediate"] \in Node \cup {Nil} /\ Nil \in Node \cup {Nil}
  BY <1>1 DEF Pools, Lists
<1>4. UNCHANGED <<owed, clock>>
  BY DEF Execute, uCtl
<1> QED BY <1>2, <1>3, <1>4, QuietSteps DEF Execute

\* A driver that did not start gives up the rest.
LEMMA ServeServes ==
    ASSUME IInv, IInv', ServeRealtime
    PROVE  Serves
<1>1. /\ stack \in Seq(FrameSet) /\ stack' \in Seq(FrameSet) /\ DOMAIN owed \subseteq TS!Request
  <2>1. DOMAIN owed \subseteq TS!Request
    BY DEF IInv, Good, InOrder, Owing
  <2> QED BY <2>1, GoodIs DEF IInv
<1>2. clock' = clock
  BY DEF ServeRealtime
<1>3. CASE UNCHANGED <<stack, owed>>
  BY <1>2, <1>3, QuietSteps
<1>4. CASE ~UNCHANGED <<stack, owed>>
  <2> DEFINE p == IF driver_started THEN pool ELSE KeepWarnings(pool)
             fr == StartupFrame(p.head["booted"], p.head["reset"])
  <2>1. /\ stack' = stack \/ stack' = Append(stack, fr)
        /\ owed' = IF driver_started THEN owed ELSE [e \in Wanted(owed) |-> owed[e]]
    BY <1>4 DEF ServeRealtime, ExecuteOnStartup, Wanted
  <2>2. fr.pc \notin FnPcs
    BY DEF StartupFrame, Frame, FnPcs
  <2> HIDE DEF fr
  <2>3. Calls(stack') = Calls(stack)
    <3>1. CASE stack' = stack
      BY <3>1
    <3>2. CASE stack' = Append(stack, fr)
      <4>1. Append(stack, fr)[Len(stack) + 1] = fr /\ Len(Append(stack, fr)) = Len(stack) + 1
            /\ Len(stack) \in Nat
        BY <1>1
      <4>2. fr \in FrameSet
        BY <1>1, <3>2, <4>1
      <4> QED BY <1>1, <2>2, <3>2, <4>2, CallsPush
    <3> QED BY <2>1, <3>1, <3>2
  <2>4. CASE driver_started
    BY <1>2, <2>1, <2>3, <2>4, QuietSteps
  <2>5. CASE ~driver_started
    <3> DEFINE S == DOMAIN owed \ Wanted(owed)
    <3>1. \A e \in S : e.list \in {"booted", "delayed", "systick"}
      BY <1>1 DEF Wanted, TS!Request, TS!Lists
    <3>2. DOMAIN owed \ S = Wanted(owed) /\ S \in SUBSET DOMAIN owed
      BY DEF Wanted
    <3>3. TS!GiveUp
      <4> HIDE DEF S
      <4> QED BY <1>2, <2>1, <2>3, <2>5, <3>1, <3>2, RunningIs DEF TS!GiveUp
    <3> QED BY <3>3 DEF Serves, TS!ServiceNext
  <2> QED BY <2>4, <2>5
<1> QED BY <1>3, <1>4

LEMMA TickServes ==
    ASSUME Tick
    PROVE  Serves
<1>1. TS!Tick
  BY RunningIs DEF Tick, TS!Tick
<1> QED BY <1>1 DEF Serves, TS!ServiceNext

\* Every step of the lists is a step of the service, or none of its business.
LEMMA NextServes ==
    ASSUME ~CancelRaces, IInv, IInv', [Next]_vars
    PROVE  Serves
<1>1. ASSUME NEW lf \in Posts, NEW d \in Delays \cup {0}, Post(lf[1], lf[2], d)
      PROVE  Serves
  <2>1. lf[1] \in Lists /\ lf[2] \in Task
    BY PoolAssumption
  <2> QED BY <1>1, <2>1, PostServes DEF Post
<1>2. ASSUME NEW lf \in IsrPosts, NEW d \in Delays \cup {0}, IsrPost(lf[1], lf[2], d)
      PROVE  Serves
  <2>1. lf[1] \in Lists /\ lf[2] \in Task
    BY PoolAssumption
  <2> QED BY <1>2, <2>1, PostServes DEF IsrPost
<1>3. ASSUME NEW f \in Cancels, NEW d \in Delays, StGoIdle(f, d) PROVE Serves
  <2>1. f \in Task
    BY PoolAssumption
  <2> QED BY <1>3, <2>1, GoIdleServes
<1>4. ASSUME NEW f \in Cancels, Cancel(f) PROVE Serves
  BY <1>4, CancelServes
<1>5. CASE TaskSteps
  <2>1. ASSUME NEW pc, NEW l, NEW fnpc, <<pc, l, fnpc>> \in Runners, Run(pc, l, fnpc) PROVE Serves
    BY <2>1, RunServes
  <2>2. CASE RunImmediate
    BY <2>1, <2>2 DEF RunImmediate, Runners
  <2>3. CASE RunBooted
    BY <2>1, <2>3 DEF RunBooted, Runners
  <2>4. CASE RunReset
    BY <2>1, <2>4 DEF RunReset, Runners
  <2> QED BY <1>5, <2>2, <2>3, <2>4, GateServes, PollServes, PeekServes, TakeServes DEF TaskSteps
<1>6. CASE Execute
  BY <1>6, ExecuteServes
<1>7. CASE Return
  BY <1>7, ReturnServes
<1>8. CASE ServeRealtime
  BY <1>8, ServeServes
<1>9. CASE DriverStarts \/ ColdStartEnds \/ Reinitialize \/ SoftReset \/ UNCHANGED vars
  <2>1. UNCHANGED <<owed, clock, stack>>
    BY <1>9 DEF DriverStarts, ColdStartEnds, Reinitialize, SoftReset, vars
  <2> QED BY <2>1, QuietSteps
<1>10. CASE Tick
  BY <1>10, TickServes
<1> QED BY <1>1, <1>2, <1>3, <1>4, <1>5, <1>6, <1>7, <1>8, <1>9, <1>10 DEF Next

LEMMA InitServes == Init => TS!ServiceInit
<1> SUFFICES ASSUME Init PROVE TS!ServiceInit
  OBVIOUS
<1>1. stack = <<>> /\ <<>> \in Seq(FrameSet) /\ Len(<<>>) = 0
  BY DEF Init
<1>2. Running = <<>>
  BY <1>1, FunctionsAre DEF Running
<1>3. owed = EmptyBag /\ clock = 0
  BY DEF Init
<1> QED BY <1>2, <1>3 DEF TS!ServiceInit, EmptyBag, SetToBag, TS!EmptyBag, TS!SetToBag

\* A function runs only while a call for it is owed: not after task_delete, not twice, a
\* delayed one not early; and what is owed goes only by running, cancelling or, when the
\* driver did not start, by being given up.
THEOREM ServiceImplemented ==
    ASSUME ~CancelRaces
    PROVE  Spec => ImplementsTaskService
<1>1. IInv /\ IInv' /\ [Next]_vars => [TS!ServiceNext]_TS!svars
  BY NextServes DEF Serves
<1> QED BY <1>1, InitServes, Invariant, PTL DEF Spec, ImplementsTaskService, TS!ServiceSpec
=============================================================================
