--------------------------- MODULE FeePool_proofs ---------------------------
(***************************************************************************)
(* The safety properties of FeePool hold for any transactions, balances    *)
(* and limits: the types, each transaction with its fees in the mempool,   *)
(* stored and charged once, and the money as it was.                       *)
(***************************************************************************)
EXTENDS FeePool, DataInduction

-----------------------------------------------------------------------------
(* The operators the model is built from                                   *)

\* What a loop over p has kept after each turn.
KeepsIn(c, T, p, K) ==
    /\ c \in [0..Len(p) -> Seq(T)]
    /\ c[0] = <<>>
    /\ \A n \in 1..Len(p) : c[n] = IF n \in K THEN Append(c[n - 1], p[n]) ELSE c[n - 1]
    /\ Kept(p, K) = c[Len(p)]

\* Kept is what the loop builds.
LEMMA KeptCourse ==
    ASSUME NEW T, NEW p \in Seq(T), NEW K
    PROVE  \E c : KeepsIn(c, T, p, K)
<1> DEFINE m == Len(p)
           step == [n \in 1..m |-> [x \in Seq(T) |-> IF n \in K THEN Append(x, p[n]) ELSE x]]
           Is(c) == c = [n \in 0..m |-> IF n = 0 THEN <<>>
                                        ELSE IF n \in K THEN Append(c[n - 1], p[n]) ELSE c[n - 1]]
<1>1. m \in Nat /\ \A n \in 1..m : p[n] \in T
  BY LenProperties, ElementOfSeq
<1>2. step \in [1..m -> [Seq(T) -> Seq(T)]]
  BY <1>1, AppendProperties
<1>3. <<>> \in Seq(T)
  BY EmptySeq
<1>4. PICK g : IsCourse(g, Seq(T), <<>>, m, step)
  <2> HIDE DEF step, m
  <2> QED BY <1>1, <1>2, <1>3, CourseExists
<1>5. g \in [0..m -> Seq(T)] /\ g[0] = <<>>
  BY <1>4 DEF IsCourse
<1>6. ASSUME NEW n \in 1..m
      PROVE  g[n] = IF n \in K THEN Append(g[n - 1], p[n]) ELSE g[n - 1]
  <2>1. g[n] = step[n][g[n - 1]]
    <3> HIDE DEF step, m
    <3> QED BY <1>4 DEF IsCourse
  <2>2. n - 1 \in 0..m
    BY <1>1
  <2>3. g[n - 1] \in Seq(T)
    <3> HIDE DEF m
    <3> QED BY <1>5, <2>2
  <2>4. step[n] = [x \in Seq(T) |-> IF n \in K THEN Append(x, p[n]) ELSE x]
    OBVIOUS
  <2> QED BY <2>1, <2>3, <2>4
<1>7. Is(g)
  <2>1. g = [n \in 0..m |-> g[n]]
    BY <1>5
  <2>2. ASSUME NEW n \in 0..m
        PROVE  g[n] = IF n = 0 THEN <<>>
                      ELSE IF n \in K THEN Append(g[n - 1], p[n]) ELSE g[n - 1]
    <3>1. n # 0 => n \in 1..m
      BY <1>1
    <3> HIDE DEF m, step
    <3> QED BY <3>1, <1>5, <1>6
  <2> HIDE DEF m, step
  <2> QED BY <2>1, <2>2
<1> DEFINE c == CHOOSE x : Is(x)
<1>8. Is(c)
  <2> HIDE DEF Is
  <2> QED BY <1>7
<1>9. Kept(p, K) = c[m]
  BY DEF Kept
<1> HIDE DEF c
<1>10. c[0] = <<>>
  BY <1>1, <1>8
<1>11. ASSUME NEW n \in 1..m
       PROVE  c[n] = IF n \in K THEN Append(c[n - 1], p[n]) ELSE c[n - 1]
  <2>1. n \in 0..m /\ n # 0
    BY <1>1
  <2> QED BY <2>1, <1>8
<1> DEFINE S == {n \in Nat : c[n] \in Seq(T)}
<1>12. \A n \in 0..m : n \in S
  <2>1. 0 \in S
    BY <1>10, <1>3
  <2>2. ASSUME NEW n \in Nat, n < m, n \in S PROVE n + 1 \in S
    <3>1. n + 1 \in 1..m /\ (n + 1) - 1 = n
      BY <1>1, <2>2
    <3>2. c[n + 1] = IF n + 1 \in K THEN Append(c[n], p[n + 1]) ELSE c[n]
      BY <1>11, <3>1
    <3>3. c[n] \in Seq(T) /\ p[n + 1] \in T
      BY <1>1, <2>2, <3>1
    <3>4. Append(c[n], p[n + 1]) \in Seq(T)
      BY <3>3, AppendProperties
    <3>5. c[n + 1] \in Seq(T)
      BY <3>2, <3>3, <3>4
    <3> HIDE DEF m
    <3> QED BY <3>5
  <2> HIDE DEF S
  <2> QED BY <1>1, <2>1, <2>2, UpToSet
<1>13. c \in [0..m -> Seq(T)]
  <2>1. c = [n \in 0..m |-> c[n]]
    BY <1>8
  <2> HIDE DEF m
  <2> QED BY <2>1, <1>12
<1> QED
  BY <1>9, <1>10, <1>11, <1>13 DEF KeepsIn

\* The entries that are kept, at strictly increasing positions, and all of them.
Embeds(h, q, p, K) ==
    /\ h \in [1..Len(q) -> 1..Len(p)]
    /\ \A j \in 1..Len(q) : h[j] \in K /\ q[j] = p[h[j]]
    /\ \A i, j \in 1..Len(q) : i < j => h[i] < h[j]
    /\ \A k \in 1..Len(p) : k \in K => \E j \in 1..Len(q) : h[j] = k

\* Kept leaves the order of what it keeps alone.
LEMMA KeptIs ==
    ASSUME NEW T, NEW p \in Seq(T), NEW K
    PROVE  Kept(p, K) \in Seq(T) /\ \E h : Embeds(h, Kept(p, K), p, K)
<1> DEFINE m == Len(p)
<1>1. m \in Nat /\ \A n \in 1..m : p[n] \in T
  BY LenProperties, ElementOfSeq
<1>0. PICK c : KeepsIn(c, T, p, K)
  BY KeptCourse
<1>2. /\ c \in [0..m -> Seq(T)]
      /\ c[0] = <<>>
      /\ \A n \in 1..m : c[n] = IF n \in K THEN Append(c[n - 1], p[n]) ELSE c[n - 1]
      /\ Kept(p, K) = c[m]
  BY <1>0 DEF KeepsIn
<1> DEFINE Until(h, n) ==
               /\ h \in [1..Len(c[n]) -> 1..n]
               /\ \A j \in 1..Len(c[n]) : h[j] \in K /\ c[n][j] = p[h[j]]
               /\ \A i, j \in 1..Len(c[n]) : i < j => h[i] < h[j]
               /\ \A k \in 1..n : k \in K => \E j \in 1..Len(c[n]) : h[j] = k
           S == {n \in Nat : \E h : Until(h, n)}
<1>3. 0 \in S
  <2>1. Len(c[0]) = 0
    BY <1>2
  <2>2. Until([j \in 1..0 |-> 0], 0)
    BY <2>1
  <2> QED BY <2>2
<1>4. ASSUME NEW n \in Nat, n < m, n \in S PROVE n + 1 \in S
  <2>1. n + 1 \in 1..m /\ n \in 0..m /\ n + 1 \in 0..m /\ (n + 1) - 1 = n
    BY <1>1, <1>4
  <2>2. c[n] \in Seq(T) /\ c[n + 1] = IF n + 1 \in K THEN Append(c[n], p[n + 1]) ELSE c[n]
    <3> HIDE DEF m
    <3> QED BY <1>2, <2>1
  <2>3. PICK h : Until(h, n)
    BY <1>4
  <2>4. CASE n + 1 \notin K
    <3>1. c[n + 1] = c[n]
      BY <2>2, <2>4
    <3>2. Until(h, n + 1)
      BY <2>3, <2>4, <3>1
    <3> QED BY <3>2
  <2>5. CASE n + 1 \in K
    <3> DEFINE l == Len(c[n])
               g == [j \in 1..(l + 1) |-> IF j = l + 1 THEN n + 1 ELSE h[j]]
    <3>1. l \in Nat
      BY <2>2, LenProperties
    <3>2. /\ Len(c[n + 1]) = l + 1
          /\ \A j \in 1..l : c[n + 1][j] = c[n][j]
          /\ c[n + 1][l + 1] = p[n + 1]
      <4>1. c[n + 1] = Append(c[n], p[n + 1]) /\ p[n + 1] \in T
        BY <2>2, <2>5, <2>1, <1>1
      <4> DEFINE cn == c[n]
                 e == p[n + 1]
      <4>2. cn \in Seq(T) /\ e \in T
        BY <4>1, <2>2
      <4> HIDE DEF cn, e
      <4>3. /\ Len(Append(cn, e)) = Len(cn) + 1
            /\ \A j \in 1..Len(cn) : Append(cn, e)[j] = cn[j]
            /\ Append(cn, e)[Len(cn) + 1] = e
        BY <4>2, AppendProperties
      <4> QED BY <4>1, <4>3 DEF cn, e
    <3>3. /\ h \in [1..l -> 1..n]
          /\ \A j \in 1..l : h[j] \in K /\ c[n][j] = p[h[j]]
          /\ \A i, j \in 1..l : i < j => h[i] < h[j]
          /\ \A k \in 1..n : k \in K => \E j \in 1..l : h[j] = k
      BY <2>3
    <3> HIDE DEF l
    <3>4. \A j \in 1..l : g[j] = h[j] /\ j # l + 1 /\ j \in 1..(l + 1)
      BY <3>1
    <3>5. g[l + 1] = n + 1
      BY <3>1
    <3>6. \A j \in 1..(l + 1) : j = l + 1 \/ j \in 1..l
      BY <3>1
    <3>7. g \in [1..(l + 1) -> 1..(n + 1)]
      BY <3>1, <3>3
    <3> HIDE DEF g
    <3>8. \A j \in 1..(l + 1) : g[j] \in K /\ c[n + 1][j] = p[g[j]]
      BY <3>2, <3>3, <3>4, <3>5, <3>6, <2>5
    <3>9. \A i, j \in 1..(l + 1) : i < j => g[i] < g[j]
      <4> TAKE i, j \in 1..(l + 1)
      <4> HAVE i < j
      <4>1. i \in 1..l /\ g[i] = h[i] /\ h[i] \in 1..n
        BY <3>1, <3>3, <3>4
      <4>2. CASE j = l + 1
        BY <4>1, <4>2, <3>5
      <4>3. CASE j \in 1..l
        BY <4>1, <4>3, <3>3, <3>4
      <4> QED BY <4>2, <4>3, <3>6
    <3>10. \A k \in 1..(n + 1) : k \in K => \E j \in 1..(l + 1) : g[j] = k
      <4> TAKE k \in 1..(n + 1)
      <4> HAVE k \in K
      <4>1. CASE k = n + 1
        <5>1. l + 1 \in 1..(l + 1)
          BY <3>1
        <5> QED BY <5>1, <4>1, <3>5
      <4>2. CASE k # n + 1
        <5>1. k \in 1..n
          BY <4>2
        <5> QED BY <5>1, <3>3, <3>4
      <4> QED BY <4>1, <4>2
    <3>11. Until(g, n + 1)
      BY <3>2, <3>7, <3>8, <3>9, <3>10
    <3> QED BY <3>11
  <2> QED BY <2>4, <2>5
<1>5. m \in S
  <2>1. \A n \in 0..m : n \in S
    <3> HIDE DEF S
    <3> QED BY <1>1, <1>3, <1>4, UpToSet
  <2>2. m \in 0..m
    BY <1>1
  <2> HIDE DEF S, m
  <2> QED BY <2>1, <2>2
<1>6. Kept(p, K) \in Seq(T)
  <2>1. m \in 0..m
    BY <1>1
  <2> HIDE DEF m
  <2> QED BY <2>1, <1>2
<1>7. PICK h : Until(h, m)
  BY <1>5
<1>8. Embeds(h, Kept(p, K), p, K)
  BY <1>2, <1>7 DEF Embeds
<1> QED
  BY <1>6, <1>8

\* A batch takes entries of the mempool, none twice, and with an entry all before it.
Draws(at, b, p) ==
    /\ at \in [DOMAIN b -> DOMAIN p]
    /\ \A n \in DOMAIN b : b[n] = p[at[n]].item
    /\ \A n, m \in DOMAIN b : at[n] = at[m] => n = m
    /\ \A n \in DOMAIN b, k \in DOMAIN p :
         Before(p, k, at[n]) => \E m \in DOMAIN b : at[m] = k

\* Before is a strict total order of the positions.
LEMMA BeforeOrders ==
    ASSUME NEW p \in Seq(Pending)
    PROVE  /\ \A k \in DOMAIN p : ~Before(p, k, k)
           /\ \A k, l, m \in DOMAIN p : Before(p, k, l) /\ Before(p, l, m) => Before(p, k, m)
           /\ \A k, m \in DOMAIN p : k # m => Before(p, k, m) \/ Before(p, m, k)
<1>1. DOMAIN p = 1..Len(p) /\ Len(p) \in Nat
  BY LenProperties
<1>2. \A k \in DOMAIN p : k \in Int /\ p[k].age \in Int
  <2>1. \A k \in 1..Len(p) : p[k] \in Pending
    BY ElementOfSeq
  <2> QED BY <1>1, <2>1 DEF Pending
<1> QED
  BY <1>2 DEF Before

\* Oldest takes the first by time stamp, as many as the limit allows.
LEMMA OldestIs ==
    ASSUME NEW p \in Seq(Pending)
    PROVE  Oldest(p) \in Seq(Item) /\ \E at : Draws(at, Oldest(p), p)
<1> DEFINE S == DOMAIN p
           R == {e \in S \X S : Before(p, e[1], e[2])}
           pl == [x \in S |-> Cardinality({y \in S : <<y, x>> \in R}) + 1]
           place(k) == Cardinality({m \in S : Before(p, m, k)}) + 1
           N == Len(p)
           at == [n \in 1..N |-> CHOOSE k \in S : place(k) = n]
           L == IF N <= MaxTxPerBlock THEN N ELSE MaxTxPerBlock
<1>1. S = 1..N /\ N \in Nat /\ \A k \in S : p[k] \in Pending
  BY LenProperties, ElementOfSeq
<1>2. IsFiniteSet(S) /\ Cardinality(S) = N
  BY <1>1, FS_Interval
<1>3. \A x, y \in S : <<x, y>> \in R <=> Before(p, x, y)
  OBVIOUS
<1>4. /\ pl \in [S -> 1..N]
      /\ \A x, y \in S : <<x, y>> \in R => pl[x] < pl[y]
      /\ \A x, y \in S : pl[x] = pl[y] => x = y
      /\ \A n \in 1..N : \E x \in S : pl[x] = n
  <2>1. Orders(R, S)
    <3> HIDE DEF R
    <3> QED BY <1>3, BeforeOrders DEF Orders
  <2>2. Numbers(pl, S, R)
    <3> HIDE DEF R, S
    <3> QED BY <1>2, <2>1, Places
  <2> HIDE DEF pl, R, S, N
  <2> QED BY <1>2, <2>2 DEF Numbers
<1>5. \A k \in S : place(k) = pl[k]
  <2> SUFFICES ASSUME NEW k \in S PROVE place(k) = pl[k]
    OBVIOUS
  <2>1. {m \in S : Before(p, m, k)} = {y \in S : <<y, k>> \in R}
    <3> HIDE DEF R
    <3> QED BY <1>3
  <2> QED BY <2>1
<1>6. \A n \in 1..N : at[n] \in S /\ place(at[n]) = n
  <2> SUFFICES ASSUME NEW n \in 1..N PROVE at[n] \in S /\ place(at[n]) = n
    OBVIOUS
  <2>1. \E k \in S : place(k) = n
    <3> HIDE DEF place, pl, S
    <3> QED BY <1>4, <1>5
  <2> HIDE DEF place
  <2> QED BY <2>1
<1>7. L \in Nat /\ L <= N /\ L <= MaxTxPerBlock /\ MaxTxPerBlock \in Nat
  BY <1>1, FeePoolAssumption
<1>8. {place(k) : k \in S} \intersect 1..MaxTxPerBlock = 1..L
  <2>1. {place(k) : k \in S} = 1..N
    <3> HIDE DEF place, pl, S
    <3> QED BY <1>4, <1>5
  <2> HIDE DEF place
  <2> QED BY <2>1, <1>1, <1>7
<1>9. Oldest(p) = [n \in 1..L |-> p[at[n]].item]
  <2>1. Oldest(p) = [n \in {place(k) : k \in S} \intersect 1..MaxTxPerBlock |->
                        p[CHOOSE k \in S : place(k) = n].item]
    BY DEF Oldest
  <2>2. \A n \in 1..L : n \in 1..N
    BY <1>1, <1>7
  <2> HIDE DEF place, L
  <2> QED BY <1>8, <2>1, <2>2
<1>10. \A n \in 1..L : n \in 1..N /\ at[n] \in S /\ p[at[n]].item \in Item
  <2>1. \A n \in 1..L : n \in 1..N
    BY <1>1, <1>7
  <2>2. \A k \in S : p[k].item \in Item
    BY <1>1 DEF Pending
  <2> HIDE DEF at, L, S
  <2> QED BY <2>1, <2>2, <1>6
<1>11. Oldest(p) \in Seq(Item)
  <2> DEFINE b == [n \in 1..L |-> p[at[n]].item]
  <2>1. b \in [1..L -> Item]
    <3> HIDE DEF at, L, S
    <3> QED BY <1>10
  <2>2. b \in Seq(Item)
    <3> HIDE DEF b, L
    <3> QED BY <2>1, <1>7
  <2> QED BY <2>2, <1>9
<1>12. DOMAIN Oldest(p) = 1..L
  <2> HIDE DEF at, L
  <2> QED BY <1>9
<1>13. ASSUME NEW n \in 1..L, NEW m \in 1..L, at[n] = at[m] PROVE n = m
  <2> HIDE DEF at, place
  <2> QED BY <1>6, <1>10, <1>13
<1>14. ASSUME NEW n \in 1..L, NEW k \in S, Before(p, k, at[n])
       PROVE  \E m \in 1..L : at[m] = k
  <2>1. pl[at[n]] = n /\ at[n] \in S
    <3> HIDE DEF at, place, pl
    <3> QED BY <1>5, <1>6, <1>10
  <2>2. pl[k] < n
    <3>1. <<k, at[n]>> \in R
      <4> HIDE DEF R, at
      <4> QED BY <1>3, <1>14, <2>1
    <3> HIDE DEF R, at, pl
    <3> QED BY <1>4, <2>1, <3>1
  <2> DEFINE m == pl[k]
  <2>3. m \in 1..N
    <3> HIDE DEF pl, S
    <3> QED BY <1>4
  <2>4. m \in 1..L
    <3>1. m < n
      BY <2>2
    <3> HIDE DEF m, L, N
    <3> QED BY <3>1, <1>1, <1>7, <2>3
  <2>5. at[m] \in S /\ pl[at[m]] = m
    <3> HIDE DEF at, place, pl, S
    <3> QED BY <1>5, <1>6, <2>3
  <2>6. at[m] = k
    <3> HIDE DEF at, pl, S
    <3> QED BY <1>4, <2>5
  <2> QED BY <2>4, <2>6
<1> DEFINE a == [n \in 1..L |-> at[n]]
<1>15. Draws(a, Oldest(p), p)
  <2>1. \A n \in 1..L : a[n] = at[n]
    OBVIOUS
  <2>2. a \in [1..L -> S]
    <3> HIDE DEF at, L, S
    <3> QED BY <1>10
  <2>3. \A n \in 1..L : Oldest(p)[n] = p[a[n]].item
    <3> HIDE DEF at, L
    <3> QED BY <1>9
  <2> HIDE DEF a, at, L
  <2> QED BY <1>12, <1>13, <1>14, <2>1, <2>2, <2>3 DEF Draws
<1> QED
  BY <1>11, <1>15

-----------------------------------------------------------------------------
(* Sums                                                                    *)

\* s has the sums of the values of f over each subset of D.
Sums(s, f, D) ==
    /\ s \in [SUBSET D -> Nat]
    /\ s[{}] = 0
    /\ \A U \in SUBSET D : \A x \in D \ U : s[U \union {x}] = s[U] + f[x]

\* SumOf sums the values of a function on a finite set, in whatever order.
LEMMA SumIs ==
    ASSUME NEW D, IsFiniteSet(D), NEW f \in [D -> Nat]
    PROVE  \E s : Sums(s, f, D) /\ SumOf(f) = s[D]
<1> DEFINE X == [SUBSET D -> Nat]
           N == Cardinality(D)
           pick(U) == CHOOSE x \in U : TRUE
           one(s) == [U \in SUBSET D |-> IF U = {} THEN 0 ELSE f[pick(U)] + s[U \ {pick(U)}]]
           step == [n \in 1..N |-> [s \in X |-> one(s)]]
           zero == [U \in SUBSET D |-> 0]
           Is(s) == s = [U \in SUBSET D |-> IF U = {} THEN 0
                                            ELSE LET x == CHOOSE x \in U : TRUE IN
                                                   f[x] + s[U \ {x}]]
<1>1. N \in Nat
  BY FS_CardinalityType
<1>2. ASSUME NEW U \in SUBSET D, U # {}
      PROVE  /\ pick(U) \in U /\ pick(U) \in D /\ f[pick(U)] \in Nat
             /\ U \ {pick(U)} \in SUBSET D
             /\ Cardinality(U) \in 1..N /\ Cardinality(U \ {pick(U)}) = Cardinality(U) - 1
  <2>1. pick(U) \in U
    BY <1>2
  <2> HIDE DEF pick, N
  <2>2. IsFiniteSet(U) /\ Cardinality(U) <= N
    BY FS_Subset DEF N
  <2>3. Cardinality(U) \in Nat /\ Cardinality(U) # 0
    BY <2>2, <1>2, FS_CardinalityType, FS_EmptySet
  <2>4. Cardinality(U \ {pick(U)}) = Cardinality(U) - 1
    BY <2>1, <2>2, FS_RemoveElement
  <2>5. pick(U) \in D
    BY <2>1
  <2> QED BY <2>1, <2>2, <2>3, <2>4, <2>5, <1>1
<1>3. ASSUME NEW s \in X PROVE one(s) \in X
  <2>1. \A U \in SUBSET D : U # {} => f[pick(U)] + s[U \ {pick(U)}] \in Nat
    <3> SUFFICES ASSUME NEW U \in SUBSET D, U # {}
                 PROVE  f[pick(U)] + s[U \ {pick(U)}] \in Nat
      OBVIOUS
    <3> DEFINE a == f[pick(U)]
               b == s[U \ {pick(U)}]
    <3>1. a \in Nat /\ b \in Nat
      <4> HIDE DEF pick
      <4> QED BY <1>2
    <3> HIDE DEF a, b
    <3>2. a + b \in Nat
      BY <3>1
    <3> QED BY <3>2 DEF a, b
  <2> HIDE DEF pick
  <2> QED BY <2>1
<1>4. step \in [1..N -> [X -> X]] /\ zero \in X
  <2>1. zero \in X
    OBVIOUS
  <2> HIDE DEF one, X, N, zero
  <2> QED BY <1>3, <2>1
<1>5. PICK g : IsCourse(g, X, zero, N, step)
  <2> HIDE DEF X, zero, N, step
  <2> QED BY <1>1, <1>4, CourseExists
<1>6. /\ g \in [0..N -> X] /\ g[0] = zero
      /\ \A n \in 1..N : g[n - 1] \in X /\ g[n] = one(g[n - 1])
  <2>1. g \in [0..N -> X] /\ g[0] = zero /\ \A n \in 1..N : g[n] = step[n][g[n - 1]]
    <3> HIDE DEF X, zero, N, step
    <3> QED BY <1>5 DEF IsCourse
  <2>2. \A n \in 1..N : n - 1 \in 0..N
    BY <1>1
  <2>3. \A n \in 1..N : g[n - 1] \in X
    <3> HIDE DEF X, zero, N, step
    <3> QED BY <2>1, <2>2
  <2>4. \A n \in 1..N, s \in X : step[n][s] = one(s)
    <3> HIDE DEF X, one, N
    <3> QED OBVIOUS
  <2> HIDE DEF X, zero, N, step, one
  <2> QED BY <2>1, <2>3, <2>4
<1> DEFINE F == [U \in SUBSET D |-> g[Cardinality(U)][U]]
<1>7. Is(F)
  <2>1. ASSUME NEW U \in SUBSET D
        PROVE  F[U] = IF U = {} THEN 0 ELSE f[pick(U)] + F[U \ {pick(U)}]
    <3>1. CASE U = {}
      <4>1. F[U] = g[0][U]
        BY <3>1, FS_EmptySet
      <4>2. g[0][U] = 0
        BY <1>6
      <4> QED BY <3>1, <4>1, <4>2
    <3>2. CASE U # {}
      <4> DEFINE V == U \ {pick(U)}
                 c == Cardinality(U)
      <4>1. c \in 1..N /\ V \in SUBSET D /\ Cardinality(V) = c - 1
        <5> HIDE DEF pick, N
        <5> QED BY <1>2, <3>2
      <4>2. g[c] = one(g[c - 1])
        <5> HIDE DEF one, N, c, X
        <5> QED BY <1>6, <4>1
      <4>3. one(g[c - 1])[U] = f[pick(U)] + g[c - 1][V]
        <5> HIDE DEF pick
        <5> QED BY <3>2
      <4>4. F[V] = g[c - 1][V]
        <5> HIDE DEF V, c
        <5> QED BY <4>1
      <4>5. F[U] = g[c][U]
        OBVIOUS
      <4> HIDE DEF one, F, V, c, pick
      <4> QED BY <3>2, <4>2, <4>3, <4>4, <4>5 DEF V
    <3> QED BY <3>1, <3>2
  <2>2. F = [U \in SUBSET D |-> F[U]]
    OBVIOUS
  <2> HIDE DEF F
  <2> QED BY <2>1, <2>2
<1> DEFINE s == CHOOSE x : Is(x)
<1>8. Is(s)
  <2> HIDE DEF Is, F
  <2> QED BY <1>7
<1>9. SumOf(f) = s[D]
  <2>1. DOMAIN f = D
    OBVIOUS
  <2> QED BY <2>1 DEF SumOf
<1>10. ASSUME NEW U \in SUBSET D, U # {} PROVE s[U] = f[pick(U)] + s[U \ {pick(U)}]
  <2> HIDE DEF s
  <2> QED BY <1>8, <1>10
<1>11. s[{}] = 0
  <2> HIDE DEF s
  <2> QED BY <1>8
<1>12. \A U \in SUBSET D : s[U] \in Nat
  <2> HIDE DEF s
  <2> DEFINE S == {n \in Nat : \A U \in SUBSET D : Cardinality(U) = n => s[U] \in Nat}
  <2>1. 0 \in S
    <3>1. \A U \in SUBSET D : Cardinality(U) = 0 => U = {}
      BY FS_Subset, FS_EmptySet
    <3> QED BY <3>1, <1>11
  <2>2. ASSUME NEW n \in Nat, n \in S PROVE n + 1 \in S
    <3> SUFFICES ASSUME NEW U \in SUBSET D, Cardinality(U) = n + 1 PROVE s[U] \in Nat
      OBVIOUS
    <3>1. U # {}
      BY FS_EmptySet
    <3> DEFINE V == U \ {pick(U)}
    <3>2. V \in SUBSET D /\ Cardinality(V) = n /\ f[pick(U)] \in Nat
      <4> HIDE DEF pick
      <4> QED BY <1>2, <3>1
    <3>3. s[V] \in Nat
      <4> HIDE DEF V
      <4> QED BY <2>2, <3>2
    <3>4. s[U] = f[pick(U)] + s[V]
      <4> HIDE DEF pick
      <4> QED BY <1>10, <3>1
    <3> HIDE DEF V, pick
    <3> QED BY <3>2, <3>3, <3>4
  <2>3. \A n \in Nat : n \in S
    <3> HIDE DEF S
    <3> QED BY <2>1, <2>2, NatSet
  <2> TAKE U \in SUBSET D
  <2>4. Cardinality(U) \in Nat
    BY FS_Subset, FS_CardinalityType
  <2> QED BY <2>3, <2>4
<1>13. s \in X
  <2>1. s = [U \in SUBSET D |-> s[U]]
    <3> HIDE DEF s
    <3> QED BY <1>8
  <2> HIDE DEF s
  <2> QED BY <2>1, <1>12
<1>14. \A U \in SUBSET D : \A x \in D \ U : s[U \union {x}] = s[U] + f[x]
  <2> HIDE DEF s
  <2> DEFINE S == {n \in Nat : \A U \in SUBSET D : Cardinality(U) = n =>
                                 \A x \in D \ U : s[U \union {x}] = s[U] + f[x]}
  <2>1. ASSUME NEW U \in SUBSET D, NEW x \in D \ U, pick(U \union {x}) = x
        PROVE  s[U \union {x}] = s[U] + f[x]
    <3>1. U \union {x} \in SUBSET D /\ U \union {x} # {} /\ (U \union {x}) \ {x} = U
      OBVIOUS
    <3>2. s[U \union {x}] = f[x] + s[U]
      <4> HIDE DEF pick
      <4> QED BY <1>10, <2>1, <3>1
    <3>3. f[x] \in Nat /\ s[U] \in Nat
      BY <1>12
    <3> QED BY <3>2, <3>3
  <2>2. 0 \in S
    <3> SUFFICES ASSUME NEW U \in SUBSET D, Cardinality(U) = 0, NEW x \in D \ U
                 PROVE  s[U \union {x}] = s[U] + f[x]
      OBVIOUS
    <3>1. U = {}
      BY FS_Subset, FS_EmptySet
    <3>2. pick(U \union {x}) = x
      BY <3>1
    <3> HIDE DEF pick
    <3> QED BY <2>1, <3>2
  <2>3. ASSUME NEW n \in Nat, n \in S PROVE n + 1 \in S
    <3> SUFFICES ASSUME NEW U \in SUBSET D, Cardinality(U) = n + 1, NEW x \in D \ U
                 PROVE  s[U \union {x}] = s[U] + f[x]
      OBVIOUS
    <3> DEFINE W == U \union {x}
               y == pick(W)
               V == U \ {y}
    <3>1. CASE y = x
      <4> HIDE DEF pick
      <4> QED BY <2>1, <3>1
    <3>2. CASE y # x
      <4>1. W \in SUBSET D /\ W # {}
        OBVIOUS
      <4>2. y \in W
        <5> HIDE DEF W
        <5> QED BY <4>1
      <4>3. s[W] = f[y] + s[W \ {y}]
        <5> HIDE DEF W, pick
        <5> QED BY <4>1, <1>10
      <4> HIDE DEF y
      <4>4. /\ y \in U /\ y \in D \ V /\ x \in D \ V /\ V \in SUBSET D
            /\ W \ {y} = V \union {x} /\ V \union {y} = U
        BY <3>2, <4>2
      <4>5. Cardinality(V) = n
        <5>1. IsFiniteSet(U)
          BY FS_Subset
        <5>2. Cardinality(U \ {y}) = Cardinality(U) - 1
          BY <5>1, <4>4, FS_RemoveElement
        <5> QED BY <5>2
      <4> HIDE DEF V, W
      <4>6. s[V \union {x}] = s[V] + f[x] /\ s[V \union {y}] = s[V] + f[y]
        BY <2>3, <4>4, <4>5
      <4>7. f[x] \in Nat /\ f[y] \in Nat /\ s[V] \in Nat
        BY <1>12, <4>4
      <4>8. s[W] = s[U] + f[x]
        BY <4>3, <4>4, <4>6, <4>7
      <4> QED BY <4>8 DEF W
    <3> QED BY <3>1, <3>2
  <2>4. \A n \in Nat : n \in S
    <3> HIDE DEF S
    <3> QED BY <2>2, <2>3, NatSet
  <2> TAKE U \in SUBSET D
  <2>5. Cardinality(U) \in Nat
    BY FS_Subset, FS_CardinalityType
  <2> HIDE DEF pick
  <2> QED BY <2>4, <2>5
<1> QED
  <2> HIDE DEF s
  <2> QED BY <1>9, <1>11, <1>13, <1>14 DEF Sums

On(f, V) == [x \in V |-> f[x]]

\* The sum over a part of the domain is the sum of that part.
LEMMA SumsOn ==
    ASSUME NEW D, IsFiniteSet(D), NEW f \in [D -> Nat]
    PROVE  \E s : Sums(s, f, D) /\ \A V \in SUBSET D : SumOf(On(f, V)) = s[V]
<1>1. PICK s : Sums(s, f, D)
  BY SumIs
<1>2. ASSUME NEW V \in SUBSET D PROVE SumOf(On(f, V)) = s[V]
  <2>1. IsFiniteSet(V) /\ On(f, V) \in [V -> Nat]
    BY FS_Subset DEF On
  <2>2. PICK r : Sums(r, On(f, V), V) /\ SumOf(On(f, V)) = r[V]
    BY <2>1, SumIs
  <2> DEFINE F == {U \in SUBSET V : r[U] = s[U]}
  <2>3. {} \in F
    BY <1>1, <2>2 DEF Sums
  <2>4. ASSUME NEW U \in SUBSET V, U \in F, NEW x \in V \ U PROVE U \union {x} \in F
    <3>1. r[U \union {x}] = r[U] + On(f, V)[x]
      BY <2>2 DEF Sums
    <3>2. s[U \union {x}] = s[U] + f[x]
      BY <1>1 DEF Sums
    <3>3. On(f, V)[x] = f[x]
      BY DEF On
    <3> QED BY <2>4, <3>1, <3>2, <3>3
  <2>5. V \in F
    <3> HIDE DEF F
    <3> QED BY <2>1, <2>3, <2>4, FinSet
  <2> QED BY <2>2, <2>5
<1> QED
  BY <1>1, <1>2

\* The sum over two parts is the sum over the one and over the other.
AddsUp(f, V, W) ==
    /\ SumOf(On(f, V)) \in Nat /\ SumOf(On(f, W)) \in Nat
    /\ SumOf(On(f, V \union W)) = SumOf(On(f, V)) + SumOf(On(f, W))

\* Disjoint parts add up.
LEMMA SumSplit ==
    ASSUME NEW D, IsFiniteSet(D), NEW f \in [D -> Nat],
           NEW V \in SUBSET D, NEW W \in SUBSET D, V \intersect W = {}
    PROVE  AddsUp(f, V, W)
<1>1. PICK s : Sums(s, f, D) /\ \A U \in SUBSET D : SumOf(On(f, U)) = s[U]
  BY SumsOn
<1>2. \A U \in SUBSET D : s[U] \in Nat
  BY <1>1 DEF Sums
<1> DEFINE F == {U \in SUBSET W : s[V \union U] = s[V] + s[U]}
<1>3. {} \in F
  <2>1. s[{}] = 0 /\ V \union {} = V
    BY <1>1 DEF Sums
  <2> QED BY <2>1, <1>2
<1>4. ASSUME NEW U \in SUBSET W, U \in F, NEW x \in W \ U PROVE U \union {x} \in F
  <2>1. s[V \union U] = s[V] + s[U]
    BY <1>4
  <2>2. /\ V \union U \in SUBSET D /\ x \in D \ (V \union U) /\ x \in D \ U /\ U \in SUBSET D
        /\ V \union (U \union {x}) = (V \union U) \union {x}
    OBVIOUS
  <2>3. s[(V \union U) \union {x}] = s[V \union U] + f[x] /\ s[U \union {x}] = s[U] + f[x]
    BY <1>1, <2>2 DEF Sums
  <2>4. s[V] \in Nat /\ s[U] \in Nat /\ f[x] \in Nat
    BY <1>2, <2>2
  <2>5. s[V \union (U \union {x})] = s[V \union U] + f[x]
    BY <2>2, <2>3
  <2>6. s[V \union (U \union {x})] = s[V] + s[U \union {x}]
    <3> DEFINE a == s[V]
               b == s[U]
               c == f[x]
    <3>1. a \in Nat /\ b \in Nat /\ c \in Nat
      BY <2>4
    <3>2. s[V \union (U \union {x})] = (a + b) + c /\ s[U \union {x}] = b + c
      BY <2>1, <2>3, <2>5
    <3> HIDE DEF a, b, c
    <3>3. (a + b) + c = a + (b + c)
      BY <3>1
    <3>4. s[V \union (U \union {x})] = a + s[U \union {x}]
      BY <3>2, <3>3
    <3> QED BY <3>4 DEF a
  <2> QED BY <2>6
<1>5. W \in F
  <2> HIDE DEF F
  <2>1. IsFiniteSet(W)
    BY FS_Subset
  <2> QED BY <2>1, <1>3, <1>4, FinSet
<1>6. V \union W \in SUBSET D
  OBVIOUS
<1> QED
  BY <1>1, <1>2, <1>5, <1>6 DEF AddsUp

\* The sum of no values, and of one.
LEMMA SumSmall ==
    ASSUME NEW D, IsFiniteSet(D), NEW f \in [D -> Nat]
    PROVE  /\ SumOf(On(f, {})) = 0
           /\ \A x \in D : SumOf(On(f, {x})) = f[x]
<1>1. PICK s : Sums(s, f, D) /\ \A U \in SUBSET D : SumOf(On(f, U)) = s[U]
  BY SumsOn
<1>2. s[{}] = 0 /\ \A x \in D : s[{} \union {x}] = s[{}] + f[x]
  BY <1>1 DEF Sums
<1>3. \A x \in D : {x} \in SUBSET D /\ {} \union {x} = {x} /\ f[x] \in Nat
  OBVIOUS
<1>4. SumOf(On(f, {})) = 0
  BY <1>1, <1>2
<1> QED
  BY <1>1, <1>2, <1>3, <1>4

\* A function with one more value.
LEMMA SumMore ==
    ASSUME NEW D, IsFiniteSet(D), NEW f \in [D -> Nat], NEW V \in SUBSET D, NEW x \in D \ V
    PROVE  /\ SumOf(On(f, V)) \in Nat
           /\ SumOf(On(f, V \union {x})) = SumOf(On(f, V)) + f[x]
<1>1. {x} \in SUBSET D /\ V \intersect {x} = {}
  OBVIOUS
<1>2. SumOf(On(f, {x})) = f[x]
  BY SumSmall
<1>3. AddsUp(f, V, {x})
  BY <1>1, SumSplit
<1> QED
  BY <1>2, <1>3 DEF AddsUp

\* The larger the part the larger the sum.
LEMMA SumLess ==
    ASSUME NEW D, IsFiniteSet(D), NEW f \in [D -> Nat],
           NEW V \in SUBSET D, NEW W \in SUBSET D, V \subseteq W
    PROVE  SumOf(On(f, V)) <= SumOf(On(f, W))
<1>1. W \ V \in SUBSET D /\ V \intersect (W \ V) = {} /\ V \union (W \ V) = W
  OBVIOUS
<1>2. AddsUp(f, V, W \ V)
  BY <1>1, SumSplit
<1>3. /\ SumOf(On(f, V)) \in Nat /\ SumOf(On(f, W \ V)) \in Nat
      /\ SumOf(On(f, W)) = SumOf(On(f, V)) + SumOf(On(f, W \ V))
  BY <1>1, <1>2 DEF AddsUp
<1> DEFINE a == SumOf(On(f, V))
           b == SumOf(On(f, W \ V))
<1> HIDE DEF a, b
<1>4. a \in Nat /\ b \in Nat => a <= a + b
  OBVIOUS
<1> QED
  BY <1>3, <1>4 DEF a, b

\* Changing one value changes the sum by the difference.
LEMMA SumExcept ==
    ASSUME NEW D, IsFiniteSet(D), NEW f \in [D -> Nat], NEW x \in D, NEW v \in Nat
    PROVE  /\ SumOf(f) \in Nat
           /\ SumOf([f EXCEPT ![x] = v]) = SumOf(f) - f[x] + v
           /\ f[x] <= SumOf(f)
<1> DEFINE g == [f EXCEPT ![x] = v]
           V == D \ {x}
<1>1. g \in [D -> Nat] /\ g[x] = v /\ V \in SUBSET D /\ V \union {x} = D /\ x \in D \ V
  OBVIOUS
<1>2. On(f, D) = f /\ On(g, D) = g /\ On(g, V) = On(f, V)
  BY DEF On
<1> HIDE DEF g, V
<1>3. SumOf(On(f, V)) \in Nat /\ SumOf(On(f, V \union {x})) = SumOf(On(f, V)) + f[x]
  BY <1>1, SumMore
<1>4. SumOf(On(g, V \union {x})) = SumOf(On(g, V)) + g[x]
  BY <1>1, SumMore
<1>5. f[x] \in Nat
  OBVIOUS
<1>6. SumOf(f) = SumOf(On(f, V)) + f[x] /\ SumOf(g) = SumOf(On(f, V)) + v
  BY <1>1, <1>2, <1>3, <1>4
<1> QED
  BY <1>3, <1>5, <1>6 DEF g

-----------------------------------------------------------------------------
(* Transactions, fees and balances                                         *)

Books == [Account -> Nat]

\* A shape has a type, two wallets and an amount.
LEMMA ShapeType ==
    ASSUME NEW t \in Tx
    PROVE  /\ Shape[t].type \in {"authority", "cv_link", "standard"}
           /\ Shape[t].from \in Account /\ Shape[t].to \in Account /\ Shape[t].amount \in Nat
<1>1. Shape[t] \in [type: Type, from: Account, to: Account, amount: Nat]
  BY FeePoolAssumption
<1> QED
  BY <1>1 DEF Type

\* A fee is for a transaction of the same request.
LEMMA ItemType ==
    ASSUME NEW i \in Item
    PROVE  /\ i.kind \in {"tx", "authority", "node"} /\ i.for \in Tx /\ i.post \in 1..MaxPosts
           /\ i = [kind |-> i.kind, for |-> i.for, post |-> i.post]
BY DEF Item, Part

\* The total is even: each fee is half of it.
LEMMA FeeHalves ==
    ASSUME NEW t \in Tx
    PROVE  /\ FeeTotal(t) \in Nat /\ FeeTotal(t) \div 2 \in Nat
           /\ FeeTotal(t) = 0 \/ FeeTotal(t) \div 2 > 0
           /\ FeeTotal(t) = 0 <=> Shape[t].type = "authority"
<1>1. CASE Shape[t].type = "authority"
  <2>1. FeeTotal(t) = 0
    BY <1>1 DEF FeeTotal
  <2> QED BY <1>1, <2>1
<1>2. CASE Shape[t].type = "cv_link"
  <2>1. FeeTotal(t) = 10
    BY <1>2 DEF FeeTotal
  <2> QED BY <1>2, <2>1
<1>3. CASE Shape[t].type = "standard"
  <2>1. FeeTotal(t) = 2
    BY <1>3 DEF FeeTotal
  <2> QED BY <1>3, <2>1
<1> QED
  BY <1>1, <1>2, <1>3, ShapeType

\* Who pays an item, who gets it, and how much.
LEMMA ItemMoves ==
    ASSUME NEW i \in Item
    PROVE  Amount(i) \in Nat /\ Due(i) \in Nat /\ Sender(i) \in Account /\ Receiver(i) \in Account
<1>1. Amount(i) \in Nat
  BY ItemType, ShapeType, FeeHalves DEF Amount
<1>2. Sender(i) \in Account
  BY ItemType, ShapeType DEF Sender
<1>3. Receiver(i) \in Account
  <2>1. CASE i.kind = "tx"
    BY <2>1, ItemType, ShapeType DEF Receiver
  <2>2. CASE i.kind = "authority"
    BY <2>2, FeePoolAssumption DEF Receiver
  <2>3. CASE i.kind = "node"
    BY <2>3, FeePoolAssumption DEF Receiver
  <2> QED BY <2>1, <2>2, <2>3, ItemType
<1> QED
  BY <1>1, <1>2, <1>3 DEF Due

\* A balance is never below zero.
LEMMA ApplyType ==
    ASSUME NEW b \in Books, NEW i \in Item
    PROVE  Debit(b, i) \in Books /\ Apply(b, i) \in Books
<1>1. Debit(b, i) \in Books
  BY ItemMoves DEF Books, Debit, Clamped
<1>2. [Debit(b, i) EXCEPT ![Receiver(i)] = @ + Amount(i)] \in Books
  <2> DEFINE d == Debit(b, i)
             r == Receiver(i)
  <2>1. d \in Books /\ r \in Account /\ Amount(i) \in Nat
    BY <1>1, ItemMoves
  <2> HIDE DEF d, r
  <2>2. [d EXCEPT ![r] = @ + Amount(i)] \in Books
    BY <2>1 DEF Books
  <2> QED BY <2>2 DEF d, r
<1> QED
  BY <1>1, <1>2 DEF Apply

\* The balances after each item of a block.
SettlesIn(c, b, items) ==
    /\ c \in [0..Len(items) -> Books]
    /\ c[0] = b
    /\ \A n \in 1..Len(items) : c[n] = Apply(c[n - 1], items[n])
    /\ Settled(b, items) = c[Len(items)]

\* Settled is what the loop over the block leaves.
LEMMA SettledCourse ==
    ASSUME NEW b \in Books, NEW items \in Seq(Item)
    PROVE  \E c : SettlesIn(c, b, items)
<1> DEFINE m == Len(items)
           step == [n \in 1..m |-> [x \in Books |-> Apply(x, items[n])]]
           Is(c) == c = [n \in 0..m |-> IF n = 0 THEN b ELSE Apply(c[n - 1], items[n])]
<1>1. m \in Nat /\ \A n \in 1..m : items[n] \in Item
  BY LenProperties, ElementOfSeq
<1>2. step \in [1..m -> [Books -> Books]]
  BY <1>1, ApplyType
<1>3. PICK g : IsCourse(g, Books, b, m, step)
  <2> HIDE DEF step, m
  <2> QED BY <1>1, <1>2, CourseExists
<1>4. g \in [0..m -> Books] /\ g[0] = b
  BY <1>3 DEF IsCourse
<1>5. ASSUME NEW n \in 1..m PROVE g[n] = Apply(g[n - 1], items[n])
  <2>1. g[n] = step[n][g[n - 1]]
    <3> HIDE DEF step, m
    <3> QED BY <1>3 DEF IsCourse
  <2>2. n - 1 \in 0..m
    BY <1>1
  <2>3. g[n - 1] \in Books
    <3> HIDE DEF m
    <3> QED BY <1>4, <2>2
  <2>4. step[n] = [x \in Books |-> Apply(x, items[n])]
    OBVIOUS
  <2> QED BY <2>1, <2>3, <2>4
<1>6. Is(g)
  <2>1. g = [n \in 0..m |-> g[n]]
    BY <1>4
  <2>2. ASSUME NEW n \in 0..m
        PROVE  g[n] = IF n = 0 THEN b ELSE Apply(g[n - 1], items[n])
    <3>1. n # 0 => n \in 1..m
      BY <1>1
    <3> HIDE DEF m, step
    <3> QED BY <3>1, <1>4, <1>5
  <2> HIDE DEF m, step
  <2> QED BY <2>1, <2>2
<1> DEFINE c == CHOOSE x : Is(x)
<1>7. Is(c)
  <2> HIDE DEF Is
  <2> QED BY <1>6
<1>8. Settled(b, items) = c[m]
  BY DEF Settled
<1> HIDE DEF c
<1>9. c[0] = b
  BY <1>1, <1>7
<1>10. ASSUME NEW n \in 1..m PROVE c[n] = Apply(c[n - 1], items[n])
  <2>1. n \in 0..m /\ n # 0
    BY <1>1
  <2> QED BY <2>1, <1>7
<1> DEFINE S == {n \in Nat : c[n] \in Books}
<1>11. \A n \in 0..m : n \in S
  <2>1. 0 \in S
    BY <1>9
  <2>2. ASSUME NEW n \in Nat, n < m, n \in S PROVE n + 1 \in S
    <3>1. n + 1 \in 1..m /\ (n + 1) - 1 = n
      BY <1>1, <2>2
    <3>2. c[n + 1] = Apply(c[n], items[n + 1]) /\ c[n] \in Books /\ items[n + 1] \in Item
      BY <1>1, <1>10, <2>2, <3>1
    <3>3. c[n + 1] \in Books
      BY <3>2, ApplyType
    <3> QED BY <3>3
  <2> HIDE DEF S
  <2> QED BY <1>1, <2>1, <2>2, UpToSet
<1>12. c \in [0..m -> Books]
  <2>1. c = [n \in 0..m |-> c[n]]
    BY <1>7
  <2> HIDE DEF m
  <2> QED BY <2>1, <1>11
<1> QED
  BY <1>8, <1>9, <1>10, <1>12 DEF SettlesIn

\* A block leaves natural balances.
LEMMA SettledType ==
    ASSUME NEW b \in Books, NEW items \in Seq(Item)
    PROVE  Settled(b, items) \in Books
<1>1. PICK c : SettlesIn(c, b, items)
  BY SettledCourse
<1>2. Len(items) \in 0..Len(items)
  BY LenProperties
<1> QED
  BY <1>1, <1>2 DEF SettlesIn

\* The two fees of a transaction that costs something.
LEMMA FeesAre ==
    ASSUME NEW t \in Tx, NEW p
    PROVE  /\ IsFiniteSet(Fees(t, p))
           /\ Cardinality(Fees(t, p)) = IF FeeTotal(t) = 0 THEN 0 ELSE 2
           /\ \A f : f \in Fees(t, p) <=>
                /\ FeeTotal(t) # 0
                /\ \/ f = [kind |-> "authority", for |-> t, post |-> p]
                   \/ f = [kind |-> "node", for |-> t, post |-> p]
<1> DEFINE A == [kind |-> "authority", for |-> t, post |-> p]
           B == [kind |-> "node", for |-> t, post |-> p]
<1>1. CASE FeeTotal(t) = 0
  <2>1. Fees(t, p) = {}
    BY <1>1 DEF Fees
  <2> QED BY <1>1, <2>1, FS_EmptySet
<1>2. CASE FeeTotal(t) # 0
  <2>1. Fees(t, p) = {A, B}
    <3>1. Fees(t, p) = [kind: {"authority", "node"}, for: {t}, post: {p}]
      BY <1>2 DEF Fees, Part
    <3>2. A \in Fees(t, p) /\ B \in Fees(t, p)
      BY <3>1
    <3>3. ASSUME NEW f \in Fees(t, p) PROVE f = A \/ f = B
      <4>1. /\ f = [kind |-> f.kind, for |-> f.for, post |-> f.post]
            /\ f.for = t /\ f.post = p /\ f.kind \in {"authority", "node"}
        BY <3>1
      <4> QED BY <4>1
    <3> HIDE DEF A, B
    <3> QED BY <3>2, <3>3
  <2>2. A # B
    OBVIOUS
  <2> HIDE DEF A, B
  <2>3. IsFiniteSet({A}) /\ Cardinality({A}) = 1 /\ B \notin {A} /\ {A} \union {B} = {A, B}
    BY <2>2, FS_Singleton
  <2>4. IsFiniteSet({A, B}) /\ Cardinality({A, B}) = 2
    BY <2>3, FS_AddElement
  <2>5. \A f : f \in Fees(t, p) <=> f = A \/ f = B
    BY <2>1
  <2> QED BY <1>2, <2>1, <2>4, <2>5 DEF A, B
<1> QED
  BY <1>1, <1>2

\* What the items of a sequence of entries are.
LEMMA ItemsAre ==
    ASSUME NEW p \in Seq(Pending)
    PROVE  /\ DOMAIN p = 1..Len(p) /\ Len(p) \in Nat
           /\ \A k \in DOMAIN p : p[k] \in Pending /\ p[k].item \in Item /\ p[k].age \in Int
           /\ Items(p) \subseteq Item /\ IsFiniteSet(Items(p))
<1>1. DOMAIN p = 1..Len(p) /\ Len(p) \in Nat /\ \A k \in 1..Len(p) : p[k] \in Pending
  BY LenProperties, ElementOfSeq
<1>2. \A k \in DOMAIN p : p[k] \in Pending /\ p[k].item \in Item /\ p[k].age \in Int
  BY <1>1 DEF Pending
<1>3. Items(p) \subseteq Item
  BY <1>2 DEF Items
<1>4. IsFiniteSet(Items(p))
  <2>1. IsFiniteSet(DOMAIN p)
    BY <1>1, FS_Interval
  <2> DEFINE f == [k \in DOMAIN p |-> p[k].item]
  <2>2. f \in Surjection(DOMAIN p, Items(p))
    BY DEF Surjection, Items
  <2> QED BY <2>1, <2>2, FS_Surjection
<1> QED
  BY <1>1, <1>2, <1>3, <1>4

\* So are those of a batch.
LEMMA BatchIs ==
    ASSUME NEW b \in Seq(Item)
    PROVE  /\ DOMAIN b = 1..Len(b) /\ Len(b) \in Nat
           /\ \A k \in DOMAIN b : b[k] \in Item
           /\ ToSet(b) = {b[k] : k \in DOMAIN b}
           /\ ToSet(b) \subseteq Item /\ IsFiniteSet(ToSet(b))
<1>1. DOMAIN b = 1..Len(b) /\ Len(b) \in Nat /\ \A k \in 1..Len(b) : b[k] \in Item
  BY LenProperties, ElementOfSeq
<1>2. ToSet(b) = {b[k] : k \in DOMAIN b}
  BY DEF ToSet
<1>3. ToSet(b) \subseteq Item
  BY <1>1, <1>2
<1>4. IsFiniteSet(ToSet(b))
  <2>1. IsFiniteSet(DOMAIN b)
    BY <1>1, FS_Interval
  <2> DEFINE f == [k \in DOMAIN b |-> b[k]]
  <2>2. f \in Surjection(DOMAIN b, ToSet(b))
    BY <1>2 DEF Surjection
  <2> QED BY <2>1, <2>2, FS_Surjection
<1> QED
  BY <1>1, <1>2, <1>3, <1>4

\* Stored are the items of the blocks.
LEMMA StoredIs ==
    ASSUME TypeOK
    PROVE  Stored \subseteq Item /\ IsFiniteSet(Stored)
<1>1. DOMAIN chain = 1..Len(chain) /\ Len(chain) \in Nat
      /\ \A k \in 1..Len(chain) : chain[k] \in Seq(Item)
  BY LenProperties, ElementOfSeq DEF TypeOK
<1>2. \A k \in DOMAIN chain : ToSet(chain[k]) \subseteq Item /\ IsFiniteSet(ToSet(chain[k]))
  BY <1>1, BatchIs
<1>3. Stored \subseteq Item
  BY <1>2 DEF Stored
<1>4. IsFiniteSet(Stored)
  <2> DEFINE S == {ToSet(chain[k]) : k \in DOMAIN chain}
             f == [k \in DOMAIN chain |-> ToSet(chain[k])]
  <2>1. IsFiniteSet(DOMAIN chain)
    BY <1>1, FS_Interval
  <2>2. f \in Surjection(DOMAIN chain, S)
    BY DEF Surjection
  <2>3. IsFiniteSet(S)
    <3> HIDE DEF f, S
    <3> QED BY <2>1, <2>2, FS_Surjection
  <2>4. \A T \in S : IsFiniteSet(T)
    BY <1>2
  <2>5. IsFiniteSet(UNION S)
    <3> HIDE DEF S
    <3> QED BY <2>3, <2>4, FS_UNION
  <2> QED BY <2>5 DEF Stored
<1> QED
  BY <1>3, <1>4

-----------------------------------------------------------------------------
(* Types                                                                   *)

\* What a request asks for is an item.
LEMMA AskedIs ==
    ASSUME TypeOK, NEW t \in Tx, Request(t)
    PROVE  /\ [kind |-> "tx", for |-> t, post |-> posts + 1] \in Item
           /\ posts' = posts + 1 /\ posts' \in 0..MaxPosts /\ posts \in Nat
<1>1. posts + 1 \in 1..MaxPosts /\ posts' = posts + 1 /\ posts \in Nat
  BY FeePoolAssumption DEF TypeOK, Request
<1> QED
  BY <1>1 DEF Item

\* What adding a transaction leaves.
LEMMA AddType ==
    ASSUME TypeOK, NEW i \in checked, Add(i)
    PROVE  /\ i \in Item /\ i.for \in Tx /\ i.kind = "tx" /\ stamp[i.for] \in Int
           /\ pool' \in Seq(Pending) /\ owed' \subseteq Item
           /\ overdrawn' \in BOOLEAN /\ overtaken' \subseteq Tx /\ ahead' \subseteq Tx
<1> DEFINE e == [item |-> i, age |-> stamp[i.for]]
<1>0. i \in Item /\ i.kind = "tx" /\ stamp[i.for] # NotMade
  BY DEF TypeOK, Posted
<1>1. i.for \in Tx /\ i.post \in 1..MaxPosts
  BY <1>0, ItemType
<1>2. (pool' = pool \/ pool' = Append(pool, e)) /\ stamp[i.for] \in Int
  BY <1>0, <1>1 DEF Add, TypeOK
<1>3. pool' \in Seq(Pending)
  <2>1. CASE pool' = pool
    BY <2>1 DEF TypeOK
  <2>2. CASE pool' = Append(pool, e)
    <3>1. e \in Pending
      BY <1>0, <1>2 DEF Pending
    <3> HIDE DEF e
    <3> QED BY <2>2, <3>1, AppendProperties DEF TypeOK
  <2> QED BY <1>2, <2>1, <2>2
<1>4. owed' \subseteq Item
  <2>1. Fees(i.for, i.post) \subseteq Item
    BY <1>1 DEF Fees, Item
  <2> QED BY <2>1 DEF TypeOK, Add
<1>5. overdrawn' \in BOOLEAN
  BY DEF Add
<1>6. overtaken' \subseteq Tx /\ ahead' \subseteq Tx
  BY <1>1 DEF Add, TypeOK
<1> QED
  BY <1>0, <1>1, <1>2, <1>3, <1>4, <1>5, <1>6

\* A transaction that has been made stays made, and requests carry such.
LEMMA PostedType ==
    ASSUME TypeOK, \A t \in Tx : stamp[t] # NotMade => stamp'[t] # NotMade,
           covered' \subseteq covered, checked' \subseteq checked \union covered
    PROVE  covered' \subseteq Posted' /\ checked' \subseteq Posted'
<1>1. Posted \subseteq Posted'
  BY ItemType DEF Posted
<1> QED
  BY <1>1 DEF TypeOK

\* Time passes up to a limit.
LEMMA OlderType ==
    ASSUME NEW limit \in Nat
    PROVE  /\ \A a \in Int : Older(a, limit) \in Int /\ Older(a, limit) <= limit
           /\ \A a \in Nat : Older(a, limit) \in 0..limit
           /\ Older(NotMade, limit) = NotMade
           /\ \A a \in Int : a < limit => Older(a, limit) = a + 1
           /\ \A a \in Int : a >= limit => Older(a, limit) = limit
           /\ \A a, b \in Int : a <= b => Older(a, limit) <= Older(b, limit)
<1>1. \A a \in Int : a # NotMade
  BY FeePoolAssumption
<1>2. \A a \in Int : Older(a, limit) = IF a < limit THEN a + 1 ELSE limit
  BY <1>1 DEF Older
<1>3. Older(NotMade, limit) = NotMade
  BY DEF Older
<1> QED
  BY <1>2, <1>3

\* So do ages and the timer.
LEMMA AgesType ==
    /\ \A a \in Int : Older(a, MaxAge + 1) \in Int
    /\ \A a \in Int : a >= 0 => Older(a, MaxAge + 1) >= 0
    /\ Older(NotMade, MaxAge + 1) = NotMade
    /\ \A a \in Int : Older(a, MaxAge + 1) <= MaxAge => a <= MaxAge
    /\ \A a, b \in Int : a <= b => Older(a, MaxAge + 1) <= Older(b, MaxAge + 1)
    /\ \A a \in 0..BatchTimeout \union {NotMade} :
         Older(a, BatchTimeout) \in 0..BatchTimeout \union {NotMade}
<1>1. MaxAge \in Nat /\ MaxAge + 1 \in Nat /\ BatchTimeout \in Nat
  BY FeePoolAssumption
<1> DEFINE l == MaxAge + 1
<1>2. l \in Nat /\ l = MaxAge + 1
  BY <1>1
<1> HIDE DEF l
<1>3. /\ \A a \in Int : Older(a, l) \in Int
      /\ Older(NotMade, l) = NotMade
      /\ \A a \in Int : a < l => Older(a, l) = a + 1
      /\ \A a \in Int : a >= l => Older(a, l) = l
      /\ \A a, b \in Int : a <= b => Older(a, l) <= Older(b, l)
  BY <1>2, OlderType
<1>4. \A a \in 0..BatchTimeout : Older(a, BatchTimeout) \in 0..BatchTimeout
  BY <1>1, OlderType
<1>5. Older(NotMade, BatchTimeout) = NotMade
  BY <1>1, OlderType
<1>6. \A a \in Int : Older(a, l) <= MaxAge => a <= MaxAge
  BY <1>1, <1>2, <1>3
<1>7. \A a \in Int : a >= 0 => Older(a, l) >= 0
  BY <1>2, <1>3
<1> QED
  BY <1>3, <1>4, <1>5, <1>6, <1>7 DEF l

\* A tick leaves the entries, older.
LEMMA TickPool ==
    ASSUME TypeOK, Tick
    PROVE  /\ pool' \in Seq(Pending) /\ DOMAIN pool' = DOMAIN pool
           /\ \A k \in DOMAIN pool :
                pool'[k].item = pool[k].item /\ pool'[k].age = Older(pool[k].age, MaxAge + 1)
<1>1. pool' = [k \in DOMAIN pool |-> [pool[k] EXCEPT !.age = Older(@, MaxAge + 1)]]
  BY DEF Tick
<1>2. DOMAIN pool = 1..Len(pool) /\ Len(pool) \in Nat
      /\ \A k \in DOMAIN pool : pool[k] \in Pending /\ pool[k].age \in Int
  BY ItemsAre DEF TypeOK
<1>3. \A k \in DOMAIN pool : Older(pool[k].age, MaxAge + 1) \in Int
  BY <1>2, AgesType
<1>4. \A k \in DOMAIN pool :
        [pool[k] EXCEPT !.age = Older(@, MaxAge + 1)] \in Pending
  BY <1>2, <1>3 DEF Pending
<1>5. pool' \in [1..Len(pool) -> Pending]
  BY <1>1, <1>2, <1>4
<1>6. pool' \in Seq(Pending)
  BY <1>2, <1>5
<1>7. \A k \in DOMAIN pool :
        pool'[k].item = pool[k].item /\ pool'[k].age = Older(pool[k].age, MaxAge + 1)
  BY <1>1, <1>2 DEF Pending
<1> QED
  BY <1>1, <1>6, <1>7

\* A request makes its transaction, if nobody has.
LEMMA RequestType ==
    ASSUME TypeOK, NEW t \in Tx, NEW a \in Int, Request(t), stamp' = [stamp EXCEPT ![t] = a]
    PROVE  TypeOK'
<1> DEFINE i == [kind |-> "tx", for |-> t, post |-> posts + 1]
<1>1. /\ covered' = covered \union {i}
      /\ UNCHANGED <<checked, pool, owed, timer, batch, chain, balance, crashes>>
      /\ UNCHANGED <<overdrawn, overtaken, ahead>>
  BY DEF Request
<1>2. i \in Item /\ i.kind = "tx" /\ i.for = t /\ posts' \in 0..MaxPosts
  BY AskedIs
<1> HIDE DEF i
<1>3. stamp' \in [Tx -> Int \union {NotMade}]
  BY DEF TypeOK
<1>4. stamp'[t] = a /\ a # NotMade /\ \A s \in Tx : stamp[s] # NotMade => stamp'[s] # NotMade
  BY FeePoolAssumption DEF TypeOK
<1>5. Posted \subseteq Posted' /\ i \in Posted'
  BY <1>2, <1>4, ItemType DEF Posted
<1>6. covered' \subseteq Posted' /\ checked' \subseteq Posted'
  BY <1>1, <1>5 DEF TypeOK
<1> QED
  BY <1>1, <1>2, <1>3, <1>6 DEF TypeOK

\* Every step keeps the types.
LEMMA TypeStep == TypeOK /\ [Next]_vars => TypeOK'
<1> SUFFICES ASSUME TypeOK, [Next]_vars PROVE TypeOK'
  OBVIOUS
<1>0. /\ pool \in Seq(Pending) /\ owed \subseteq Item
      /\ stamp \in [Tx -> Int \union {NotMade}]
      /\ timer \in 0..BatchTimeout \union {NotMade}
      /\ batch \in Seq(Item) /\ chain \in Seq(Seq(Item)) /\ balance \in [Account -> Nat]
      /\ posts \in 0..MaxPosts /\ crashes \in 0..MaxCrashes /\ overdrawn \in BOOLEAN
      /\ covered \subseteq Posted /\ checked \subseteq Posted
      /\ overtaken \subseteq Tx /\ ahead \subseteq Tx
      /\ MaxAge \in Nat /\ BatchTimeout \in Nat /\ MaxCrashes \in Nat
  BY FeePoolAssumption DEF TypeOK
<1>16. stamp' = stamp => Posted' = Posted
  BY DEF Posted
<1>1. ASSUME NEW t \in Tx, PostSigned(t) PROVE TypeOK'
  <2>1. PICK a \in IF stamp[t] = NotMade THEN Stamps ELSE {stamp[t]} :
            Request(t) /\ stamp' = [stamp EXCEPT ![t] = a]
    BY <1>1 DEF PostSigned
  <2>2. a \in Int
    <3>1. stamp[t] # NotMade => stamp[t] \in Int
      BY <1>0
    <3> QED BY <3>1, FeePoolAssumption
  <2> QED BY <2>1, <2>2, RequestType
<1>2. ASSUME NEW t \in Tx, PostBuilt(t) PROVE TypeOK'
  <2>1. Request(t) /\ stamp' = [stamp EXCEPT ![t] = 0]
    BY <1>2 DEF PostBuilt
  <2>2. 0 \in Int
    OBVIOUS
  <2> QED BY <2>1, <2>2, RequestType
<1>3. ASSUME NEW f \in owed, QueueFee(f) PROVE TypeOK'
  <2> DEFINE e == [item |-> f, age |-> 0]
  <2>1. e \in Pending
    BY <1>0 DEF Pending
  <2>2. pool' = Append(pool, e) /\ owed' \subseteq Item
    BY <1>0, <1>3 DEF QueueFee
  <2>3. pool' \in Seq(Pending)
    <3> HIDE DEF e
    <3> QED BY <1>0, <2>1, <2>2, AppendProperties
  <2> QED BY <1>0, <1>3, <2>2, <2>3, <1>16 DEF TypeOK, QueueFee, requests
<1>4. Fresh(pool) \in Seq(Pending)
  BY <1>0, KeptIs DEF Fresh
<1>5. CASE View
  BY <1>0, <1>4, <1>5, <1>16 DEF TypeOK, View, requests
<1>6. CASE Rest
  BY <1>0, <1>6, <1>16 DEF TypeOK, Rest, requests
<1>7. CASE Wait
  BY <1>0, <1>7, <1>16 DEF TypeOK, Wait, requests
<1>8. CASE Draw
  <2>1. pool' \in Seq(Pending) /\ batch' = Oldest(pool')
    BY <1>4, <1>8 DEF Draw
  <2>2. batch' \in Seq(Item)
    BY <2>1, OldestIs
  <2>3. timer' \in 0..BatchTimeout \union {NotMade}
    BY <1>0, <1>8 DEF Draw, Started
  <2> QED BY <1>0, <1>8, <2>1, <2>2, <2>3, <1>16 DEF TypeOK, Draw, requests
<1>9. CASE Mine
  <2>1. /\ chain' \in Seq(Seq(Item)) /\ balance' \in [Account -> Nat]
        /\ pool' \in Seq(Pending)
    <3>1. CASE FeesValid(ToSet(batch))
      <4> DEFINE K == {k \in DOMAIN pool : Hash(pool[k].item) \notin Hashes(ToSet(batch))}
      <4>1. /\ chain' = Append(chain, batch)
            /\ balance' = Settled(balance, batch)
            /\ pool' = Kept(pool, K)
        BY <1>9, <3>1 DEF Mine
      <4>2. chain' \in Seq(Seq(Item))
        BY <1>0, <4>1, AppendProperties
      <4>3. balance' \in [Account -> Nat]
        BY <1>0, <4>1, SettledType DEF Books
      <4>4. pool' \in Seq(Pending)
        <5> HIDE DEF K
        <5> QED BY <1>0, <4>1, KeptIs
      <4> QED BY <4>2, <4>3, <4>4
    <3>2. CASE ~FeesValid(ToSet(batch))
      BY <1>0, <1>9, <3>2 DEF Mine
    <3> QED BY <3>1, <3>2
  <2>2. batch' = <<>> /\ batch' \in Seq(Item) /\ timer' = NotMade
    BY <1>9, EmptySeq DEF Mine
  <2>3. overtaken' \subseteq Tx
    <3>1. \A j \in checked : j.for \in Tx
      BY <1>0, ItemType DEF Posted
    <3>2. \/ overtaken' = overtaken
          \/ overtaken' = overtaken \union
                {i.for : i \in {j \in checked : Hash(j) \in Hashes(ToSet(batch))}}
      BY <1>9 DEF Mine
    <3> QED BY <1>0, <3>1, <3>2
  <2> QED BY <1>0, <1>9, <2>1, <2>2, <2>3, <1>16 DEF TypeOK, Mine
<1>10. CASE Tick
  <2>1. pool' \in Seq(Pending)
    BY <1>10, TickPool
  <2>2. stamp' \in [Tx -> Int \union {NotMade}]
    <3>1. stamp' = [t \in Tx |-> Older(stamp[t], MaxAge + 1)] /\ MaxAge + 1 \in Nat
      BY <1>0, <1>10 DEF Tick
    <3>2. \A t \in Tx : Older(stamp[t], MaxAge + 1) \in Int \union {NotMade}
      BY <1>0, <3>1, AgesType
    <3> QED BY <3>1, <3>2
  <2>3. timer' \in 0..BatchTimeout \union {NotMade}
    BY <1>0, <1>10, AgesType DEF Tick
  <2>4. covered' \subseteq Posted' /\ checked' \subseteq Posted'
    <3>1. \A t \in Tx : stamp[t] # NotMade => stamp'[t] # NotMade
      <4>1. \A t \in Tx : stamp[t] # NotMade =>
              stamp[t] \in Int /\ stamp'[t] = Older(stamp[t], MaxAge + 1)
        BY <1>0, <1>10 DEF Tick
      <4> QED BY <4>1, AgesType, FeePoolAssumption
    <3> QED BY <1>10, <3>1, PostedType DEF Tick, requests
  <2> QED BY <1>0, <1>10, <2>1, <2>2, <2>3, <2>4 DEF TypeOK, Tick, requests
<1>11. CASE Crash
  <2>1. crashes' \in 0..MaxCrashes
    BY <1>0, <1>11 DEF Crash
  <2>2. pool' \in Seq(Pending) /\ batch' \in Seq(Item)
    BY <1>11, EmptySeq DEF Crash
  <2> QED BY <1>0, <1>11, <2>1, <2>2, <1>16 DEF TypeOK, Crash
<1>12. CASE UNCHANGED vars
  BY <1>0, <1>12, <1>16 DEF TypeOK, vars, requests
<1>13. ASSUME NEW i \in covered, Check(i) PROVE TypeOK'
  BY <1>0, <1>13, <1>16 DEF TypeOK, Check
<1>14. ASSUME NEW i \in checked, Add(i) PROVE TypeOK'
  <2>1. UNCHANGED <<covered, stamp, timer, batch, chain, balance, posts, crashes>>
        /\ checked' \subseteq checked
    BY <1>14 DEF Add
  <2> QED BY <1>0, <1>14, <1>16, <2>1, AddType DEF TypeOK
<1>15. ASSUME NEW i \in checked, AddRefused(i) PROVE TypeOK'
  BY <1>0, <1>15, <1>16 DEF TypeOK, AddRefused
<1> QED
  BY <1>1, <1>2, <1>3, <1>5, <1>6, <1>7, <1>8, <1>9, <1>10, <1>11, <1>12, <1>13, <1>14, <1>15
  DEF Next, Handle, Turn, Transfer, Anchor

\* The types hold at the start.
LEMMA TypeInit == Init => TypeOK
<1> SUFFICES ASSUME Init PROVE TypeOK
  OBVIOUS
<1>1. pool \in Seq(Pending) /\ batch \in Seq(Item) /\ chain \in Seq(Seq(Item))
  BY EmptySeq DEF Init
<1>2. 0 \in 0..MaxPosts /\ 0 \in 0..MaxCrashes
  BY FeePoolAssumption
<1> QED
  BY <1>1, <1>2, FeePoolAssumption DEF Init, TypeOK

\* The type invariant: every entry is a pending item, and no balance is negative,
\* for any transactions, limits and times (Mempool, _apply_block_to_balances).
THEOREM FeePoolType == Spec => []TypeOK
BY TypeInit, TypeStep, PTL DEF Spec

-----------------------------------------------------------------------------
(* The invariants                                                          *)

\* What is pending, about to be, or in the block under way.
Live == Items(pool) \union owed \union ToSet(batch)

\* What requests are still to look up or to add.
Asked == covered \union checked

\* A fee exists where its transaction costs something.
IsFee(i) == i.kind # "tx" => i \in Fees(i.for, i.post)

\* i is a fee, or its transaction was not added or stored behind the back of a request.
Sole(i) == i.kind = "tx" => i.for \notin overtaken

\* Requests are numbered in order, and a fee belongs to one of them.
Numbered ==
    /\ \A i \in Live \union Stored : i.post <= posts /\ IsFee(i)
    /\ \A f \in owed : f.kind # "tx"
    /\ IsFiniteSet(owed)

\* So are those under way, and none has added anything under its number.
AskedNew ==
    /\ covered \intersect checked = {}
    /\ \A i \in Asked : i.kind = "tx" /\ i.post <= posts
    /\ \A i, j \in Asked : i.post = j.post => i = j
    /\ \A i \in Asked, j \in Live \union Stored : i.post # j.post

\* What a request has found to be new still is, unless it has been overtaken.
CheckedNew ==
    \A i \in checked : i.for \notin overtaken =>
        /\ Hash(i) \notin Hashes(Items(pool))
        /\ Amount(i) > 0 => Hash(i) \notin Hashes(Stored)

\* A hash is once in a sequence of entries, and once in a batch.
DifferentEntries(p) == \A k, m \in DOMAIN p : Hash(p[k].item) = Hash(p[m].item) => k = m
DifferentItems(b) == \A k, m \in DOMAIN b : Hash(b[k]) = Hash(b[m]) => k = m

\* A hash is once in the mempool and once in a batch.
Different == DifferentEntries(pool) /\ DifferentItems(batch)

\* What a request has added is not stored, and a fee still to be added is nowhere yet.
LiveIsNew ==
    /\ owed \intersect (Items(pool) \union ToSet(batch)) = {}
    /\ Live \intersect Stored = {}

\* What moves money and is pending has not been stored by another request.
NotStoredYet ==
    \A i \in Items(pool) \union ToSet(batch) :
        Amount(i) > 0 /\ Sole(i) => Hash(i) \notin Hashes(Stored)

\* The blocks in one sequence have what is stored.
AllStored == FlattenSeq(chain) \in Seq(Item) /\ ToSet(FlattenSeq(chain)) = Stored

\* A fee is behind its transaction in a sequence of entries, and no older, if the
\* transaction was not ahead of the clock.
Behind(p) ==
    \A k \in DOMAIN p : p[k].item.kind = "tx" /\ p[k].item.for \notin ahead =>
        /\ p[k].age >= 0
        /\ \A m \in DOMAIN p :
             p[m].item \in Fees(p[k].item.for, p[k].item.post) => k < m /\ p[m].age <= p[k].age

\* A batch that has a fee has its transaction, unless that is no longer pending.
CutBehind ==
    \A i \in Items(pool) :
        /\ i.kind = "tx" /\ i.for \notin ahead
        /\ Fees(i.for, i.post) \intersect ToSet(batch) # {}
        => Hash(i) \in Hashes(ToSet(batch))

OnceInv ==
    /\ Numbered
    /\ AskedNew
    /\ CheckedNew
    /\ Different
    /\ LiveIsNew
    /\ NotStoredYet
    /\ AllStored
    /\ StoredOnce

FeesInv == Behind(pool) /\ CutBehind /\ FeesWithTx

-----------------------------------------------------------------------------
(* What the steps do                                                       *)

\* A request for t, of age a.
Requests(t, a) ==
    /\ Request(t)
    /\ stamp' = [stamp EXCEPT ![t] = a]
    /\ stamp[t] # NotMade => a = stamp[t]

\* A request finds its transaction to be new.
Passes(i) == Check(i) /\ ~Known(Hash(i))

\* Nothing is added, removed or stored; a request may give up.
Idles ==
    /\ covered' \subseteq covered /\ checked' \subseteq checked
    /\ UNCHANGED <<pool, owed, stamp, batch, chain, balance, posts, overdrawn, overtaken, ahead>>

\* The block under way is stored.
Stores == Mine /\ FeesValid(ToSet(batch))

\* The block under way is refused.
Refuses ==
    /\ batch' = <<>>
    /\ UNCHANGED <<pool, owed, stamp, chain, balance, overdrawn, requests>>

\* What a step can be.
Steps ==
    \/ \E t \in Tx : \E a \in Int : Requests(t, a)
    \/ \E i \in covered : Passes(i)
    \/ \E i \in checked : Add(i)
    \/ \E f \in owed : QueueFee(f)
    \/ View
    \/ Draw
    \/ Stores
    \/ Refuses
    \/ Tick
    \/ Crash
    \/ Idles

\* There are no other steps.
LEMMA StepKinds == TypeOK /\ [Next]_vars => Steps
<1> SUFFICES ASSUME TypeOK, [Next]_vars PROVE Steps
  OBVIOUS
<1>1. ASSUME NEW t \in Tx, PostSigned(t) PROVE \E a \in Int : Requests(t, a)
  <2>1. PICK a \in IF stamp[t] = NotMade THEN Stamps ELSE {stamp[t]} :
            Request(t) /\ stamp' = [stamp EXCEPT ![t] = a]
    BY <1>1 DEF PostSigned
  <2>2. a \in Int /\ (stamp[t] # NotMade => a = stamp[t])
    <3>1. stamp[t] # NotMade => stamp[t] \in Int
      BY DEF TypeOK
    <3> QED BY <3>1, FeePoolAssumption
  <2>3. Requests(t, a)
    BY <2>1, <2>2 DEF Requests
  <2> QED BY <2>2, <2>3
<1>2. ASSUME NEW t \in Tx, PostBuilt(t) PROVE \E a \in Int : Requests(t, a)
  <2>1. Requests(t, 0)
    BY <1>2 DEF PostBuilt, Requests
  <2> QED BY <2>1
<1>3. Mine => Stores \/ Refuses
  BY DEF Mine, Stores, Refuses, requests
<1>4. Rest \/ Wait \/ UNCHANGED vars => Idles
  BY DEF Rest, Wait, vars, Idles, requests
<1>5. ASSUME NEW i \in covered, Check(i) PROVE Passes(i) \/ Idles
  BY <1>5 DEF Check, Passes, Idles
<1>6. ASSUME NEW i \in checked, AddRefused(i) PROVE Idles
  BY <1>6 DEF AddRefused, Idles
<1> QED
  BY <1>1, <1>2, <1>3, <1>4, <1>5, <1>6 DEF Next, Handle, Turn, Transfer, Anchor, Steps

\* A hash tells the kind and the transaction, and a fee.
LEMMA HashTells ==
    ASSUME NEW i \in Item, NEW j \in Item
    PROVE  /\ i.kind # "tx" => Hash(i) = i
           /\ Hash(i) = Hash(j) =>
                /\ i.kind = j.kind /\ i.for = j.for
                /\ i.kind # "tx" => i = j
                /\ Amount(i) = Amount(j)
           /\ i.kind = "tx" /\ j.kind = "tx" /\ i.for = j.for => Hash(i) = Hash(j)
<1>1. /\ i = [kind |-> i.kind, for |-> i.for, post |-> i.post]
      /\ j = [kind |-> j.kind, for |-> j.for, post |-> j.post]
  BY ItemType
<1>2. ASSUME NEW x \in Item
      PROVE  Hash(x) = [kind |-> x.kind, for |-> x.for, post |-> IF x.kind = "tx" THEN 0 ELSE x.post]
  <2>1. x = [kind |-> x.kind, for |-> x.for, post |-> x.post]
    BY ItemType
  <2>2. CASE x.kind = "tx"
    <3>1. Hash(x) = [x EXCEPT !.post = 0]
      BY <2>2 DEF Hash
    <3> QED BY <2>1, <2>2, <3>1
  <2>3. CASE x.kind # "tx"
    <3>1. Hash(x) = x
      BY <2>3 DEF Hash
    <3> QED BY <2>1, <2>3, <3>1
  <2> QED BY <2>2, <2>3
<1>3. i.kind # "tx" => Hash(i) = i
  BY DEF Hash
<1>4. Hash(i) = Hash(j) => /\ i.kind = j.kind /\ i.for = j.for
                           /\ i.kind # "tx" => i = j
  <2> SUFFICES ASSUME Hash(i) = Hash(j)
               PROVE  i.kind = j.kind /\ i.for = j.for /\ (i.kind # "tx" => i = j)
    OBVIOUS
  <2>1. i.kind = j.kind /\ i.for = j.for
        /\ (IF i.kind = "tx" THEN 0 ELSE i.post) = (IF j.kind = "tx" THEN 0 ELSE j.post)
    BY <1>2
  <2>2. i.kind # "tx" => i.post = j.post
    BY <2>1
  <2> QED BY <1>1, <2>1, <2>2
<1>5. i.kind = j.kind /\ i.for = j.for => Amount(i) = Amount(j)
  BY DEF Amount
<1>6. i.kind = "tx" /\ j.kind = "tx" /\ i.for = j.for => Hash(i) = Hash(j)
  BY <1>2
<1> QED
  BY <1>3, <1>4, <1>5, <1>6

\* One more entry.
LEMMA AppendItems ==
    ASSUME NEW p \in Seq(Pending), NEW e \in Pending
    PROVE  /\ Items(Append(p, e)) = Items(p) \union {e.item}
           /\ DOMAIN Append(p, e) = DOMAIN p \union {Len(p) + 1}
           /\ Append(p, e)[Len(p) + 1] = e /\ Len(p) + 1 \notin DOMAIN p
           /\ \A k \in DOMAIN p : Append(p, e)[k] = p[k] /\ k < Len(p) + 1
<1> DEFINE q == Append(p, e)
           n == Len(p) + 1
<1>1. /\ q \in Seq(Pending) /\ Len(q) = n /\ q[n] = e
      /\ \A k \in 1..Len(p) : q[k] = p[k]
  BY AppendProperties
<1>2. DOMAIN p = 1..Len(p) /\ DOMAIN q = 1..Len(q) /\ Len(p) \in Nat
  <2> HIDE DEF q
  <2> QED BY <1>1, LenProperties
<1>3. DOMAIN q = DOMAIN p \union {n} /\ n \notin DOMAIN p /\ \A k \in DOMAIN p : k < n
  <2> HIDE DEF q
  <2> QED BY <1>1, <1>2
<1>4. \A k \in DOMAIN p : q[k] = p[k]
  BY <1>1, <1>2
<1> HIDE DEF q, n
<1>5. Items(q) = Items(p) \union {e.item}
  BY <1>1, <1>3, <1>4 DEF Items
<1> QED
  BY <1>1, <1>3, <1>4, <1>5 DEF q, n

\* What is kept is what was there, and once.
LEMMA KeptItems ==
    ASSUME NEW p \in Seq(Pending), NEW K
    PROVE  /\ Kept(p, K) \in Seq(Pending)
           /\ \A j \in DOMAIN Kept(p, K) : \E k \in DOMAIN p : k \in K /\ Kept(p, K)[j] = p[k]
           /\ \A k \in DOMAIN p : k \in K => \E j \in DOMAIN Kept(p, K) : Kept(p, K)[j] = p[k]
           /\ Items(Kept(p, K)) = {p[k].item : k \in K \intersect DOMAIN p}
           /\ Items(Kept(p, K)) \subseteq Items(p)
           /\ DifferentEntries(p) => DifferentEntries(Kept(p, K))
<1> DEFINE q == Kept(p, K)
<1>1. q \in Seq(Pending) /\ \E h : Embeds(h, q, p, K)
  BY KeptIs
<1> HIDE DEF q
<1>2. PICK h : Embeds(h, q, p, K)
  BY <1>1
<1>3. DOMAIN p = 1..Len(p) /\ DOMAIN q = 1..Len(q) /\ Len(q) \in Nat
  BY <1>1, LenProperties
<1>4. /\ \A j \in DOMAIN q : h[j] \in DOMAIN p /\ h[j] \in K /\ q[j] = p[h[j]]
      /\ \A k \in DOMAIN p : k \in K => \E j \in DOMAIN q : h[j] = k
  BY <1>2, <1>3 DEF Embeds
<1>5. \A i, j \in DOMAIN q : h[i] = h[j] => i = j
  <2> SUFFICES ASSUME NEW i \in 1..Len(q), NEW j \in 1..Len(q), i # j PROVE h[i] # h[j]
    BY <1>3
  <2>1. i < j \/ j < i
    BY <1>3
  <2>2. h[i] < h[j] \/ h[j] < h[i]
    BY <1>2, <2>1 DEF Embeds
  <2>3. h[i] \in Int /\ h[j] \in Int
    BY <1>3, <1>4
  <2> QED BY <2>2, <2>3
<1>6. Items(q) = {p[k].item : k \in K \intersect DOMAIN p}
  <2>1. \A j \in DOMAIN q : \E k \in K \intersect DOMAIN p : q[j].item = p[k].item
    BY <1>4
  <2>2. \A k \in K \intersect DOMAIN p : \E j \in DOMAIN q : q[j].item = p[k].item
    BY <1>4
  <2> QED BY <2>1, <2>2 DEF Items
<1>7. Items(q) \subseteq Items(p)
  BY <1>6 DEF Items
<1>8. DifferentEntries(p) => DifferentEntries(q)
  BY <1>4, <1>5 DEF DifferentEntries
<1>9. /\ \A j \in DOMAIN q : \E k \in DOMAIN p : k \in K /\ q[j] = p[k]
      /\ \A k \in DOMAIN p : k \in K => \E j \in DOMAIN q : q[j] = p[k]
  BY <1>4
<1> QED
  BY <1>1, <1>6, <1>7, <1>8, <1>9 DEF q

\* A batch takes items of the mempool, different as they are.
LEMMA DrawnItems ==
    ASSUME NEW p \in Seq(Pending), DifferentEntries(p)
    PROVE  ToSet(Oldest(p)) \subseteq Items(p) /\ DifferentItems(Oldest(p))
<1> DEFINE b == Oldest(p)
<1>1. b \in Seq(Item) /\ \E at : Draws(at, b, p)
  BY OldestIs
<1> HIDE DEF b
<1>2. PICK at : Draws(at, b, p)
  BY <1>1
<1>3. /\ \A n \in DOMAIN b : at[n] \in DOMAIN p /\ b[n] = p[at[n]].item
      /\ \A n, m \in DOMAIN b : at[n] = at[m] => n = m
  BY <1>2 DEF Draws
<1>4. ToSet(b) \subseteq Items(p)
  BY <1>1, <1>3, BatchIs DEF Items
<1>5. DifferentItems(b)
  BY <1>3 DEF DifferentEntries, DifferentItems
<1> QED
  BY <1>4, <1>5 DEF b

\* A further block.
LEMMA StoredMore ==
    ASSUME TypeOK, Stores
    PROVE  /\ Stored' = Stored \union ToSet(batch)
           /\ FlattenSeq(chain') = FlattenSeq(chain) \o batch
           /\ pool' = Kept(pool, {k \in DOMAIN pool :
                                    Hash(pool[k].item) \notin Hashes(ToSet(batch))})
           /\ balance' = Settled(balance, batch)
           /\ batch' = <<>> /\ ToSet(batch') = {}
           /\ overtaken \subseteq overtaken'
           /\ \A j \in checked : Hash(j) \in Hashes(ToSet(batch)) => j.for \in overtaken'
           /\ UNCHANGED <<owed, stamp, posts, crashes, overdrawn, covered, checked, ahead>>
<1>1. /\ chain' = Append(chain, batch)
      /\ pool' = Kept(pool, {k \in DOMAIN pool : Hash(pool[k].item) \notin Hashes(ToSet(batch))})
      /\ balance' = Settled(balance, batch)
      /\ batch' = <<>>
      /\ overtaken \subseteq overtaken'
      /\ \A j \in checked : Hash(j) \in Hashes(ToSet(batch)) => j.for \in overtaken'
      /\ UNCHANGED <<owed, stamp, posts, crashes, overdrawn, covered, checked, ahead>>
  BY DEF Stores, Mine
<1>2. chain \in Seq(Seq(Item)) /\ batch \in Seq(Item)
  BY DEF TypeOK
<1> DEFINE n == Len(chain) + 1
<1>3. /\ chain' \in Seq(Seq(Item)) /\ Len(chain') = n /\ chain'[n] = batch
      /\ \A k \in 1..Len(chain) : chain'[k] = chain[k]
  BY <1>1, <1>2, AppendProperties
<1>4. DOMAIN chain = 1..Len(chain) /\ DOMAIN chain' = 1..n /\ Len(chain) \in Nat
  BY <1>2, <1>3, LenProperties
<1>5. DOMAIN chain' = DOMAIN chain \union {n}
  BY <1>4
<1> HIDE DEF n
<1>6. Stored' = Stored \union ToSet(batch)
  <2>1. /\ \A k \in DOMAIN chain : ToSet(chain'[k]) = ToSet(chain[k])
        /\ ToSet(chain'[n]) = ToSet(batch)
    BY <1>3, <1>4
  <2>2. Stored' = UNION {ToSet(chain'[k]) : k \in DOMAIN chain'}
    BY DEF Stored
  <2> QED BY <1>5, <2>1, <2>2 DEF Stored
<1>7. FlattenSeq(chain') = FlattenSeq(chain) \o batch
  BY <1>1, <1>2, FlattenAppend
<1>8. ToSet(batch') = {}
  BY <1>1 DEF ToSet
<1> QED
  BY <1>1, <1>6, <1>7, <1>8

\* Unless a block is stored, what is stored stays.
LEMMA StoredSame ==
    ASSUME chain' = chain
    PROVE  /\ Stored' = Stored /\ (AllStored <=> AllStored')
           /\ overtaken \subseteq overtaken' /\ StoredOnce => StoredOnce'
<1>1. Stored' = Stored
  BY DEF Stored
<1>2. AllStored <=> AllStored'
  BY <1>1 DEF AllStored
<1>3. overtaken \subseteq overtaken' /\ StoredOnce => StoredOnce'
  BY DEF StoredOnce
<1> QED
  BY <1>1, <1>2, <1>3

\* What a request leaves alone.
LEMMA RequestLeaves ==
    ASSUME TypeOK, NEW t \in Tx, NEW a \in Int, Requests(t, a)
    PROVE  /\ [kind |-> "tx", for |-> t, post |-> posts + 1] \in Item
           /\ covered' = covered \union {[kind |-> "tx", for |-> t, post |-> posts + 1]}
           /\ posts' = posts + 1 /\ posts \in Nat
           /\ UNCHANGED <<checked, pool, owed, batch, chain, balance, overdrawn, overtaken, ahead>>
           /\ Live' = Live /\ Items(pool') = Items(pool)
<1>1. /\ covered' = covered \union {[kind |-> "tx", for |-> t, post |-> posts + 1]}
      /\ UNCHANGED <<checked, pool, owed, batch, chain, balance, overdrawn, overtaken, ahead>>
  BY DEF Requests, Request
<1>2. Live' = Live /\ Items(pool') = Items(pool)
  BY <1>1 DEF Live
<1> QED
  BY <1>1, <1>2, AskedIs DEF Requests

\* What adding a transaction changes.
LEMMA AddMoves ==
    ASSUME TypeOK, OnceInv, NEW i \in checked, Add(i)
    PROVE  /\ i \in Item /\ i.for \in Tx /\ i.kind = "tx"
           /\ Items(pool') \subseteq Items(pool) \union {i} /\ Items(pool) \subseteq Items(pool')
           /\ owed' = owed \union Fees(i.for, i.post)
           /\ Live' = Items(pool') \union owed' \union ToSet(batch)
           /\ Live \subseteq Live' /\ Live' \subseteq Live \union {i} \union Fees(i.for, i.post)
           /\ i \notin Live \union Stored
           /\ \A f \in Fees(i.for, i.post) :
                /\ f.kind # "tx" /\ f.for = i.for /\ f.post = i.post /\ IsFee(f)
                /\ f \notin Live \union Stored /\ f # i
           /\ covered' = covered /\ checked' = checked \ {i}
           /\ overtaken \subseteq overtaken' /\ ahead \subseteq ahead'
           /\ \A j \in checked : j # i /\ j.for = i.for => j.for \in overtaken'
           /\ UNCHANGED <<stamp, batch, chain, balance, posts>>
<1>1. /\ covered' = covered /\ checked' = checked \ {i}
      /\ owed' = owed \union Fees(i.for, i.post)
      /\ UNCHANGED <<stamp, batch, chain, balance, posts>>
      /\ overtaken \subseteq overtaken' /\ ahead \subseteq ahead'
  BY DEF Add
<1>2. i \in Item /\ i.for \in Tx /\ i.kind = "tx"
  BY AddType
<1>3. Items(pool') \subseteq Items(pool) \union {i} /\ Items(pool) \subseteq Items(pool')
  <2> DEFINE e == [item |-> i, age |-> stamp[i.for]]
  <2>1. CASE pool' = pool
    BY <2>1
  <2>2. CASE pool' # pool
    <3>1. pool' = Append(pool, e) /\ stamp[i.for] \in Int
      BY <2>2, AddType DEF Add
    <3>2. e \in Pending /\ e.item = i
      BY <1>2, <3>1 DEF Pending
    <3> HIDE DEF e
    <3> QED BY <3>1, <3>2, AppendItems DEF TypeOK
  <2> QED BY <2>1, <2>2
<1>4. /\ Live' = Items(pool') \union owed' \union ToSet(batch)
      /\ Live \subseteq Live' /\ Live' \subseteq Live \union {i} \union Fees(i.for, i.post)
  BY <1>1, <1>3 DEF Live
<1>5. \A j \in Live \union Stored : j.post # i.post
  BY DEF OnceInv, AskedNew, Asked
<1>6. i \notin Live \union Stored
  BY <1>5
<1>7. ASSUME NEW f \in Fees(i.for, i.post)
      PROVE  /\ f.kind # "tx" /\ f.for = i.for /\ f.post = i.post /\ IsFee(f)
             /\ f \notin Live \union Stored /\ f # i
  <2>1. f.kind \in {"authority", "node"} /\ f.for = i.for /\ f.post = i.post
    BY <1>2, <1>7, FeesAre
  <2> QED BY <1>2, <1>5, <1>7, <2>1 DEF IsFee
<1>8. ASSUME NEW j \in checked, j # i, j.for = i.for PROVE j.for \in overtaken'
  <2>1. j \in Waiting(i.for)
    BY <1>8 DEF Waiting
  <2> QED BY <1>8, <2>1 DEF Add
<1> QED
  BY <1>1, <1>2, <1>3, <1>4, <1>6, <1>7, <1>8

\* A transaction nobody overtook is added at the end.
LEMMA AddsNew ==
    ASSUME TypeOK, OnceInv, NEW i \in checked, Add(i), i.for \notin overtaken
    PROVE  /\ pool' = Append(pool, [item |-> i, age |-> stamp[i.for]])
           /\ Hash(i) \notin Hashes(Items(pool))
           /\ i \in Items(pool')
<1> DEFINE e == [item |-> i, age |-> stamp[i.for]]
<1>1. pool' = Append(pool, e) /\ Hash(i) \notin Hashes(Items(pool))
  BY DEF OnceInv, CheckedNew, Add
<1>2. e \in Pending /\ e.item = i
  BY AddType DEF Pending
<1>3. i \in Items(pool')
  <2> HIDE DEF e
  <2> QED BY <1>1, <1>2, AppendItems DEF TypeOK
<1> QED
  BY <1>1, <1>3

\* An entry that is added is the last one.
LEMMA AddsLast ==
    ASSUME TypeOK, NEW i \in checked, Add(i), pool' # pool
    PROVE  /\ DOMAIN pool' = DOMAIN pool \union {Len(pool) + 1}
           /\ pool'[Len(pool) + 1].item = i /\ pool'[Len(pool) + 1].age = stamp[i.for]
           /\ stamp[i.for] \in Int
           /\ \A k \in DOMAIN pool : pool'[k] = pool[k] /\ k < Len(pool) + 1
           /\ Hash(i) \notin Hashes(Items(pool))
<1> DEFINE e == [item |-> i, age |-> stamp[i.for]]
<1>1. pool' = Append(pool, e) /\ Hash(i) \notin Hashes(Items(pool))
  BY DEF Add
<1>2. i \in Item /\ stamp[i.for] \in Int
  BY AddType
<1>3. e.item = i /\ e.age = stamp[i.for]
  OBVIOUS
<1> DEFINE n == Len(pool) + 1
<1> HIDE DEF e
<1>4. pool' = Append(pool, e) /\ pool \in Seq(Pending)
  BY <1>1 DEF TypeOK
<1>5. e \in Pending
  BY <1>2 DEF Pending, e
<1>6. /\ DOMAIN pool' = DOMAIN pool \union {n} /\ pool'[n] = e
      /\ \A k \in DOMAIN pool : pool'[k] = pool[k] /\ k < n
  BY <1>4, <1>5, AppendItems
<1> QED
  BY <1>1, <1>2, <1>3, <1>6

\* What queueing a fee moves.
LEMMA QueueMoves ==
    ASSUME TypeOK, NEW f \in owed, QueueFee(f)
    PROVE  /\ f \in Item /\ owed' = owed \ {f}
           /\ pool' = Append(pool, [item |-> f, age |-> 0]) /\ [item |-> f, age |-> 0] \in Pending
           /\ Items(pool') = Items(pool) \union {f}
           /\ Live' = Live
           /\ UNCHANGED <<stamp, batch, chain, balance, overdrawn, requests>>
<1>1. /\ f \in Item /\ owed' = owed \ {f} /\ pool' = Append(pool, [item |-> f, age |-> 0])
      /\ UNCHANGED <<stamp, batch, chain, balance, overdrawn, requests>>
  BY DEF QueueFee, TypeOK
<1> DEFINE e == [item |-> f, age |-> 0]
<1>2. e \in Pending /\ e.item = f
  BY <1>1 DEF Pending
<1>3. Items(pool') = Items(pool) \union {f}
  <2> HIDE DEF e
  <2> QED BY <1>1, <1>2, AppendItems DEF TypeOK, e
<1>4. Live' = Live
  BY <1>1, <1>3 DEF Live
<1> QED
  BY <1>1, <1>2, <1>3, <1>4

\* Ticks change ages only.
LEMMA TickItems ==
    ASSUME TypeOK, Tick
    PROVE  /\ Items(pool') = Items(pool)
           /\ UNCHANGED <<owed, batch, chain, balance, overdrawn, requests>>
           /\ Live' = Live
<1>1. DOMAIN pool' = DOMAIN pool /\ \A k \in DOMAIN pool : pool'[k].item = pool[k].item
  BY TickPool
<1>2. Items(pool') = Items(pool)
  BY <1>1 DEF Items
<1>3. UNCHANGED <<owed, batch, chain, balance, overdrawn, requests>>
  BY DEF Tick
<1> QED
  BY <1>2, <1>3 DEF Live

-----------------------------------------------------------------------------
(* Stored once                                                             *)

\* Requests under way stay new while nothing is added or stored.
LEMMA AskedStays ==
    ASSUME OnceInv, covered' \subseteq covered, checked' \subseteq checked, posts' = posts,
           Live' \union Stored' \subseteq Live \union Stored
    PROVE  AskedNew'
BY DEF OnceInv, AskedNew, Asked

\* What they have checked does too, whatever fees are queued.
LEMMA CheckedStays ==
    ASSUME TypeOK, OnceInv, checked' \subseteq checked, overtaken \subseteq overtaken',
           Stored' = Stored, Items(pool') \subseteq Item,
           \A j \in Items(pool') : j \in Items(pool) \/ j.kind # "tx"
    PROVE  CheckedNew'
<1> SUFFICES ASSUME NEW i \in checked', i.for \notin overtaken'
             PROVE  /\ Hash(i) \notin Hashes(Items(pool'))
                    /\ Amount(i) > 0 => Hash(i) \notin Hashes(Stored')
  BY DEF CheckedNew
<1>1. i \in Item /\ i.kind = "tx"
  BY DEF TypeOK, Posted
<1>2. /\ Hash(i) \notin Hashes(Items(pool))
      /\ Amount(i) > 0 => Hash(i) \notin Hashes(Stored)
  BY DEF OnceInv, CheckedNew
<1>3. \A j \in Items(pool') : Hash(j) # Hash(i)
  BY <1>1, <1>2, HashTells DEF Hashes
<1> QED
  BY <1>2, <1>3 DEF Hashes

\* A request takes a new number.
LEMMA OnceRequest ==
    ASSUME TypeOK, OnceInv, NEW t \in Tx, NEW a \in Int, Requests(t, a)
    PROVE  OnceInv'
<1> DEFINE i == [kind |-> "tx", for |-> t, post |-> posts + 1]
<1>0. i.kind = "tx" /\ i.post = posts + 1
  OBVIOUS
<1>1. /\ covered' = covered \union {i} /\ posts' = posts + 1 /\ posts \in Nat
      /\ UNCHANGED <<checked, pool, owed, batch, chain, overtaken>>
      /\ Live' = Live /\ Items(pool') = Items(pool)
  BY RequestLeaves
<1> HIDE DEF i
<1>2. Stored' = Stored /\ AllStored' /\ StoredOnce'
  BY <1>1, StoredSame DEF OnceInv
<1>3. \A j \in Live \union Stored : j.post <= posts /\ j.post \in Int
  <2>1. Live \union Stored \subseteq Item
    BY ItemsAre, BatchIs, StoredIs DEF Live, TypeOK
  <2>2. \A j \in Item : j.post \in Int
    BY ItemType
  <2> QED BY <2>1, <2>2 DEF OnceInv, Numbered
<1>4. \A j \in Asked : j.post <= posts /\ j.post \in Int /\ j.kind = "tx"
  <2>1. Asked \subseteq Item
    BY DEF Asked, TypeOK, Posted
  <2> QED BY <2>1, ItemType DEF OnceInv, AskedNew
<1>5. \A j : IsFee(j)' <=> IsFee(j)
  BY DEF IsFee
<1>6. Numbered'
  BY <1>1, <1>2, <1>3, <1>5 DEF OnceInv, Numbered
<1>7. AskedNew'
  <2>1. Asked' = Asked \union {i} /\ i \notin Asked
    BY <1>0, <1>1, <1>4 DEF Asked
  <2>2. \A j \in Asked' : j.kind = "tx" /\ j.post <= posts'
    BY <1>0, <1>1, <1>4, <2>1
  <2>3. \A j, k \in Asked' : j.post = k.post => j = k
    <3>1. \A j \in Asked : j.post # i.post
      BY <1>0, <1>1, <1>4
    <3> QED BY <2>1, <3>1 DEF OnceInv, AskedNew
  <2>4. \A j \in Asked', k \in Live' \union Stored' : j.post # k.post
    <3>1. \A k \in Live \union Stored : k.post # i.post
      BY <1>0, <1>1, <1>3
    <3> QED BY <1>1, <1>2, <2>1, <3>1 DEF OnceInv, AskedNew
  <2>5. covered' \intersect checked' = {}
    BY <1>1, <2>1 DEF OnceInv, AskedNew, Asked
  <2> QED BY <2>2, <2>3, <2>4, <2>5 DEF AskedNew
<1>8. CheckedNew' /\ Different' /\ LiveIsNew' /\ NotStoredYet'
  BY <1>1, <1>2 DEF OnceInv, CheckedNew, Different, DifferentEntries, DifferentItems, LiveIsNew,
                    NotStoredYet, Sole
<1> QED
  BY <1>2, <1>6, <1>7, <1>8 DEF OnceInv

\* The duplicate check lets pass what is new.
LEMMA OncePasses ==
    ASSUME TypeOK, OnceInv, NEW i \in covered, Passes(i)
    PROVE  OnceInv'
<1>1. /\ covered' = covered \ {i} /\ checked' = checked \union {i}
      /\ UNCHANGED <<pool, owed, batch, chain, posts, overtaken>>
  BY DEF Passes, Check
<1>2. Stored' = Stored /\ AllStored' /\ StoredOnce' /\ Live' = Live
  BY <1>1, StoredSame DEF OnceInv, Live
<1>3. \A j : IsFee(j)' <=> IsFee(j)
  BY DEF IsFee
<1>4. Numbered' /\ Different' /\ LiveIsNew' /\ NotStoredYet'
  BY <1>1, <1>2, <1>3 DEF OnceInv, Numbered, Different, DifferentEntries, DifferentItems,
                          LiveIsNew, NotStoredYet, Sole
<1>5. AskedNew'
  <2>1. Asked' = Asked /\ covered' \intersect checked' = {}
    BY <1>1 DEF Asked, OnceInv, AskedNew
  <2> QED BY <1>1, <1>2, <2>1 DEF OnceInv, AskedNew
<1>6. Hash(i) \notin Hashes(Items(pool)) /\ (Amount(i) > 0 => Hash(i) \notin Hashes(Stored))
  <2>1. i \in Item /\ Stored \subseteq Item
    BY StoredIs DEF TypeOK, Posted
  <2>2. ASSUME Amount(i) > 0, NEW j \in Stored, Hash(i) = Hash(j) PROVE FALSE
    <3>1. Amount(j) > 0
      BY <2>1, <2>2, HashTells
    <3>2. Hash(i) \in Hashes({k \in Stored : Amount(k) > 0})
      BY <2>2, <3>1 DEF Hashes
    <3> QED BY <3>2 DEF Passes, Known
  <2> QED BY <2>2 DEF Passes, Known, Hashes
<1>7. CheckedNew'
  <2>1. ASSUME NEW j \in checked', j.for \notin overtaken'
        PROVE  Hash(j) \notin Hashes(Items(pool)) /\ (Amount(j) > 0 => Hash(j) \notin Hashes(Stored))
    BY <1>1, <1>6, <2>1 DEF OnceInv, CheckedNew
  <2> QED BY <1>1, <1>2, <2>1 DEF CheckedNew
<1> QED
  BY <1>2, <1>4, <1>5, <1>7 DEF OnceInv

\* What is added is new unless it was overtaken, and nobody has made its fees before.
LEMMA OnceAdd ==
    ASSUME TypeOK, OnceInv, NEW i \in checked, Add(i)
    PROVE  OnceInv'
<1> DEFINE new == Fees(i.for, i.post)
<1>1. /\ i \in Item /\ i.for \in Tx /\ i.kind = "tx"
      /\ Items(pool') \subseteq Items(pool) \union {i} /\ Items(pool) \subseteq Items(pool')
      /\ owed' = owed \union new
      /\ Live' = Items(pool') \union owed' \union ToSet(batch)
      /\ Live' \subseteq Live \union {i} \union new
      /\ i \notin Live \union Stored
      /\ \A f \in new : /\ f.kind # "tx" /\ f.post = i.post /\ IsFee(f)
                        /\ f \notin Live \union Stored /\ f # i
      /\ covered' = covered /\ checked' = checked \ {i} /\ overtaken \subseteq overtaken'
      /\ \A j \in checked : j # i /\ j.for = i.for => j.for \in overtaken'
      /\ UNCHANGED <<batch, chain, posts>>
  BY AddMoves
<1>2. Stored' = Stored /\ AllStored' /\ StoredOnce' /\ ToSet(batch') = ToSet(batch)
  BY <1>1, StoredSame DEF OnceInv
<1>3. IsFiniteSet(new)
  BY <1>1, FeesAre
<1> HIDE DEF new
<1>4. Numbered'
  <2>1. ASSUME NEW j \in Live' \union Stored' PROVE j.post <= posts' /\ IsFee(j)
    <3>1. CASE j \in Live \union Stored
      BY <1>1, <3>1 DEF OnceInv, Numbered
    <3>2. i.post <= posts
      BY DEF OnceInv, AskedNew, Asked
    <3>3. CASE j = i
      BY <1>1, <3>2, <3>3 DEF IsFee
    <3>4. CASE j \in new
      BY <1>1, <3>2, <3>4
    <3> QED BY <1>1, <1>2, <3>1, <3>3, <3>4
  <2>2. IsFiniteSet(owed')
    BY <1>1, <1>3, FS_Union DEF OnceInv, Numbered
  <2>3. \A j : IsFee(j)' <=> IsFee(j)
    BY DEF IsFee
  <2> QED BY <1>1, <2>1, <2>2, <2>3 DEF OnceInv, Numbered
<1>5. AskedNew'
  <2>1. Asked' \subseteq Asked /\ \A j \in Asked' : j # i
    BY <1>1 DEF Asked, OnceInv, AskedNew
  <2>2. \A j \in Asked' : j.post # i.post
    BY <2>1 DEF Asked, OnceInv, AskedNew
  <2>3. \A j \in Asked', k \in Live' \union Stored' : j.post # k.post
    BY <1>1, <1>2, <2>1, <2>2 DEF OnceInv, AskedNew
  <2> QED BY <1>1, <2>1, <2>3 DEF OnceInv, AskedNew
<1>6. CheckedNew'
  <2> SUFFICES ASSUME NEW j \in checked', j.for \notin overtaken'
               PROVE  /\ Hash(j) \notin Hashes(Items(pool'))
                      /\ Amount(j) > 0 => Hash(j) \notin Hashes(Stored')
    BY DEF CheckedNew
  <2>1. j \in checked /\ j # i /\ j.for \notin overtaken /\ j.for # i.for
    BY <1>1
  <2>2. /\ Hash(j) \notin Hashes(Items(pool))
        /\ Amount(j) > 0 => Hash(j) \notin Hashes(Stored)
    BY <2>1 DEF OnceInv, CheckedNew
  <2>3. Hash(j) # Hash(i)
    <3>1. j \in Item
      BY <2>1 DEF TypeOK, Posted
    <3> QED BY <1>1, <2>1, <3>1, HashTells
  <2> QED BY <1>1, <1>2, <2>2, <2>3 DEF Hashes
<1>7. Different'
  <2>1. CASE pool' = pool
    BY <1>1, <2>1 DEF OnceInv, Different, DifferentEntries, DifferentItems
  <2>2. CASE pool' # pool
    <3>1. /\ DOMAIN pool' = DOMAIN pool \union {Len(pool) + 1}
          /\ pool'[Len(pool) + 1].item = i
          /\ \A k \in DOMAIN pool : pool'[k] = pool[k]
          /\ Hash(i) \notin Hashes(Items(pool))
      BY <2>2, AddsLast
    <3>2. \A k \in DOMAIN pool : Hash(pool[k].item) # Hash(i)
      BY <3>1 DEF Hashes, Items
    <3>3. DifferentEntries(pool')
      BY <3>1, <3>2 DEF OnceInv, Different, DifferentEntries
    <3> QED BY <1>1, <3>3 DEF OnceInv, Different, DifferentEntries, DifferentItems
  <2> QED BY <2>1, <2>2
<1>8. LiveIsNew'
  <2>1. owed' \intersect (Items(pool') \union ToSet(batch)) = {}
    <3>1. i \notin owed
      BY <1>1 DEF Live
    <3>2. \A f \in new : f \notin Items(pool) /\ f \notin ToSet(batch) /\ f # i
      BY <1>1 DEF Live
    <3> QED BY <1>1, <3>1, <3>2 DEF OnceInv, LiveIsNew
  <2>2. Live' \intersect Stored = {}
    BY <1>1 DEF OnceInv, LiveIsNew
  <2> QED BY <1>2, <2>1, <2>2 DEF LiveIsNew
<1>9. NotStoredYet'
  <2> SUFFICES ASSUME NEW j \in Items(pool') \union ToSet(batch), Amount(j) > 0, Sole(j)'
               PROVE  Hash(j) \notin Hashes(Stored)
    BY <1>2 DEF NotStoredYet
  <2>1. Sole(j)
    BY <1>1 DEF Sole
  <2>2. CASE j = i
    BY <1>1, <2>1, <2>2 DEF OnceInv, CheckedNew, Sole
  <2>3. CASE j # i
    BY <1>1, <2>1, <2>3 DEF OnceInv, NotStoredYet
  <2> QED BY <2>2, <2>3
<1> QED
  BY <1>2, <1>4, <1>5, <1>6, <1>7, <1>8, <1>9 DEF OnceInv

\* A fee enters the mempool once.
LEMMA OnceQueue ==
    ASSUME TypeOK, OnceInv, NEW f \in owed, QueueFee(f)
    PROVE  OnceInv'
<1> DEFINE e == [item |-> f, age |-> 0]
<1>0. e.item = f
  OBVIOUS
<1>1. /\ f \in Item /\ owed' = owed \ {f}
      /\ pool' = Append(pool, e) /\ e \in Pending
      /\ Items(pool') = Items(pool) \union {f}
      /\ Live' = Live
      /\ UNCHANGED <<stamp, batch, chain, balance, overdrawn, requests>>
  BY QueueMoves
<1> HIDE DEF e
<1>2. Stored' = Stored /\ AllStored' /\ StoredOnce' /\ ToSet(batch') = ToSet(batch)
  BY <1>1, StoredSame DEF OnceInv, requests
<1>3. f.kind # "tx" /\ f \notin Items(pool) /\ f \notin ToSet(batch) /\ f \notin Stored
  BY DEF OnceInv, Numbered, LiveIsNew, Live
<1>4. Numbered'
  <2>1. IsFiniteSet(owed')
    BY <1>1, FS_RemoveElement DEF OnceInv, Numbered
  <2>2. \A j : IsFee(j)' <=> IsFee(j)
    BY DEF IsFee
  <2> QED BY <1>1, <1>2, <2>1, <2>2 DEF OnceInv, Numbered, requests
<1>5. Items(pool) \subseteq Item /\ Stored \subseteq Item
  BY ItemsAre, StoredIs DEF TypeOK
<1>6. \A j \in Items(pool) \union Stored : Hash(j) # Hash(f)
  BY <1>1, <1>3, <1>5, HashTells
<1>7. Different'
  <2>1. /\ DOMAIN pool' = DOMAIN pool \union {Len(pool) + 1}
        /\ pool'[Len(pool) + 1] = e
        /\ \A k \in DOMAIN pool : pool'[k] = pool[k]
    BY <1>1, AppendItems DEF TypeOK
  <2>2. \A k \in DOMAIN pool : Hash(pool[k].item) # Hash(f)
    BY <1>6 DEF Items
  <2>3. DifferentEntries(pool')
    BY <1>0, <2>1, <2>2 DEF OnceInv, Different, DifferentEntries
  <2> QED BY <1>1, <2>3 DEF OnceInv, Different, DifferentEntries, DifferentItems
<1>8. LiveIsNew'
  BY <1>1, <1>2 DEF OnceInv, LiveIsNew
<1>9. NotStoredYet'
  <2>1. Hash(f) \notin Hashes(Stored)
    BY <1>6 DEF Hashes
  <2> QED BY <1>1, <1>2, <2>1 DEF OnceInv, NotStoredYet, Sole, requests
<1>10. AskedNew'
  BY <1>1, <1>2, AskedStays DEF requests
<1>11. CheckedNew'
  BY <1>1, <1>2, <1>3, <1>5, CheckedStays DEF requests
<1> QED
  BY <1>2, <1>4, <1>7, <1>8, <1>9, <1>10, <1>11 DEF OnceInv

\* Dropping what has expired, with or without drawing a batch.
LEMMA OnceDrop ==
    ASSUME TypeOK, OnceInv, NEW K, pool' = Kept(pool, K),
           UNCHANGED <<owed, chain, requests>>,
           ToSet(batch') \subseteq Items(pool) \union ToSet(batch), DifferentItems(batch')
    PROVE  OnceInv'
<1>1. Items(pool') \subseteq Items(pool) /\ DifferentEntries(pool')
  BY KeptItems DEF TypeOK, OnceInv, Different
<1>2. Stored' = Stored /\ AllStored' /\ StoredOnce'
  BY StoredSame DEF OnceInv, requests
<1>3. Live' \subseteq Live
  BY <1>1 DEF Live
<1>4. Numbered'
  <2>1. \A j : IsFee(j)' <=> IsFee(j)
    BY DEF IsFee
  <2> QED BY <1>2, <1>3, <2>1 DEF OnceInv, Numbered, requests
<1>5. Different'
  BY <1>1 DEF Different, DifferentEntries, DifferentItems
<1>6. LiveIsNew'
  BY <1>1, <1>2, <1>3 DEF OnceInv, LiveIsNew
<1>7. NotStoredYet'
  BY <1>1, <1>2 DEF OnceInv, NotStoredYet, Sole, requests
<1>8. AskedNew' /\ CheckedNew'
  <2>1. Items(pool') \subseteq Item
    BY <1>1, ItemsAre DEF TypeOK
  <2> QED BY <1>1, <1>2, <1>3, <2>1, AskedStays, CheckedStays DEF requests
<1> QED
  BY <1>2, <1>4, <1>5, <1>6, <1>7, <1>8 DEF OnceInv

\* No item, and no two of them.
LEMMA NoItems == ToSet(<<>>) = {} /\ DifferentItems(<<>>) /\ Items(<<>>) = {}
                 /\ DifferentEntries(<<>>)
<1>1. DOMAIN <<>> = {}
  OBVIOUS
<1> QED
  BY <1>1 DEF ToSet, DifferentItems, Items, DifferentEntries

\* A stored block leaves the mempool with none of its hashes.
LEMMA OnceStores ==
    ASSUME TypeOK, OnceInv, Stores
    PROVE  OnceInv'
<1> DEFINE K == {k \in DOMAIN pool : Hash(pool[k].item) \notin Hashes(ToSet(batch))}
           all == FlattenSeq(chain)
<1>1. /\ Stored' = Stored \union ToSet(batch)
      /\ FlattenSeq(chain') = all \o batch
      /\ pool' = Kept(pool, K)
      /\ batch' = <<>> /\ ToSet(batch') = {}
      /\ overtaken \subseteq overtaken'
      /\ \A j \in checked : Hash(j) \in Hashes(ToSet(batch)) => j.for \in overtaken'
      /\ UNCHANGED <<owed, stamp, posts, covered, checked>>
  BY StoredMore
<1>2. /\ Items(pool') = {pool[k].item : k \in K \intersect DOMAIN pool}
      /\ Items(pool') \subseteq Items(pool) /\ DifferentEntries(pool')
  <2> HIDE DEF K
  <2> QED BY <1>1, KeptItems DEF TypeOK, OnceInv, Different
<1>3. \A j \in Items(pool') : Hash(j) \notin Hashes(ToSet(batch))
  BY <1>2
<1> HIDE DEF K
<1>4. /\ ToSet(batch) \subseteq Item /\ Stored \subseteq Item /\ Items(pool) \subseteq Item
      /\ batch \in Seq(Item)
  BY BatchIs, StoredIs, ItemsAre DEF TypeOK
<1>5. Numbered'
  <2>1. \A j : IsFee(j)' <=> IsFee(j)
    BY DEF IsFee
  <2>2. Live' \union Stored' \subseteq Live \union Stored
    BY <1>1, <1>2 DEF Live
  <2> QED BY <1>1, <2>1, <2>2 DEF OnceInv, Numbered
<1>6. Different'
  BY <1>1, <1>2, NoItems DEF Different, DifferentEntries, DifferentItems
<1>7. LiveIsNew'
  <2>1. Live' \subseteq Live
    BY <1>1, <1>2 DEF Live
  <2>2. \A j \in Live' : j \notin ToSet(batch)
    <3>1. \A j \in Items(pool') : j \notin ToSet(batch)
      BY <1>3 DEF Hashes
    <3>2. owed \intersect ToSet(batch) = {}
      BY DEF OnceInv, LiveIsNew
    <3> QED BY <1>1, <3>1, <3>2 DEF Live
  <2> QED BY <1>1, <1>2, <2>1, <2>2 DEF OnceInv, LiveIsNew
<1>8. NotStoredYet'
  <2>1. \A j \in Items(pool') : Amount(j) > 0 /\ Sole(j)' => Hash(j) \notin Hashes(Stored)
    BY <1>1, <1>2 DEF OnceInv, NotStoredYet, Sole
  <2>2. Hashes(Stored') = Hashes(Stored) \union Hashes(ToSet(batch))
    BY <1>1 DEF Hashes
  <2> QED BY <1>1, <1>3, <2>1, <2>2 DEF NotStoredYet
<1>9. all \in Seq(Item) /\ ToSet(all) = Stored
  BY DEF OnceInv, AllStored
<1> DEFINE more == all \o batch
<1>10. /\ more \in Seq(Item)
       /\ DOMAIN all = 1..Len(all) /\ DOMAIN batch = 1..Len(batch)
       /\ DOMAIN more = 1..(Len(all) + Len(batch))
       /\ Len(all) \in Nat /\ Len(batch) \in Nat
       /\ \A k \in DOMAIN more : more[k] = IF k <= Len(all) THEN all[k] ELSE batch[k - Len(all)]
  <2> HIDE DEF all
  <2>1. /\ more \in Seq(Item) /\ Len(more) = Len(all) + Len(batch)
        /\ \A k \in 1..(Len(all) + Len(batch)) :
             more[k] = IF k <= Len(all) THEN all[k] ELSE batch[k - Len(all)]
    BY <1>4, <1>9, ConcatProperties
  <2> HIDE DEF more
  <2> QED BY <2>1, <1>4, <1>9, LenProperties
<1> HIDE DEF all, more
<1> DEFINE l == Len(all)
<1>11. \A k \in DOMAIN more :
         \/ k \in DOMAIN all /\ more[k] = all[k] /\ more[k] \in Stored
         \/ /\ k - l \in DOMAIN batch /\ more[k] = batch[k - l]
            /\ more[k] \in ToSet(batch) /\ k \in Int
  <2> TAKE k \in DOMAIN more
  <2>1. CASE k <= l
    <3>1. k \in DOMAIN all /\ more[k] = all[k]
      BY <1>10, <2>1
    <3>2. more[k] \in Stored
      BY <1>9, <3>1 DEF ToSet
    <3> QED BY <3>1, <3>2
  <2>2. CASE ~(k <= l)
    <3>1. k - l \in DOMAIN batch /\ more[k] = batch[k - l] /\ k \in Int
      BY <1>10, <2>2
    <3> HIDE DEF l
    <3>2. more[k] \in ToSet(batch)
      BY <3>1 DEF ToSet
    <3> QED BY <3>1, <3>2
  <2> QED BY <2>1, <2>2
<1>12. AllStored'
  <2>1. \A j \in ToSet(more) : j \in Stored \union ToSet(batch)
    BY <1>11 DEF ToSet
  <2>2. \A k \in DOMAIN all : k \in DOMAIN more /\ more[k] = all[k]
    BY <1>10
  <2>3. \A k \in DOMAIN batch : k + l \in DOMAIN more /\ more[k + l] = batch[k]
    BY <1>10
  <2>4. ToSet(all) \subseteq ToSet(more)
    BY <2>2 DEF ToSet
  <2>5. ToSet(batch) \subseteq ToSet(more)
    <3> HIDE DEF l
    <3> QED BY <2>3 DEF ToSet
  <2>6. ToSet(more) = Stored'
    BY <1>1, <1>9, <2>1, <2>4, <2>5
  <2> QED BY <1>1, <1>10, <2>6 DEF AllStored, more
<1>13. StoredOnce'
  <2>1. ASSUME NEW k \in DOMAIN more, NEW m \in DOMAIN more,
               Amount(more[k]) > 0, Hash(more[k]) = Hash(more[m]),
               more[k].kind = "tx" => more[k].for \notin overtaken'
        PROVE  k = m
    <3>1. more[k] \in Item /\ more[m] \in Item
      BY <1>4, <1>11
    <3>2. Amount(more[m]) > 0 /\ Sole(more[k]) /\ Sole(more[m])
      BY <1>1, <2>1, <3>1, HashTells DEF Sole
    <3>3. ASSUME NEW x \in Stored, NEW y \in ToSet(batch), Amount(y) > 0, Sole(y)
          PROVE  Hash(x) # Hash(y)
      BY <3>3 DEF OnceInv, NotStoredYet, Hashes
    <3>4. CASE more[k] \in Stored /\ k \in DOMAIN all /\ more[k] = all[k]
      <4>1. more[m] \notin ToSet(batch)
        BY <2>1, <3>2, <3>3, <3>4
      <4>2. m \in DOMAIN all /\ more[m] = all[m]
        BY <1>11, <4>1
      <4>3. StoredOnce
        BY DEF OnceInv
      <4> QED BY <2>1, <3>2, <3>4, <4>2, <4>3 DEF StoredOnce, Sole, all
    <3>5. CASE k - l \in DOMAIN batch /\ more[k] = batch[k - l] /\ more[k] \in ToSet(batch)
               /\ k \in Int
      <4>1. more[m] \notin Stored
        BY <2>1, <3>2, <3>3, <3>5
      <4>2. m - l \in DOMAIN batch /\ more[m] = batch[m - l] /\ m \in Int
        BY <1>11, <4>1
      <4>3. k - l = m - l
        BY <2>1, <3>5, <4>2 DEF OnceInv, Different, DifferentItems
      <4>4. l \in Int
        BY <1>10
      <4> HIDE DEF l
      <4> QED BY <3>5, <4>2, <4>3, <4>4
    <3> QED BY <1>11, <3>4, <3>5
  <2>2. FlattenSeq(chain') = more
    BY <1>1 DEF more
  <2> QED BY <2>1, <2>2 DEF StoredOnce
<1>14. AskedNew'
  <2>1. Live' \union Stored' \subseteq Live \union Stored
    BY <1>1, <1>2 DEF Live
  <2> QED BY <1>1, <2>1, AskedStays
<1>15. CheckedNew'
  <2> SUFFICES ASSUME NEW j \in checked, j.for \notin overtaken'
               PROVE  /\ Hash(j) \notin Hashes(Items(pool'))
                      /\ Amount(j) > 0 => Hash(j) \notin Hashes(Stored')
    BY <1>1 DEF CheckedNew
  <2>1. Hash(j) \notin Hashes(ToSet(batch))
    BY <1>1
  <2>2. /\ Hash(j) \notin Hashes(Items(pool))
        /\ Amount(j) > 0 => Hash(j) \notin Hashes(Stored)
    BY <1>1 DEF OnceInv, CheckedNew
  <2> QED BY <1>1, <1>2, <2>1, <2>2 DEF Hashes
<1> QED
  BY <1>5, <1>6, <1>7, <1>8, <1>12, <1>13, <1>14, <1>15 DEF OnceInv

\* The same with fewer pending, and nothing stored.
LEMMA OnceFewer ==
    ASSUME TypeOK, OnceInv, Items(pool') \subseteq Items(pool), owed' \subseteq owed,
           ToSet(batch') \subseteq ToSet(batch), DifferentEntries(pool'), DifferentItems(batch'),
           IsFiniteSet(owed'), covered' \subseteq covered, checked' \subseteq checked,
           UNCHANGED <<chain, posts, overtaken>>
    PROVE  OnceInv'
<1>1. Stored' = Stored /\ AllStored' /\ StoredOnce'
  BY StoredSame DEF OnceInv
<1>2. Live' \subseteq Live
  BY DEF Live
<1>3. \A j : IsFee(j)' <=> IsFee(j)
  BY DEF IsFee
<1>4. Numbered'
  BY <1>1, <1>2, <1>3 DEF OnceInv, Numbered
<1>5. Different' /\ LiveIsNew' /\ NotStoredYet'
  BY <1>1, <1>2 DEF OnceInv, Different, DifferentEntries, DifferentItems, LiveIsNew, NotStoredYet,
                    Sole
<1>6. AskedNew' /\ CheckedNew'
  <2>1. Items(pool') \subseteq Item
    BY ItemsAre DEF TypeOK
  <2> QED BY <1>1, <1>2, <2>1, AskedStays, CheckedStays
<1> QED
  BY <1>1, <1>4, <1>5, <1>6 DEF OnceInv

\* Every step keeps it.
LEMMA OnceStep == TypeOK /\ OnceInv /\ [Next]_vars => OnceInv'
<1> SUFFICES ASSUME TypeOK, OnceInv, [Next]_vars PROVE OnceInv'
  OBVIOUS
<1>1. CASE \E t \in Tx : \E a \in Int : Requests(t, a)
  BY <1>1, OnceRequest
<1>2. CASE \E i \in covered : Passes(i)
  BY <1>2, OncePasses
<1>3. CASE \E i \in checked : Add(i)
  BY <1>3, OnceAdd
<1>4. CASE \E f \in owed : QueueFee(f)
  BY <1>4, OnceQueue
<1>5. CASE View
  <2> DEFINE K == {k \in DOMAIN pool : pool[k].age <= MaxAge}
  <2>1. pool' = Kept(pool, K) /\ UNCHANGED <<owed, chain, requests, batch>>
    BY <1>5 DEF View, Fresh
  <2>2. DifferentItems(batch') /\ ToSet(batch') = ToSet(batch)
    BY <2>1 DEF OnceInv, Different
  <2> HIDE DEF K
  <2> QED BY <2>1, <2>2, OnceDrop
<1>6. CASE Draw
  <2> DEFINE K == {k \in DOMAIN pool : pool[k].age <= MaxAge}
  <2>1. pool' = Kept(pool, K) /\ UNCHANGED <<owed, chain, requests>> /\ batch' = Oldest(pool')
    BY <1>6 DEF Draw, Fresh
  <2> HIDE DEF K
  <2>2. pool' \in Seq(Pending) /\ DifferentEntries(pool') /\ Items(pool') \subseteq Items(pool)
    BY <2>1, KeptItems DEF TypeOK, OnceInv, Different
  <2>3. ToSet(batch') \subseteq Items(pool') /\ DifferentItems(batch')
    BY <2>1, <2>2, DrawnItems
  <2> QED BY <2>1, <2>2, <2>3, OnceDrop
<1>7. CASE Stores
  BY <1>7, OnceStores
<1>8. CASE Refuses \/ Crash
  <2>1. /\ (pool' = pool /\ owed' = owed) \/ (pool' = <<>> /\ owed' = {})
        /\ covered' \subseteq covered /\ checked' \subseteq checked
        /\ batch' = <<>> /\ UNCHANGED <<chain, posts, overtaken>>
    <3>1. CASE Refuses
      BY <3>1 DEF Refuses, requests
    <3>2. CASE Crash
      BY <3>2 DEF Crash
    <3> QED BY <1>8, <3>1, <3>2
  <2>2. ToSet(batch') = {} /\ Items(pool') \subseteq Items(pool) /\ owed' \subseteq owed
    BY <2>1, NoItems
  <2>3. DifferentItems(batch') /\ DifferentEntries(pool')
    BY <2>1, NoItems DEF OnceInv, Different
  <2>4. IsFiniteSet(owed')
    BY <2>1, FS_EmptySet DEF OnceInv, Numbered
  <2> QED BY <2>1, <2>2, <2>3, <2>4, OnceFewer
<1>9. CASE Tick
  <2>1. /\ Items(pool') = Items(pool) /\ Live' = Live
        /\ UNCHANGED <<owed, batch, chain, requests>>
    BY <1>9, TickItems
  <2>2. DifferentItems(batch') /\ DifferentEntries(pool')
    BY <1>9, <2>1, TickPool DEF OnceInv, Different, DifferentEntries
  <2>3. ToSet(batch') = ToSet(batch) /\ IsFiniteSet(owed')
    BY <2>1 DEF OnceInv, Numbered
  <2> QED BY <2>1, <2>2, <2>3, OnceFewer DEF requests
<1>10. CASE Idles
  <2>1. /\ UNCHANGED <<pool, owed, batch, chain, posts, overtaken>>
        /\ covered' \subseteq covered /\ checked' \subseteq checked
    BY <1>10 DEF Idles
  <2>2. DifferentItems(batch') /\ DifferentEntries(pool') /\ IsFiniteSet(owed')
        /\ ToSet(batch') = ToSet(batch) /\ Items(pool') = Items(pool)
    BY <2>1 DEF OnceInv, Different, Numbered
  <2> QED BY <2>1, <2>2, OnceFewer
<1> QED
  BY <1>1, <1>2, <1>3, <1>4, <1>5, <1>6, <1>7, <1>8, <1>9, <1>10, StepKinds DEF Steps

\* Nothing is pending or stored at the start.
LEMMA OnceInit == Init => OnceInv
<1> SUFFICES ASSUME Init PROVE OnceInv
  OBVIOUS
<1>1. covered = {} /\ checked = {} /\ pool = <<>> /\ owed = {} /\ batch = <<>> /\ chain = <<>>
  BY DEF Init
<1>2. FlattenSeq(chain) = <<>>
  BY <1>1 DEF FlattenSeq
<1>3. Items(pool) = {} /\ ToSet(batch) = {} /\ ToSet(FlattenSeq(chain)) = {}
      /\ DifferentEntries(pool) /\ DifferentItems(batch)
  BY <1>1, <1>2, NoItems
<1>4. Stored = {} /\ DOMAIN FlattenSeq(chain) = {}
  BY <1>1, <1>2 DEF Stored
<1>5. Numbered
  BY <1>1, <1>3, <1>4, FS_EmptySet DEF Numbered, Live
<1>6. AllStored /\ StoredOnce
  BY <1>2, <1>3, <1>4, EmptySeq DEF AllStored, StoredOnce
<1> QED
  BY <1>1, <1>3, <1>4, <1>5, <1>6 DEF OnceInv, Different, LiveIsNew, NotStoredYet,
                                             AskedNew, CheckedNew, Asked, Live

LEMMA OnceAlways == Spec => [](TypeOK /\ OnceInv)
<1>1. Init => TypeOK /\ OnceInv
  BY TypeInit, OnceInit
<1>2. TypeOK /\ OnceInv /\ [Next]_vars => (TypeOK /\ OnceInv)'
  BY TypeStep, OnceStep
<1> QED
  BY <1>1, <1>2, PTL DEF Spec

\* Whatever is retried, expires, is viewed or restarted in between, and whatever the
\* limits, a node that mines alone stores what moves money once (add_transaction, add_block),
\* unless another request or a block overtook a request between its check and its add.
THEOREM StoredAtMostOnce == Spec => []StoredOnce
<1>1. TypeOK /\ OnceInv => StoredOnce
  BY DEF OnceInv
<1> QED
  BY <1>1, OnceAlways, PTL

-----------------------------------------------------------------------------
(* Each transaction with its fees                                          *)

\* Leaving entries out leaves the fees behind.
LEMMA KeptBehind ==
    ASSUME NEW p \in Seq(Pending), Behind(p), NEW K
    PROVE  Behind(Kept(p, K))
<1> DEFINE q == Kept(p, K)
<1>1. q \in Seq(Pending) /\ \E h : Embeds(h, q, p, K)
  BY KeptIs
<1> HIDE DEF q
<1>2. PICK h : Embeds(h, q, p, K)
  BY <1>1
<1>3. DOMAIN p = 1..Len(p) /\ DOMAIN q = 1..Len(q) /\ Len(q) \in Nat /\ Len(p) \in Nat
  BY <1>1, LenProperties
<1>4. /\ \A j \in DOMAIN q : h[j] \in DOMAIN p /\ q[j] = p[h[j]]
      /\ \A i, j \in DOMAIN q : i < j => h[i] < h[j]
  BY <1>2, <1>3 DEF Embeds
<1>5. ASSUME NEW k \in DOMAIN q, NEW m \in DOMAIN q, q[k].item.kind = "tx",
             q[k].item.for \notin ahead, q[m].item \in Fees(q[k].item.for, q[k].item.post)
      PROVE  k < m /\ q[m].age <= q[k].age
  <2>1. h[k] < h[m] /\ q[m].age <= q[k].age
    BY <1>4, <1>5 DEF Behind
  <2>2. k \in Int /\ m \in Int /\ h[k] \in Int /\ h[m] \in Int
    BY <1>3, <1>4
  <2>3. ~(m < k) /\ m # k
    BY <1>4, <2>1, <2>2
  <2> QED BY <2>1, <2>2, <2>3
<1>6. ASSUME NEW k \in DOMAIN q, q[k].item.kind = "tx", q[k].item.for \notin ahead
      PROVE  q[k].age >= 0
  BY <1>4, <1>6 DEF Behind
<1>7. Behind(q)
  BY <1>5, <1>6 DEF Behind
<1> QED
  BY <1>7 DEF q

\* A batch that has a fee of what is pending has the transaction before it.
LEMMA DrawnBehind ==
    ASSUME NEW p \in Seq(Pending), Behind(p), NEW i \in Items(p), i.kind = "tx", i.for \notin ahead,
           NEW f \in Fees(i.for, i.post), f \in ToSet(Oldest(p))
    PROVE  i \in ToSet(Oldest(p))
<1> DEFINE b == Oldest(p)
<1>1. b \in Seq(Item) /\ \E at : Draws(at, b, p)
  BY OldestIs
<1>2. f \in ToSet(b)
  OBVIOUS
<1> HIDE DEF b
<1>3. PICK at : Draws(at, b, p)
  BY <1>1
<1>4. PICK n \in DOMAIN b : f = b[n]
  BY <1>2 DEF ToSet
<1>5. PICK k \in DOMAIN p : i = p[k].item
  BY DEF Items
<1>6. at[n] \in DOMAIN p /\ f = p[at[n]].item
  BY <1>3, <1>4 DEF Draws
<1>7. k < at[n] /\ p[at[n]].age <= p[k].age
  BY <1>5, <1>6 DEF Behind
<1>8. Before(p, k, at[n])
  <2>1. p[k].age \in Int /\ p[at[n]].age \in Int
    BY <1>5, <1>6, ItemsAre
  <2> QED BY <1>7, <2>1 DEF Before
<1>9. PICK m \in DOMAIN b : at[m] = k
  BY <1>3, <1>4, <1>5, <1>8 DEF Draws
<1>10. b[m] = i
  BY <1>3, <1>5, <1>9 DEF Draws
<1> QED
  BY <1>9, <1>10 DEF ToSet, b

\* What expires takes no fee before its transaction.
LEMMA FreshFees ==
    ASSUME TypeOK, FeesInv, NEW i \in Items(Fresh(pool)), i.kind = "tx", i.for \notin ahead
    PROVE  Fees(i.for, i.post) \subseteq Items(Fresh(pool)) \union owed
<1> DEFINE K == {k \in DOMAIN pool : pool[k].age <= MaxAge}
<1>1. Items(Fresh(pool)) = {pool[k].item : k \in K \intersect DOMAIN pool}
  <2> HIDE DEF K
  <2>1. Fresh(pool) = Kept(pool, K)
    BY DEF Fresh, K
  <2> QED BY <2>1, KeptItems DEF TypeOK
<1>2. PICK k \in DOMAIN pool : pool[k].age <= MaxAge /\ i = pool[k].item
  BY <1>1
<1>3. ASSUME NEW f \in Fees(i.for, i.post), f \notin owed PROVE f \in Items(Fresh(pool))
  <2>1. f \in Items(pool)
    BY <1>2, <1>3 DEF FeesInv, FeesWithTx, Items
  <2>2. PICK m \in DOMAIN pool : f = pool[m].item
    BY <2>1 DEF Items
  <2>3. pool[m].age <= pool[k].age
    BY <1>2, <1>3, <2>2 DEF FeesInv, Behind
  <2>4. pool[m].age \in Int /\ pool[k].age \in Int /\ MaxAge \in Int
    <3>1. pool \in Seq(Pending)
      BY DEF TypeOK
    <3>2. pool[m].age \in Int /\ pool[k].age \in Int
      BY <3>1, ItemsAre
    <3>3. MaxAge \in Nat
      BY FeePoolAssumption
    <3> QED BY <3>2, <3>3
  <2>5. m \in K
    BY <1>2, <2>3, <2>4
  <2> QED BY <1>1, <2>2, <2>5
<1> QED
  BY <1>3

\* Adding a transaction, its fees are still to come.
LEMMA FeesAdd ==
    ASSUME TypeOK, OnceInv, FeesInv, NEW i \in checked, Add(i)
    PROVE  FeesInv'
<1> DEFINE new == Fees(i.for, i.post)
<1>1. /\ i \in Item /\ i.kind = "tx"
      /\ Items(pool') \subseteq Items(pool) \union {i} /\ Items(pool) \subseteq Items(pool')
      /\ owed' = owed \union new
      /\ \A f \in new : f \notin Live \union Stored /\ f # i
      /\ ahead \subseteq ahead' /\ ToSet(batch') = ToSet(batch)
  BY AddMoves
<1> HIDE DEF new
<1>2. FeesWithTx'
  BY <1>1 DEF FeesInv, FeesWithTx, new
<1>3. CutBehind'
  <2> SUFFICES ASSUME NEW j \in Items(pool'), j.kind = "tx", j.for \notin ahead',
                      Fees(j.for, j.post) \intersect ToSet(batch) # {}
               PROVE  Hash(j) \in Hashes(ToSet(batch))
    BY <1>1 DEF CutBehind
  <2>1. j # i
    BY <1>1 DEF new, Live
  <2> QED BY <1>1, <2>1 DEF FeesInv, CutBehind
<1>4. Behind(pool)'
  <2>1. CASE pool' = pool
    BY <1>1, <2>1 DEF FeesInv, Behind
  <2>2. CASE pool' # pool
    <3> DEFINE n == Len(pool) + 1
    <3>1. /\ DOMAIN pool' = DOMAIN pool \union {n}
          /\ pool'[n].item = i /\ pool'[n].age = stamp[i.for] /\ stamp[i.for] \in Int
          /\ \A k \in DOMAIN pool : pool'[k] = pool[k]
      BY <2>2, AddsLast
    <3> HIDE DEF n
    <3>2. i.for \notin ahead' => pool'[n].age >= 0
      BY <3>1 DEF Add
    <3>3. \A m \in DOMAIN pool : pool[m].item \notin new
      BY <1>1 DEF Live, Items
    <3>4. \A t, p : i \notin Fees(t, p)
      <4>1. \A t, p : \A f \in Fees(t, p) : f.kind \in Part
        BY DEF Fees
      <4> QED BY <1>1, <4>1 DEF Part
    <3> SUFFICES ASSUME NEW k \in DOMAIN pool', pool'[k].item.kind = "tx",
                        pool'[k].item.for \notin ahead'
                 PROVE  /\ pool'[k].age >= 0
                        /\ \A m \in DOMAIN pool' :
                             pool'[m].item \in Fees(pool'[k].item.for, pool'[k].item.post)
                             => k < m /\ pool'[m].age <= pool'[k].age
      BY DEF Behind
    <3>5. CASE k = n
      BY <3>1, <3>2, <3>3, <3>4, <3>5 DEF new
    <3>6. CASE k \in DOMAIN pool
      <4>1. pool[k].item.kind = "tx" /\ pool[k].item.for \notin ahead
        BY <1>1, <3>1, <3>6
      <4>2. /\ pool[k].age >= 0
            /\ \A m \in DOMAIN pool :
                 pool[m].item \in Fees(pool[k].item.for, pool[k].item.post)
                 => k < m /\ pool[m].age <= pool[k].age
        BY <3>6, <4>1 DEF FeesInv, Behind
      <4> QED BY <3>1, <3>4, <3>6, <4>2
    <3> QED BY <3>1, <3>5, <3>6
  <2> QED BY <2>1, <2>2
<1> QED
  BY <1>2, <1>3, <1>4 DEF FeesInv

\* Every step keeps the fees with their transaction.
LEMMA FeesStep == TypeOK /\ OnceInv /\ FeesInv /\ [Next]_vars => FeesInv'
<1> SUFFICES ASSUME TypeOK, OnceInv, FeesInv, [Next]_vars PROVE FeesInv'
  OBVIOUS
<1>1. \A k \in DOMAIN pool : pool[k].item \in Item /\ pool[k].item \in Items(pool)
                             /\ pool[k].age \in Int
  BY ItemsAre DEF TypeOK, Items
<1>2. ahead' = ahead /\ Behind(pool') => Behind(pool)'
  BY DEF Behind
<1>3. ASSUME UNCHANGED <<pool, owed, ahead>>, ToSet(batch') \in {{}, ToSet(batch)} PROVE FeesInv'
  BY <1>3 DEF FeesInv, Behind, CutBehind, FeesWithTx
<1>4. ASSUME NEW f \in owed, QueueFee(f) PROVE FeesInv'
  <2> DEFINE e == [item |-> f, age |-> 0]
  <2>0. e.item = f /\ e.age = 0
    OBVIOUS
  <2>1. /\ f.kind # "tx" /\ owed' = owed \ {f}
        /\ pool' = Append(pool, e) /\ e \in Pending
        /\ Items(pool') = Items(pool) \union {f}
        /\ ToSet(batch') = ToSet(batch) /\ ahead' = ahead
    BY <1>4, QueueMoves DEF OnceInv, Numbered, requests
  <2> HIDE DEF e
  <2>2. FeesWithTx'
    BY <2>1 DEF FeesInv, FeesWithTx
  <2>3. CutBehind'
    BY <2>1 DEF FeesInv, CutBehind
  <2>4. /\ DOMAIN pool' = DOMAIN pool \union {Len(pool) + 1}
        /\ pool'[Len(pool) + 1] = e
        /\ \A k \in DOMAIN pool : pool'[k] = pool[k] /\ k < Len(pool) + 1
    BY <2>1, AppendItems DEF TypeOK
  <2>5. Behind(pool')
    BY <1>1, <2>0, <2>1, <2>4 DEF FeesInv, Behind
  <2> QED BY <1>2, <2>1, <2>2, <2>3, <2>5 DEF FeesInv
<1>5. ASSUME pool' = Fresh(pool), UNCHANGED <<owed, ahead>> PROVE Behind(pool') /\ FeesWithTx'
  <2>1. Behind(pool')
    BY <1>5, KeptBehind DEF TypeOK, FeesInv, Fresh
  <2>2. FeesWithTx'
    BY <1>5, FreshFees DEF FeesWithTx
  <2> QED BY <2>1, <2>2
<1>6. CASE View
  <2>1. pool' = Fresh(pool) /\ UNCHANGED <<owed, batch, ahead>>
    BY <1>6 DEF View, requests
  <2>2. Items(pool') \subseteq Items(pool) /\ ToSet(batch') = ToSet(batch)
    BY <2>1, KeptItems DEF TypeOK, Fresh
  <2>3. CutBehind'
    BY <2>1, <2>2 DEF FeesInv, CutBehind
  <2> QED BY <1>2, <1>5, <2>1, <2>3 DEF FeesInv
<1>7. CASE Draw
  <2>1. pool' = Fresh(pool) /\ UNCHANGED <<owed, ahead>> /\ batch' = Oldest(pool')
    BY <1>7 DEF Draw, requests
  <2>2. pool' \in Seq(Pending)
    BY <2>1, KeptItems DEF TypeOK, Fresh
  <2>3. Behind(pool')
    BY <1>5, <2>1
  <2>4. CutBehind'
    BY <2>1, <2>2, <2>3, DrawnBehind DEF CutBehind, Hashes
  <2> QED BY <1>2, <1>5, <2>1, <2>3, <2>4 DEF FeesInv
<1>8. CASE Stores
  <2> DEFINE K == {k \in DOMAIN pool : Hash(pool[k].item) \notin Hashes(ToSet(batch))}
  <2>1. pool' = Kept(pool, K) /\ ToSet(batch') = {} /\ UNCHANGED <<owed, ahead>>
    BY <1>8, StoredMore
  <2>2. Items(pool') = {pool[k].item : k \in K \intersect DOMAIN pool} /\ Behind(pool')
    <3> HIDE DEF K
    <3> QED BY <2>1, KeptItems, KeptBehind DEF TypeOK, FeesInv
  <2>3. CutBehind'
    BY <2>1 DEF CutBehind
  <2>4. ASSUME NEW i \in Items(pool'), i.kind = "tx", i.for \notin ahead,
               NEW f \in Fees(i.for, i.post), f \notin owed
        PROVE  f \in Items(pool')
    <3>1. i \in Items(pool) /\ Hash(i) \notin Hashes(ToSet(batch))
      BY <2>2 DEF Items
    <3>2. f \notin ToSet(batch)
      BY <2>4, <3>1 DEF FeesInv, CutBehind
    <3>3. f \in Items(pool)
      BY <2>4, <3>1 DEF FeesInv, FeesWithTx
    <3>4. PICK m \in DOMAIN pool : f = pool[m].item
      BY <3>3 DEF Items
    <3>5. f.kind # "tx" /\ f \in Item
      <4>1. f.kind \in Part
        BY DEF Fees
      <4> QED BY <1>1, <3>4, <4>1 DEF Part
    <3>6. \A j \in ToSet(batch) : Hash(j) # Hash(f)
      <4>1. ToSet(batch) \subseteq Item
        BY BatchIs DEF TypeOK
      <4> QED BY <3>2, <3>5, <4>1, HashTells
    <3>7. m \in K
      BY <3>4, <3>6 DEF Hashes
    <3> QED BY <2>2, <3>4, <3>7
  <2>5. FeesWithTx'
    BY <2>1, <2>4 DEF FeesWithTx
  <2> QED BY <1>2, <2>1, <2>2, <2>3, <2>5 DEF FeesInv
<1>9. CASE Tick
  <2>1. Items(pool') = Items(pool) /\ ToSet(batch') = ToSet(batch) /\ UNCHANGED <<owed, ahead>>
    BY <1>9, TickItems DEF requests
  <2>2. CutBehind' /\ FeesWithTx'
    BY <2>1 DEF FeesInv, CutBehind, FeesWithTx
  <2>3. /\ DOMAIN pool' = DOMAIN pool
        /\ \A k \in DOMAIN pool :
             pool'[k].item = pool[k].item /\ pool'[k].age = Older(pool[k].age, MaxAge + 1)
    BY <1>9, TickPool
  <2>4. /\ \A k, m \in DOMAIN pool :
             pool[m].age <= pool[k].age => pool'[m].age <= pool'[k].age
        /\ \A k \in DOMAIN pool : pool[k].age >= 0 => pool'[k].age >= 0
    BY <1>1, <2>3, AgesType
  <2>5. Behind(pool')
    BY <2>3, <2>4 DEF FeesInv, Behind
  <2> QED BY <1>2, <2>1, <2>2, <2>5 DEF FeesInv
<1>10. CASE Crash
  <2>1. pool' = <<>> /\ Items(pool') = {} /\ DOMAIN pool' = {}
    BY <1>10, NoItems DEF Crash
  <2> QED BY <2>1 DEF FeesInv, Behind, CutBehind, FeesWithTx
<1>11. ASSUME NEW t \in Tx, NEW a \in Int, Requests(t, a) PROVE FeesInv'
  BY <1>3, <1>11, RequestLeaves
<1>12. ASSUME NEW i \in covered, Passes(i) PROVE FeesInv'
  BY <1>3, <1>12 DEF Passes, Check
<1>13. ASSUME NEW i \in checked, Add(i) PROVE FeesInv'
  BY <1>13, FeesAdd
<1>14. CASE Refuses
  BY <1>3, <1>14, NoItems DEF Refuses, requests
<1>15. CASE Idles
  BY <1>3, <1>15 DEF Idles
<1> QED
  BY <1>4, <1>6, <1>7, <1>8, <1>9, <1>10, <1>11, <1>12, <1>13, <1>14, <1>15, StepKinds DEF Steps

LEMMA FeesAlways == Spec => [](TypeOK /\ OnceInv /\ FeesInv)
<1>1. Init => FeesInv
  <2> SUFFICES ASSUME Init PROVE FeesInv
    OBVIOUS
  <2>1. pool = <<>> /\ Items(pool) = {} /\ DOMAIN pool = {}
    BY NoItems DEF Init
  <2> QED BY <2>1 DEF FeesInv, Behind, CutBehind, FeesWithTx
<1>2. TypeOK /\ OnceInv /\ FeesInv /\ [Next]_vars => FeesInv'
  BY FeesStep
<1> QED
  BY <1>1, <1>2, OnceAlways, PTL DEF Spec

\* While a transaction is pending so are its fees, or they are about to be: neither the
\* cut of a batch, nor expiry, nor a stored block takes them first (get_pending,
\* _drop_expired, remove_batch), unless its stamp was ahead of the clock when it was added.
THEOREM FeesStayWithTx == Spec => []FeesWithTx
<1>1. FeesInv => FeesWithTx
  BY DEF FeesInv
<1> QED
  BY <1>1, FeesAlways, PTL

-----------------------------------------------------------------------------
(* Charged once                                                            *)

\* A pending transaction has the age of its stamp.
AgedAsStamped ==
    \A k \in DOMAIN pool :
        pool[k].item.kind = "tx" => pool[k].age = stamp[pool[k].item.for]

\* A transaction nobody has made is nowhere, and neither are its fees.
NothingUnmade == \A i \in Live \union Stored : stamp[i.for] # NotMade

\* t moves money, has not expired, was not added or stored behind the back of a request,
\* and was not ahead of the clock.
Current(t) ==
    /\ t \notin overtaken \union ahead
    /\ stamp[t] # NotMade /\ stamp[t] <= MaxAge /\ Shape[t].amount > 0

\* The fees of such a transaction are pending only while it is.
FeesHaveTx ==
    \A f \in Live : f.kind # "tx" /\ Current(f.for) =>
        \E i \in Items(pool) : i.kind = "tx" /\ i.for = f.for /\ i.post = f.post

ChargedInv == AgedAsStamped /\ NothingUnmade /\ FeesHaveTx /\ ChargedOnce

\* What is pending, or stored, is an item.
LEMMA LiveIs ==
    ASSUME TypeOK
    PROVE  /\ Live \subseteq Item /\ Stored \subseteq Item
           /\ Items(pool) \subseteq Live /\ ToSet(batch) \subseteq Live /\ owed \subseteq Live
BY ItemsAre, BatchIs, StoredIs DEF Live, TypeOK

\* ChargedOnce of one transaction.
Charged(t) ==
    Current(t) =>
        Cardinality(FeesOf(t, Stored)) =
            IF \E i \in Stored : i.kind = "tx" /\ i.for = t
              THEN (IF FeeTotal(t) > 0 THEN 2 ELSE 0) ELSE 0

LEMMA ChargedIs == ChargedOnce <=> \A t \in Tx : Charged(t)
BY DEF ChargedOnce, Charged, Current, FeesOf

\* Where nothing is added, stored or aged, what is charged stays.
LEMMA ChargedSame ==
    ASSUME ChargedInv, UNCHANGED <<pool, stamp, chain, overtaken, ahead>>, Live' \subseteq Live
    PROVE  ChargedInv'
<1>1. Stored' = Stored
  BY StoredSame
<1> QED
  BY <1>1 DEF ChargedInv, AgedAsStamped, NothingUnmade, FeesHaveTx, ChargedOnce, Current

\* A request makes its transaction, if nobody has, and charges nothing.
LEMMA ChargedRequest ==
    ASSUME TypeOK, OnceInv, ChargedInv, NEW t \in Tx, NEW a \in Int, Requests(t, a)
    PROVE  ChargedInv'
<1>1. UNCHANGED <<pool, chain, overtaken, ahead>> /\ Live' = Live /\ Items(pool') = Items(pool)
  BY RequestLeaves
<1>2. /\ \A s \in Tx : stamp[s] # NotMade => stamp'[s] = stamp[s]
      /\ \A s \in Tx : stamp'[s] = stamp[s] \/ stamp[s] = NotMade
  BY DEF Requests, TypeOK
<1>3. Live \subseteq Item /\ Stored \subseteq Item /\ Items(pool) \subseteq Live
  BY LiveIs
<1>4. Stored' = Stored
  BY <1>1, StoredSame
<1>5. \A j \in Live \union Stored : j.for \in Tx /\ stamp[j.for] # NotMade
                                    /\ stamp'[j.for] = stamp[j.for]
  BY <1>2, <1>3, ItemType DEF ChargedInv, NothingUnmade
<1>6. AgedAsStamped'
  <2>1. \A k \in DOMAIN pool : pool[k].item \in Live
    BY <1>3 DEF Items
  <2> QED BY <1>1, <1>5, <2>1 DEF AgedAsStamped, ChargedInv
<1>7. NothingUnmade'
  BY <1>1, <1>4, <1>5 DEF NothingUnmade
<1>8. FeesHaveTx'
  BY <1>1, <1>5 DEF FeesHaveTx, ChargedInv, Current
<1>9. ASSUME NEW s \in Tx PROVE Charged(s)'
  <2>1. CASE stamp[s] = stamp'[s]
    <3>1. Charged(s)
      BY ChargedIs DEF ChargedInv
    <3> QED BY <1>1, <1>4, <2>1, <3>1 DEF Charged, Current, FeesOf
  <2>2. CASE stamp[s] # stamp'[s]
    <3>1. stamp[s] = NotMade
      BY <1>2, <2>2
    <3>2. \A j \in Stored : j.for # s
      BY <1>5, <3>1
    <3>3. FeesOf(s, Stored') = {} /\ ~\E j \in Stored' : j.kind = "tx" /\ j.for = s
      BY <1>4, <3>2 DEF FeesOf
    <3>4. Cardinality(FeesOf(s, Stored')) = 0
      BY <3>3, FS_EmptySet
    <3> QED BY <3>3, <3>4 DEF Charged, FeesOf
  <2> QED BY <2>1, <2>2
<1>10. ChargedOnce'
  BY <1>9 DEF ChargedOnce, Charged, Current, FeesOf
<1> QED
  BY <1>6, <1>7, <1>8, <1>10 DEF ChargedInv

\* A transaction is added with the age of its stamp, and its fees are made with it.
LEMMA ChargedAdd ==
    ASSUME TypeOK, OnceInv, ChargedInv, NEW i \in checked, Add(i)
    PROVE  ChargedInv'
<1> DEFINE new == Fees(i.for, i.post)
<1>1. /\ i \in Item /\ i.for \in Tx /\ i.kind = "tx"
      /\ Items(pool) \subseteq Items(pool')
      /\ Live' \subseteq Live \union {i} \union new
      /\ \A f \in new : f.kind # "tx" /\ f.for = i.for /\ f.post = i.post
      /\ overtaken \subseteq overtaken' /\ ahead \subseteq ahead'
      /\ UNCHANGED <<stamp, chain>>
  BY AddMoves
<1> HIDE DEF new
<1>2. Stored' = Stored
  BY <1>1, StoredSame
<1>3. \A t : Current(t)' => Current(t) /\ t \notin overtaken
  BY <1>1 DEF Current
<1>4. AgedAsStamped'
  <2>1. CASE pool' = pool
    BY <1>1, <2>1 DEF AgedAsStamped, ChargedInv
  <2>2. CASE pool' # pool
    <3> DEFINE n == Len(pool) + 1
    <3>1. /\ DOMAIN pool' = DOMAIN pool \union {n}
          /\ pool'[n].item = i /\ pool'[n].age = stamp[i.for]
          /\ \A k \in DOMAIN pool : pool'[k] = pool[k]
      BY <2>2, AddsLast
    <3> HIDE DEF n
    <3> QED BY <1>1, <3>1 DEF AgedAsStamped, ChargedInv
  <2> QED BY <2>1, <2>2
<1>5. NothingUnmade'
  <2>1. stamp[i.for] # NotMade
    BY DEF TypeOK, Posted
  <2> QED BY <1>1, <1>2, <2>1 DEF NothingUnmade, ChargedInv
<1>6. FeesHaveTx'
  <2> SUFFICES ASSUME NEW f \in Live', f.kind # "tx", Current(f.for)'
               PROVE  \E j \in Items(pool') : j.kind = "tx" /\ j.for = f.for /\ j.post = f.post
    BY DEF FeesHaveTx
  <2>1. CASE f \in new
    <3>1. f.for = i.for /\ f.post = i.post /\ i.for \notin overtaken
      BY <1>1, <1>3, <2>1
    <3>2. i \in Items(pool')
      BY <3>1, AddsNew
    <3> QED BY <1>1, <3>1, <3>2
  <2>2. CASE f \notin new
    <3>1. f \in Live
      BY <1>1, <2>2
    <3>2. \E j \in Items(pool) : j.kind = "tx" /\ j.for = f.for /\ j.post = f.post
      BY <1>3, <3>1 DEF ChargedInv, FeesHaveTx
    <3> QED BY <1>1, <3>2
  <2> QED BY <2>1, <2>2
<1>7. ChargedOnce'
  BY <1>1, <1>2 DEF ChargedInv, ChargedOnce
<1> QED
  BY <1>4, <1>5, <1>6, <1>7 DEF ChargedInv

\* In the block that is stored, a paid transaction has its two fees, all there are.
LEMMA BatchFees ==
    ASSUME TypeOK, OnceInv, ChargedInv, Stores,
           NEW j \in ToSet(batch), j.kind = "tx", Current(j.for), FeeTotal(j.for) > 0,
           NEW i \in Items(pool), i.kind = "tx", i.for = j.for
    PROVE  FeesOf(j.for, ToSet(batch)) = Fees(i.for, i.post)
<1> DEFINE F == FeesOf(j.for, ToSet(batch))
           G == Fees(i.for, i.post)
<1>1. Live \subseteq Item /\ Items(pool) \subseteq Live /\ ToSet(batch) \subseteq Live
  BY LiveIs
<1>2. Cardinality(F) = 2
  BY DEF Stores, FeesValid
<1>3. i \in Item /\ i.for \in Tx
  BY <1>1, ItemType
<1>4. IsFiniteSet(G) /\ Cardinality(G) = 2
  <2>1. FeeTotal(i.for) # 0
    BY <1>3, FeeHalves
  <2> QED BY <1>3, <2>1, FeesAre
<1>5. F \subseteq G
  <2> SUFFICES ASSUME NEW f \in F PROVE f \in G
    OBVIOUS
  <2>1. f \in ToSet(batch) /\ f \in Live /\ f.kind # "tx" /\ f.for = j.for
    BY <1>1 DEF FeesOf
  <2>2. PICK k \in Items(pool) : k.kind = "tx" /\ k.for = f.for /\ k.post = f.post
    BY <2>1 DEF ChargedInv, FeesHaveTx
  <2>3. k \in Item
    BY <1>1, <2>2
  <2>4. Hash(k) = Hash(i)
    BY <1>3, <2>1, <2>2, <2>3, HashTells
  <2>5. k = i
    BY <2>2, <2>4 DEF OnceInv, Different, DifferentEntries, Items
  <2>6. f \in Fees(f.for, f.post)
    BY <2>1 DEF OnceInv, Numbered, IsFee
  <2> QED BY <2>1, <2>2, <2>5, <2>6
<1>6. F = G
  <2> HIDE DEF F, G
  <2> QED BY <1>2, <1>4, <1>5, FS_Subset
<1> QED
  BY <1>6

\* A block charges the fees of its transactions and no others.
LEMMA ChargedStores ==
    ASSUME TypeOK, OnceInv, FeesInv, ChargedInv, Stores
    PROVE  ChargedInv'
<1> DEFINE K == {k \in DOMAIN pool : Hash(pool[k].item) \notin Hashes(ToSet(batch))}
<1>1. /\ Stored' = Stored \union ToSet(batch)
      /\ pool' = Kept(pool, K)
      /\ ToSet(batch') = {}
      /\ overtaken \subseteq overtaken'
      /\ UNCHANGED <<owed, stamp, ahead>>
  BY StoredMore
<1>2. /\ Items(pool') = {pool[k].item : k \in K \intersect DOMAIN pool}
      /\ Items(pool') \subseteq Items(pool)
      /\ \A j \in DOMAIN pool' : \E k \in DOMAIN pool : pool'[j] = pool[k]
  <2> HIDE DEF K
  <2> QED BY <1>1, KeptItems DEF TypeOK
<1>3. /\ \A j \in Items(pool') : Hash(j) \notin Hashes(ToSet(batch))
      /\ \A j \in Items(pool) : Hash(j) \notin Hashes(ToSet(batch)) => j \in Items(pool')
  <2>1. \A j \in Items(pool') : Hash(j) \notin Hashes(ToSet(batch))
    BY <1>2
  <2>2. ASSUME NEW j \in Items(pool), Hash(j) \notin Hashes(ToSet(batch)) PROVE j \in Items(pool')
    <3>1. PICK k \in DOMAIN pool : j = pool[k].item
      BY DEF Items
    <3>2. k \in K
      BY <2>2, <3>1
    <3> QED BY <1>2, <3>1, <3>2
  <2> QED BY <2>1, <2>2
<1> HIDE DEF K
<1>4. /\ Live \subseteq Item /\ Stored \subseteq Item /\ IsFiniteSet(Stored)
      /\ Items(pool) \subseteq Live /\ ToSet(batch) \subseteq Live /\ owed \subseteq Live
  BY LiveIs, StoredIs
<1>5. Live' \subseteq Live /\ Live' = Items(pool') \union owed
  BY <1>1, <1>2 DEF Live
<1>6. \A t : Current(t)' => Current(t)
  BY <1>1 DEF Current
<1>7. AgedAsStamped'
  BY <1>1, <1>2 DEF AgedAsStamped, ChargedInv
<1>8. NothingUnmade'
  BY <1>1, <1>4, <1>5 DEF NothingUnmade, ChargedInv
<1>9. ASSUME NEW f \in Live', f.kind # "tx", Current(f.for)
      PROVE  \E i \in Items(pool') : i.kind = "tx" /\ i.for = f.for /\ i.post = f.post
  <2>1. f \in Live /\ f \in Item
    BY <1>4, <1>5
  <2>2. PICK i \in Items(pool) : i.kind = "tx" /\ i.for = f.for /\ i.post = f.post
    BY <1>9, <2>1 DEF ChargedInv, FeesHaveTx
  <2>3. CASE Hash(i) \notin Hashes(ToSet(batch))
    BY <1>3, <2>2, <2>3
  <2>4. CASE Hash(i) \in Hashes(ToSet(batch))
    <3>1. PICK j \in ToSet(batch) : Hash(i) = Hash(j)
      BY <2>4 DEF Hashes
    <3>2. j.kind = "tx" /\ j.for = f.for
      BY <1>4, <2>2, <3>1, HashTells
    <3>3. f \in Fees(f.for, f.post)
      BY <1>9, <2>1 DEF OnceInv, Numbered, IsFee
    <3>4. FeeTotal(j.for) > 0
      <4>1. f.for \in Tx
        BY <2>1, ItemType
      <4>2. FeeTotal(f.for) # 0 /\ FeeTotal(f.for) \in Nat
        BY <3>3, <4>1, FeesAre, FeeHalves
      <4> QED BY <3>2, <4>2
    <3>5. FeesOf(j.for, ToSet(batch)) = Fees(i.for, i.post)
      BY <1>9, <2>2, <3>2, <3>4, BatchFees
    <3>6. f \in ToSet(batch)
      BY <2>2, <3>3, <3>5 DEF FeesOf
    <3>7. f \notin owed
      BY <3>6 DEF OnceInv, LiveIsNew
    <3>8. Hash(f) \in Hashes(ToSet(batch))
      BY <3>6 DEF Hashes
    <3> QED BY <1>3, <1>5, <3>7, <3>8
  <2> QED BY <2>3, <2>4
<1>10. FeesHaveTx'
  BY <1>6, <1>9 DEF FeesHaveTx
<1>11. ASSUME NEW t \in Tx, Current(t)
       PROVE  Cardinality(FeesOf(t, Stored')) =
                 IF \E i \in Stored' : i.kind = "tx" /\ i.for = t
                   THEN (IF FeeTotal(t) > 0 THEN 2 ELSE 0) ELSE 0
  <2>0. Charged(t)
    BY ChargedIs DEF ChargedInv
  <2>1. FeesOf(t, Stored') = FeesOf(t, Stored) \union FeesOf(t, ToSet(batch))
    BY <1>1 DEF FeesOf
  <2>2. IsFiniteSet(FeesOf(t, Stored))
    <3>1. FeesOf(t, Stored) \subseteq Stored
      BY DEF FeesOf
    <3> QED BY <1>4, <3>1, FS_Subset
  <2>3. CASE \E j \in ToSet(batch) : j.kind = "tx" /\ j.for = t
    <3>1. PICK j \in ToSet(batch) : j.kind = "tx" /\ j.for = t
      BY <2>3
    <3>2. Amount(j) > 0
      BY <1>11, <3>1 DEF Amount, Current
    <3>3. ~\E i \in Stored : i.kind = "tx" /\ i.for = t
      <4>1. Hash(j) \notin Hashes(Stored)
        BY <1>11, <3>1, <3>2 DEF OnceInv, NotStoredYet, Sole, Current
      <4>2. ASSUME NEW i \in Stored, i.kind = "tx", i.for = t PROVE Hash(i) = Hash(j)
        BY <1>4, <3>1, <4>2, HashTells
      <4> QED BY <4>1, <4>2 DEF Hashes
    <3>4. FeesOf(t, Stored) = {}
      <4>1. Cardinality(FeesOf(t, Stored)) = 0
        BY <1>11, <2>0, <3>3 DEF Charged
      <4> QED BY <2>2, <4>1, FS_EmptySet
    <3>5. FeesOf(t, Stored') = FeesOf(t, ToSet(batch))
      BY <2>1, <3>4
    <3>6. \E i \in Stored' : i.kind = "tx" /\ i.for = t
      BY <1>1, <3>1
    <3>7. CASE FeeTotal(t) > 0
      <4>1. Cardinality(FeesOf(t, ToSet(batch))) = 2
        BY <3>1, <3>7 DEF Stores, FeesValid
      <4> QED BY <3>5, <3>6, <3>7, <4>1
    <3>8. CASE ~(FeeTotal(t) > 0)
      <4>1. FeeTotal(t) = 0
        BY <3>8, FeeHalves
      <4>2. ASSUME NEW f \in FeesOf(t, ToSet(batch)) PROVE FALSE
        <5>1. f \in Live /\ f.kind # "tx" /\ f.for = t
          BY <1>4 DEF FeesOf
        <5>2. f \in Fees(t, f.post)
          BY <5>1 DEF OnceInv, Numbered, IsFee
        <5> QED BY <4>1, <5>2, FeesAre
      <4>3. Cardinality(FeesOf(t, ToSet(batch))) = 0
        BY <4>2, FS_EmptySet
      <4> QED BY <3>5, <3>6, <3>8, <4>3
    <3> QED BY <3>7, <3>8
  <2>4. CASE ~\E j \in ToSet(batch) : j.kind = "tx" /\ j.for = t
    <3>1. ASSUME NEW f \in FeesOf(t, ToSet(batch)) PROVE FALSE
      <4>1. f \in ToSet(batch) /\ f \in Live /\ f.kind # "tx" /\ f.for = t
        BY <1>4 DEF FeesOf
      <4>2. PICK i \in Items(pool) : i.kind = "tx" /\ i.for = f.for /\ i.post = f.post
        BY <1>11, <4>1 DEF ChargedInv, FeesHaveTx
      <4>3. f \in Fees(i.for, i.post)
        BY <4>1, <4>2 DEF OnceInv, Numbered, IsFee
      <4>4. Hash(i) \in Hashes(ToSet(batch))
        BY <1>11, <4>1, <4>2, <4>3 DEF FeesInv, CutBehind, Current
      <4>5. PICK j \in ToSet(batch) : Hash(i) = Hash(j)
        BY <4>4 DEF Hashes
      <4>6. j.kind = "tx" /\ j.for = t
        BY <1>4, <4>1, <4>2, <4>5, HashTells
      <4> QED BY <2>4, <4>6
    <3>2. FeesOf(t, Stored') = FeesOf(t, Stored)
      BY <2>1, <3>1
    <3>3. (\E i \in Stored' : i.kind = "tx" /\ i.for = t)
            <=> (\E i \in Stored : i.kind = "tx" /\ i.for = t)
      BY <1>1, <2>4
    <3> QED BY <1>11, <2>0, <3>2, <3>3 DEF Charged
  <2> QED BY <2>3, <2>4
<1>12. ChargedOnce'
  BY <1>1, <1>6, <1>11 DEF ChargedOnce, Current, FeesOf
<1> QED
  BY <1>7, <1>8, <1>10, <1>12 DEF ChargedInv

\* Dropping the expired takes no transaction that is still current.
LEMMA ChargedDrop ==
    ASSUME TypeOK, ChargedInv, pool' = Fresh(pool), UNCHANGED <<owed, stamp, chain, requests>>,
           ToSet(batch') \subseteq Items(pool') \union ToSet(batch)
    PROVE  ChargedInv'
<1> DEFINE K == {k \in DOMAIN pool : pool[k].age <= MaxAge}
<1>1. /\ Items(pool') = {pool[k].item : k \in K \intersect DOMAIN pool}
      /\ Items(pool') \subseteq Items(pool)
      /\ \A j \in DOMAIN pool' : \E k \in DOMAIN pool : pool'[j] = pool[k]
  <2>1. pool' = Kept(pool, K)
    BY DEF Fresh
  <2> HIDE DEF K
  <2> QED BY <2>1, KeptItems DEF TypeOK
<1>2. \A i \in Items(pool) : i.kind = "tx" /\ Current(i.for) => i \in Items(pool')
  <2> SUFFICES ASSUME NEW i \in Items(pool), i.kind = "tx", Current(i.for)
               PROVE  i \in Items(pool')
    OBVIOUS
  <2>1. PICK k \in DOMAIN pool : i = pool[k].item
    BY DEF Items
  <2>2. k \in K
    BY <2>1 DEF ChargedInv, AgedAsStamped, Current
  <2> HIDE DEF K
  <2> QED BY <1>1, <2>1, <2>2
<1> HIDE DEF K
<1>3. Live' \subseteq Live
  BY <1>1 DEF Live
<1>4. Stored' = Stored
  BY StoredSame
<1>5. AgedAsStamped'
  BY <1>1 DEF AgedAsStamped, ChargedInv
<1>6. NothingUnmade'
  BY <1>3, <1>4 DEF NothingUnmade, ChargedInv
<1>7. FeesHaveTx'
  BY <1>2, <1>3 DEF FeesHaveTx, ChargedInv, Current, requests
<1>8. ChargedOnce'
  BY <1>4 DEF ChargedOnce, ChargedInv, requests
<1> QED
  BY <1>5, <1>6, <1>7, <1>8 DEF ChargedInv

\* Every step keeps what has been charged in line with what has been stored.
LEMMA ChargedStep == TypeOK /\ OnceInv /\ FeesInv /\ ChargedInv /\ [Next]_vars => ChargedInv'
<1> SUFFICES ASSUME TypeOK, OnceInv, FeesInv, ChargedInv, [Next]_vars PROVE ChargedInv'
  OBVIOUS
<1>1. ASSUME NEW t \in Tx, NEW a \in Int, Requests(t, a) PROVE ChargedInv'
  BY <1>1, ChargedRequest
<1>2. ASSUME NEW f \in owed, QueueFee(f) PROVE ChargedInv'
  <2> DEFINE e == [item |-> f, age |-> 0]
  <2>0. e.item = f
    OBVIOUS
  <2>1. /\ pool' = Append(pool, e) /\ e \in Pending
        /\ Items(pool') = Items(pool) \union {f} /\ Live' = Live
        /\ f.kind # "tx" /\ UNCHANGED <<stamp, chain, overtaken, ahead>>
    BY <1>2, QueueMoves DEF OnceInv, Numbered, requests
  <2> HIDE DEF e
  <2>2. Stored' = Stored
    BY <2>1, StoredSame
  <2>3. AgedAsStamped'
    <3>1. /\ DOMAIN pool' = DOMAIN pool \union {Len(pool) + 1}
          /\ pool'[Len(pool) + 1] = e
          /\ \A k \in DOMAIN pool : pool'[k] = pool[k]
      BY <2>1, AppendItems DEF TypeOK
    <3> QED BY <2>0, <2>1, <3>1 DEF AgedAsStamped, ChargedInv
  <2>4. NothingUnmade' /\ FeesHaveTx' /\ ChargedOnce'
    BY <2>1, <2>2 DEF NothingUnmade, FeesHaveTx, ChargedOnce, ChargedInv, Current
  <2> QED BY <2>3, <2>4 DEF ChargedInv
<1>3. CASE View
  <2>1. pool' = Fresh(pool) /\ UNCHANGED <<owed, stamp, chain, batch, requests>>
    BY <1>3 DEF View
  <2>2. ToSet(batch') = ToSet(batch)
    BY <2>1
  <2> QED BY <2>1, <2>2, ChargedDrop
<1>4. CASE Draw
  <2>1. pool' = Fresh(pool) /\ UNCHANGED <<owed, stamp, chain, requests>> /\ batch' = Oldest(pool')
    BY <1>4 DEF Draw
  <2>2. pool' \in Seq(Pending) /\ DifferentEntries(pool')
    BY <2>1, KeptItems DEF TypeOK, Fresh, OnceInv, Different
  <2>3. ToSet(batch') \subseteq Items(pool')
    BY <2>1, <2>2, DrawnItems
  <2> QED BY <2>1, <2>3, ChargedDrop
<1>5. CASE Stores
  BY <1>5, ChargedStores
<1>6. CASE Refuses
  <2>1. ToSet(batch') = {} /\ UNCHANGED <<pool, owed, stamp, chain, overtaken, ahead>>
    BY <1>6, NoItems DEF Refuses, requests
  <2>2. Live' \subseteq Live
    BY <2>1 DEF Live
  <2> QED BY <2>1, <2>2, ChargedSame
<1>7. CASE Tick
  <2>1. Items(pool') = Items(pool) /\ Live' = Live /\ UNCHANGED <<chain, overtaken, ahead>>
    BY <1>7, TickItems DEF requests
  <2>2. Stored' = Stored
    BY <2>1, StoredSame
  <2>3. /\ DOMAIN pool' = DOMAIN pool
        /\ \A k \in DOMAIN pool :
             pool'[k].item = pool[k].item /\ pool'[k].age = Older(pool[k].age, MaxAge + 1)
    BY <1>7, TickPool
  <2>4. /\ \A t \in Tx : stamp'[t] = Older(stamp[t], MaxAge + 1)
        /\ \A t \in Tx : stamp[t] \in Int \union {NotMade}
    BY <1>7 DEF Tick, TypeOK
  <2>5. \A t \in Tx : /\ stamp'[t] = NotMade <=> stamp[t] = NotMade
                      /\ Current(t)' => Current(t)
    <3> TAKE t \in Tx
    <3>1. CASE stamp[t] = NotMade
      BY <2>4, <3>1, AgesType DEF Current
    <3>2. CASE stamp[t] \in Int
      <4>1. stamp'[t] \in Int /\ (stamp'[t] <= MaxAge => stamp[t] <= MaxAge)
        BY <2>4, <3>2, AgesType
      <4>2. stamp'[t] # NotMade /\ stamp[t] # NotMade
        BY <3>2, <4>1, FeePoolAssumption
      <4> QED BY <2>1, <4>1, <4>2 DEF Current
    <3> QED BY <2>4, <3>1, <3>2
  <2>6. \A j \in Live \union Stored : j.for \in Tx
    BY LiveIs, ItemType
  <2>7. AgedAsStamped'
    <3>1. \A k \in DOMAIN pool : pool[k].item.for \in Tx
      BY ItemsAre, ItemType DEF TypeOK
    <3> QED BY <2>3, <2>4, <3>1 DEF AgedAsStamped, ChargedInv
  <2>8. NothingUnmade'
    BY <2>1, <2>2, <2>5, <2>6 DEF NothingUnmade, ChargedInv
  <2>9. FeesHaveTx'
    BY <2>1, <2>5, <2>6 DEF FeesHaveTx, ChargedInv
  <2>10. ChargedOnce'
    <3>1. \A t \in Tx : Charged(t)
      BY ChargedIs DEF ChargedInv
    <3>2. \A t \in Tx : Charged(t)'
      BY <2>2, <2>5, <3>1 DEF Charged, FeesOf
    <3> QED BY <3>2 DEF ChargedOnce, Charged, Current, FeesOf
  <2> QED BY <2>7, <2>8, <2>9, <2>10 DEF ChargedInv
<1>8. CASE Crash
  <2>1. pool' = <<>> /\ owed' = {} /\ batch' = <<>> /\ UNCHANGED <<stamp, chain, overtaken, ahead>>
    BY <1>8 DEF Crash
  <2>2. Live' = {} /\ DOMAIN pool' = {} /\ Stored' = Stored
    BY <2>1, NoItems, StoredSame DEF Live
  <2> QED BY <2>1, <2>2
          DEF ChargedInv, AgedAsStamped, NothingUnmade, FeesHaveTx, ChargedOnce, Current
<1>9. CASE Idles
  <2>1. UNCHANGED <<pool, owed, stamp, batch, chain, overtaken, ahead>>
    BY <1>9 DEF Idles
  <2>2. Live' = Live
    BY <2>1 DEF Live
  <2> QED BY <2>1, <2>2, ChargedSame
<1>10. ASSUME NEW i \in covered, Passes(i) PROVE ChargedInv'
  <2>1. UNCHANGED <<pool, owed, stamp, batch, chain, overtaken, ahead>>
    BY <1>10 DEF Passes, Check
  <2>2. Live' = Live
    BY <2>1 DEF Live
  <2> QED BY <2>1, <2>2, ChargedSame
<1>11. ASSUME NEW i \in checked, Add(i) PROVE ChargedInv'
  BY <1>11, ChargedAdd
<1> QED
  BY <1>1, <1>2, <1>3, <1>4, <1>5, <1>6, <1>7, <1>8, <1>9, <1>10, <1>11, StepKinds DEF Steps

LEMMA ChargedAlways == Spec => [](TypeOK /\ OnceInv /\ FeesInv /\ ChargedInv)
<1>1. Init => ChargedInv
  <2> SUFFICES ASSUME Init PROVE ChargedInv
    OBVIOUS
  <2>1. pool = <<>> /\ owed = {} /\ batch = <<>> /\ chain = <<>> /\ \A t \in Tx : stamp[t] = NotMade
    BY DEF Init
  <2>2. Live = {} /\ DOMAIN pool = {} /\ Stored = {}
    BY <2>1, NoItems DEF Live, Stored
  <2> QED BY <2>1, <2>2 DEF ChargedInv, AgedAsStamped, NothingUnmade, FeesHaveTx, ChargedOnce
<1>2. TypeOK /\ OnceInv /\ FeesInv /\ ChargedInv /\ [Next]_vars => ChargedInv'
  BY ChargedStep
<1> QED
  BY <1>1, <1>2, FeesAlways, PTL DEF Spec

\* Until a paid transaction expires, its sender has been charged its two fees if it was
\* stored and nothing if it was not, whatever was retried, cut, refused or lost in between
\* (add_transaction, validate_fee_transactions, remove_batch), unless the transaction was
\* added or stored between the check and the add of another request for it, or was added
\* with a stamp ahead of the clock.
THEOREM ChargedAtMostOnce == Spec => []ChargedOnce
<1>1. ChargedInv => ChargedOnce
  BY DEF ChargedInv
<1> QED
  BY <1>1, ChargedAlways, PTL

-----------------------------------------------------------------------------
(* Money                                                                   *)

\* What i pays for a, and what it makes.
Pays(i, a) == IF Sender(i) = a THEN Due(i) ELSE 0
Credit(i) == IF Debited(i) THEN 0 ELSE Amount(i)

\* What items make.
Credits(items) == SumOf([i \in items |-> Credit(i)])

\* A sender owns what is pending.
Solvent == overdrawn \/ \A a \in Account : Debts(a, Live) <= balance[a]

MoneyInv == Solvent /\ Conserved

\* The debts of a over disjoint sets add up, and the empty set has none.
DebtsIn(a, D) ==
    /\ Debts(a, {}) = 0
    /\ \A V \in SUBSET D : Debts(a, V) \in Nat
    /\ \A V, W \in SUBSET D : V \subseteq W => Debts(a, V) <= Debts(a, W)
    /\ \A V, W \in SUBSET D :
         V \intersect W = {} => Debts(a, V \union W) = Debts(a, V) + Debts(a, W)
    /\ \A x \in D : Debts(a, {x}) = Pays(x, a)

LEMMA DebtsAdd ==
    ASSUME NEW D, IsFiniteSet(D), D \subseteq Item, NEW a
    PROVE  DebtsIn(a, D)
<1> DEFINE f == [i \in D |-> Due(i)]
           of(V) == {j \in V : Sender(j) = a}
<1>1. f \in [D -> Nat]
  BY ItemMoves
<1>2. \A V \in SUBSET D : Debts(a, V) = SumOf(On(f, of(V))) /\ of(V) \in SUBSET D
  <2> SUFFICES ASSUME NEW V \in SUBSET D PROVE Debts(a, V) = SumOf(On(f, of(V)))
    OBVIOUS
  <2>1. On(f, of(V)) = [i \in of(V) |-> Due(i)]
    BY DEF On
  <2> QED BY <2>1 DEF Debts
<1>3. of({}) = {}
  OBVIOUS
<1>4. \A x \in D : of({x}) = IF Sender(x) = a THEN {x} ELSE {}
  OBVIOUS
<1>5. \A x \in D : f[x] = Due(x)
  OBVIOUS
<1>6. \A V, W \in SUBSET D :
        /\ V \subseteq W => of(V) \subseteq of(W)
        /\ of(V \union W) = of(V) \union of(W)
        /\ V \intersect W = {} => of(V) \intersect of(W) = {}
        /\ V \union W \in SUBSET D
  OBVIOUS
<1> HIDE DEF f, of
<1>7. Debts(a, {}) = 0
  BY <1>1, <1>2, <1>3, SumSmall
<1>8. \A x \in D : Debts(a, {x}) = Pays(x, a)
  <2> TAKE x \in D
  <2>1. {x} \in SUBSET D
    OBVIOUS
  <2>2. SumOf(On(f, {x})) = f[x] /\ SumOf(On(f, {})) = 0
    BY <1>1, SumSmall
  <2> QED BY <1>2, <1>4, <1>5, <2>1, <2>2 DEF Pays
<1>9. ASSUME NEW V \in SUBSET D, NEW W \in SUBSET D, V \intersect W = {}
      PROVE  Debts(a, V) \in Nat /\ Debts(a, V \union W) = Debts(a, V) + Debts(a, W)
  <2>1. AddsUp(f, of(V), of(W))
    BY <1>1, <1>2, <1>6, <1>9, SumSplit
  <2>2. V \union W \in SUBSET D /\ of(V \union W) = of(V) \union of(W)
    BY <1>6
  <2>3. /\ Debts(a, V) = SumOf(On(f, of(V))) /\ Debts(a, W) = SumOf(On(f, of(W)))
        /\ Debts(a, V \union W) = SumOf(On(f, of(V) \union of(W)))
    BY <1>2, <2>2
  <2> QED BY <2>1, <2>3 DEF AddsUp
<1>10. ASSUME NEW V \in SUBSET D PROVE Debts(a, V) \in Nat
  <2>1. {} \in SUBSET D /\ V \intersect {} = {}
    OBVIOUS
  <2> QED BY <1>9, <2>1
<1>11. ASSUME NEW V \in SUBSET D, NEW W \in SUBSET D, V \subseteq W
       PROVE  Debts(a, V) <= Debts(a, W)
  <2>1. SumOf(On(f, of(V))) <= SumOf(On(f, of(W)))
    BY <1>1, <1>2, <1>6, <1>11, SumLess
  <2> QED BY <1>2, <2>1
<1> QED
  BY <1>7, <1>8, <1>9, <1>10, <1>11 DEF DebtsIn

\* So does what they make.
CreditsIn(D) ==
    /\ Credits({}) = 0
    /\ \A V \in SUBSET D : Credits(V) \in Nat
    /\ \A V, W \in SUBSET D :
         V \intersect W = {} => Credits(V \union W) = Credits(V) + Credits(W)
    /\ \A x \in D : Credits({x}) = Credit(x)
    /\ \A V \in SUBSET D : (\A x \in V : Credit(x) = 0) => Credits(V) = 0

LEMMA CreditsAdd ==
    ASSUME NEW D, IsFiniteSet(D), D \subseteq Item
    PROVE  CreditsIn(D)
<1> DEFINE f == [i \in D |-> Credit(i)]
<1>1. f \in [D -> Nat]
  BY ItemMoves DEF Credit
<1>2. \A V \in SUBSET D : Credits(V) = SumOf(On(f, V))
  <2> SUFFICES ASSUME NEW V \in SUBSET D PROVE Credits(V) = SumOf(On(f, V))
    OBVIOUS
  <2>1. On(f, V) = [i \in V |-> Credit(i)]
    BY DEF On
  <2> QED BY <2>1 DEF Credits
<1>3. \A x \in D : f[x] = Credit(x)
  OBVIOUS
<1> HIDE DEF f
<1>4. Credits({}) = 0 /\ \A x \in D : Credits({x}) = Credit(x)
  <2>1. {} \in SUBSET D /\ \A x \in D : {x} \in SUBSET D
    OBVIOUS
  <2>2. SumOf(On(f, {})) = 0 /\ \A x \in D : SumOf(On(f, {x})) = f[x]
    BY <1>1, SumSmall
  <2> QED BY <1>2, <1>3, <2>1, <2>2
<1>5. ASSUME NEW V \in SUBSET D, NEW W \in SUBSET D, V \intersect W = {}
      PROVE  Credits(V) \in Nat /\ Credits(V \union W) = Credits(V) + Credits(W)
  <2>1. AddsUp(f, V, W)
    BY <1>1, <1>5, SumSplit
  <2>2. V \union W \in SUBSET D
    OBVIOUS
  <2> QED BY <1>2, <2>1, <2>2 DEF AddsUp
<1>6. ASSUME NEW V \in SUBSET D PROVE Credits(V) \in Nat
  <2>1. {} \in SUBSET D /\ V \intersect {} = {}
    OBVIOUS
  <2> QED BY <1>5, <2>1
<1>7. ASSUME NEW V \in SUBSET D, \A x \in V : Credit(x) = 0 PROVE Credits(V) = 0
  <2> DEFINE F == {U \in SUBSET V : Credits(U) = 0}
  <2>1. IsFiniteSet(V) /\ {} \in F
    BY <1>4, FS_Subset
  <2>2. ASSUME NEW U \in SUBSET V, U \in F, NEW x \in V \ U PROVE U \union {x} \in F
    <3>1. U \in SUBSET D /\ {x} \in SUBSET D /\ U \intersect {x} = {}
      OBVIOUS
    <3>2. Credits(U \union {x}) = Credits(U) + Credits({x})
      BY <1>5, <3>1
    <3>3. Credits(U) = 0 /\ Credits({x}) = 0
      BY <1>4, <1>7, <2>2
    <3> QED BY <3>2, <3>3
  <2>3. V \in F
    <3> HIDE DEF F
    <3> QED BY <2>1, <2>2, FinSet
  <2> QED BY <2>3
<1> QED
  BY <1>4, <1>5, <1>6, <1>7 DEF CreditsIn

\* A debit that is covered makes no money, and a transfer takes what it pays.
LEMMA ApplyMoves ==
    ASSUME NEW b \in Books, NEW i \in Item, Debited(i) => Amount(i) <= b[Sender(i)]
    PROVE  /\ Total(b) \in Nat
           /\ Total(Apply(b, i)) = Total(b) + Credit(i)
           /\ \A a \in Account : b[a] <= Apply(b, i)[a] + Pays(i, a)
<1> DEFINE d == Debit(b, i)
           m == Amount(i)
           s == Sender(i)
           r == Receiver(i)
<1>1. m \in Nat /\ s \in Account /\ r \in Account /\ IsFiniteSet(Account)
  BY ItemMoves, FeePoolAssumption
<1>2. b \in [Account -> Nat] /\ d \in [Account -> Nat]
  BY ApplyType DEF Books
<1>3. Total(b) \in Nat /\ \A x \in Account : b[x] \in Nat
  BY <1>1, <1>2, SumExcept DEF Total
<1>4. ASSUME Debited(i)
      PROVE  /\ Total(d) + m = Total(b) + Credit(i)
             /\ \A a \in Account : d[a] = b[a] - Pays(i, a)
  <2> DEFINE v == b[s] - m
  <2>1. v \in Nat /\ Clamped(v) = v
    BY <1>1, <1>3, <1>4 DEF Clamped
  <2>2. d = [b EXCEPT ![s] = v]
    BY <1>4, <2>1 DEF Debit
  <2>3. SumOf([b EXCEPT ![s] = v]) = SumOf(b) - b[s] + v
    <3> HIDE DEF v, s
    <3> QED BY <1>1, <1>2, <2>1, SumExcept
  <2>4. Total(d) = Total(b) - m
    <3> HIDE DEF s, m, d
    <3>1. b[s] \in Nat
      BY <1>1, <1>3
    <3> QED BY <1>1, <1>3, <2>2, <2>3, <3>1 DEF Total
  <2>5. \A a \in Account : d[a] = b[a] - Pays(i, a)
    <3> TAKE a \in Account
    <3>1. Pays(i, a) = IF s = a THEN m ELSE 0
      BY <1>4 DEF Pays, Due
    <3> HIDE DEF s, m, d
    <3>2. b[a] \in Nat
      BY <1>3
    <3> QED BY <1>1, <1>2, <2>2, <3>1, <3>2
  <2>6. Credit(i) = 0
    BY <1>4 DEF Credit
  <2> HIDE DEF d, m, s, r, v
  <2>7. Total(d) + m = Total(b) + Credit(i)
    BY <1>1, <1>3, <2>4, <2>6
  <2> QED BY <2>5, <2>7
<1>5. ASSUME ~Debited(i)
      PROVE  /\ Total(d) + m = Total(b) + Credit(i)
             /\ \A a \in Account : d[a] = b[a] - Pays(i, a)
  <2>1. d = b
    BY <1>5 DEF Debit
  <2>2. Credit(i) = m /\ \A a : Pays(i, a) = 0
    BY <1>5 DEF Credit, Pays, Due
  <2> HIDE DEF d, m
  <2>3. \A a \in Account : d[a] = b[a] - Pays(i, a)
    BY <1>3, <2>1, <2>2
  <2> QED BY <2>1, <2>2, <2>3
<1>6. /\ Total(d) + m = Total(b) + Credit(i)
      /\ \A a \in Account : d[a] = b[a] - Pays(i, a)
  BY <1>4, <1>5
<1>7. Apply(b, i) = [d EXCEPT ![r] = d[r] + m]
  BY DEF Apply
<1> HIDE DEF d, m, s, r
<1>8. d[r] \in Nat /\ d[r] + m \in Nat /\ Total(d) \in Nat
  <2>1. d[r] \in Nat
    BY <1>1, <1>2
  <2> QED BY <1>1, <1>2, <2>1, SumExcept DEF Total
<1>9. Total(Apply(b, i)) = Total(d) - d[r] + (d[r] + m)
  <2> DEFINE w == d[r] + m
  <2>1. w \in Nat
    BY <1>8
  <2> HIDE DEF w
  <2>2. SumOf([d EXCEPT ![r] = w]) = SumOf(d) - d[r] + w
    BY <1>1, <1>2, <2>1, SumExcept
  <2> QED BY <1>7, <2>2 DEF Total, w
<1>10. Total(Apply(b, i)) = Total(b) + Credit(i)
  <2> DEFINE x == Total(d)
             y == d[r]
  <2>1. x \in Nat /\ y \in Nat
    BY <1>8
  <2>2. Total(Apply(b, i)) = x - y + (y + m)
    BY <1>9
  <2> HIDE DEF x, y
  <2>3. x - y + (y + m) = x + m
    BY <1>1, <2>1
  <2>4. Total(Apply(b, i)) = x + m
    BY <2>2, <2>3
  <2> QED BY <1>6, <2>4 DEF x
<1>11. ASSUME NEW a \in Account PROVE b[a] <= Apply(b, i)[a] + Pays(i, a)
  <2>1. d[a] <= Apply(b, i)[a] /\ Apply(b, i)[a] \in Nat /\ d[a] \in Nat
    <3>1. d[a] \in Nat
      BY <1>2
    <3>2. Apply(b, i)[a] = IF a = r THEN d[r] + m ELSE d[a]
      BY <1>2, <1>7
    <3> QED BY <1>1, <1>8, <3>1, <3>2
  <2>2. Pays(i, a) \in Nat
    BY ItemMoves DEF Pays
  <2>3. b[a] \in Nat
    BY <1>3
  <2> QED BY <1>6, <2>1, <2>2, <2>3
<1> QED
  BY <1>3, <1>10, <1>11

\* A block its senders can pay for takes what they owe and makes what it credits.
LEMMA SettledMoney ==
    ASSUME NEW b \in Books, NEW items \in Seq(Item), DifferentItems(items),
           \A a \in Account : Debts(a, ToSet(items)) <= b[a]
    PROVE  /\ Total(Settled(b, items)) = Total(b) + Credits(ToSet(items))
           /\ \A a \in Account : b[a] <= Settled(b, items)[a] + Debts(a, ToSet(items))
<1> DEFINE m == Len(items)
           D == ToSet(items)
           B(n) == {items[k] : k \in 1..n}
<1>1. /\ DOMAIN items = 1..m /\ m \in Nat /\ \A k \in 1..m : items[k] \in Item
      /\ D = {items[k] : k \in 1..m} /\ D \subseteq Item /\ IsFiniteSet(D)
  BY BatchIs
<1>2. \A k, l \in 1..m : items[k] = items[l] => k = l
  BY <1>1 DEF DifferentItems
<1>3. PICK c : SettlesIn(c, b, items)
  BY SettledCourse
<1>4. /\ \A n \in 0..m : c[n] \in Books
      /\ c[0] = b
      /\ \A n \in 1..m : c[n] = Apply(c[n - 1], items[n])
      /\ Settled(b, items) = c[m]
  BY <1>3 DEF SettlesIn
<1>5. CreditsIn(D) /\ \A a : DebtsIn(a, D)
  <2> HIDE DEF D
  <2> QED BY <1>1, CreditsAdd, DebtsAdd
<1>6. \A a \in Account : Debts(a, D) <= b[a] /\ b[a] \in Nat
  BY DEF Books
<1> DEFINE S == {n \in Nat : /\ Total(c[n]) = Total(b) + Credits(B(n))
                             /\ \A a \in Account : b[a] <= c[n][a] + Debts(a, B(n))}
<1>7. 0 \in S
  <2>1. B(0) = {}
    OBVIOUS
  <2>2. Credits({}) = 0 /\ \A a : Debts(a, {}) = 0
    BY <1>5 DEF CreditsIn, DebtsIn
  <2>3. Total(b) \in Nat
    BY SumExcept, FeePoolAssumption DEF Total, Books
  <2>4. Credits(B(0)) = 0 /\ \A a : Debts(a, B(0)) = 0
    BY <2>1, <2>2
  <2>5. c[0] = b
    BY <1>4
  <2> HIDE DEF B, m, D
  <2>6. Total(c[0]) = Total(b) + Credits(B(0))
    BY <2>3, <2>4, <2>5
  <2>7. \A a \in Account : b[a] <= c[0][a] + Debts(a, B(0))
    BY <1>6, <2>4, <2>5
  <2> QED BY <2>6, <2>7
<1>8. ASSUME NEW n \in Nat, n < m, n \in S PROVE n + 1 \in S
  <2> DEFINE i == items[n + 1]
             U == B(n)
             x == c[n]
  <2>1. n + 1 \in 1..m /\ n \in 0..m /\ (n + 1) - 1 = n
    BY <1>1, <1>8
  <2>2. i \in Item /\ i \in D /\ x \in Books /\ c[n + 1] = Apply(x, i)
    <3>1. i \in Item /\ i \in D
      BY <1>1, <2>1
    <3> HIDE DEF m, D
    <3> QED BY <1>4, <2>1, <3>1
  <2>3. U \in SUBSET D /\ i \notin U /\ B(n + 1) = U \union {i}
    <3>1. \A k \in 1..n : k \in 1..m /\ k # n + 1 /\ k \in 1..(n + 1)
      BY <1>1, <1>8
    <3>2. i \notin U
      BY <1>2, <2>1, <3>1
    <3>3. U \subseteq D
      BY <1>1, <3>1
    <3>4. \A k \in 1..(n + 1) : k = n + 1 \/ k \in 1..n
      OBVIOUS
    <3>5. n + 1 \in 1..(n + 1)
      OBVIOUS
    <3>6. B(n + 1) = U \union {i}
      BY <3>1, <3>4, <3>5
    <3> QED BY <3>2, <3>3, <3>6
  <2>4. Total(x) = Total(b) + Credits(U) /\ \A a \in Account : b[a] <= x[a] + Debts(a, U)
    BY <1>8
  <2>5. B(n + 1) = U \union {i}
    BY <2>3
  <2> HIDE DEF i, U, x, B, D
  <2>6. {i} \in SUBSET D /\ U \intersect {i} = {} /\ U \union {i} \in SUBSET D /\ D \in SUBSET D
    BY <2>2, <2>3
  <2>7. /\ Credits(U) \in Nat /\ Credit(i) \in Nat
        /\ Credits(U \union {i}) = Credits(U) + Credit(i)
    <3>1. Credits({i}) = Credit(i) /\ Credits({i}) \in Nat
      BY <1>5, <2>2, <2>6 DEF CreditsIn
    <3> QED BY <1>5, <2>3, <2>6, <3>1 DEF CreditsIn
  <2>8. \A a : /\ Debts(a, U) \in Nat /\ Pays(i, a) \in Nat
               /\ Debts(a, U \union {i}) = Debts(a, U) + Pays(i, a)
               /\ Debts(a, U \union {i}) <= Debts(a, D) /\ Debts(a, D) \in Nat
    <3> TAKE a
    <3>0. DebtsIn(a, D)
      BY <1>5
    <3>1. Debts(a, {i}) = Pays(i, a) /\ Debts(a, {i}) \in Nat
      BY <3>0, <2>2, <2>6 DEF DebtsIn
    <3>2. Debts(a, U) \in Nat /\ Debts(a, D) \in Nat
      BY <3>0, <2>3, <2>6 DEF DebtsIn
    <3>3. Debts(a, U \union {i}) = Debts(a, U) + Debts(a, {i})
      BY <3>0, <2>3, <2>6 DEF DebtsIn
    <3>4. Debts(a, U \union {i}) <= Debts(a, D)
      BY <3>0, <2>6 DEF DebtsIn
    <3> QED BY <3>1, <3>2, <3>3, <3>4
  <2>9. Debited(i) => Amount(i) <= x[Sender(i)]
    <3> SUFFICES ASSUME Debited(i) PROVE Amount(i) <= x[Sender(i)]
      OBVIOUS
    <3> DEFINE s == Sender(i)
    <3>1. s \in Account /\ Amount(i) \in Nat /\ Pays(i, s) = Amount(i)
      BY <2>2, ItemMoves DEF Pays, Due
    <3>2. x[s] \in Nat
      BY <2>2, <3>1 DEF Books
    <3> HIDE DEF s
    <3>3. /\ b[s] <= x[s] + Debts(s, U) /\ Debts(s, D) <= b[s] /\ b[s] \in Nat
      BY <1>6, <2>4, <3>1
    <3>4. Debts(s, U) \in Nat /\ Debts(s, D) \in Nat /\ Debts(s, U) + Amount(i) <= Debts(s, D)
      BY <2>8, <3>1
    <3>5. Amount(i) <= x[s]
      BY <3>1, <3>2, <3>3, <3>4
    <3> QED BY <3>5 DEF s
  <2>10. /\ Total(x) \in Nat /\ Total(c[n + 1]) = Total(x) + Credit(i)
         /\ \A a \in Account : x[a] <= c[n + 1][a] + Pays(i, a)
    BY <2>2, <2>9, ApplyMoves
  <2>11. Total(b) \in Nat
    BY SumExcept, FeePoolAssumption DEF Total, Books
  <2>12. Total(c[n + 1]) = Total(b) + Credits(B(n + 1))
    <3> DEFINE y == Total(b)
               u == Credits(U)
               w == Credit(i)
    <3>1. y \in Nat /\ u \in Nat /\ w \in Nat
      BY <2>7, <2>11
    <3>2. Total(x) = y + u /\ Total(c[n + 1]) = Total(x) + w /\ Credits(B(n + 1)) = u + w
      BY <2>4, <2>5, <2>7, <2>10
    <3> HIDE DEF y, u, w
    <3>3. (y + u) + w = y + (u + w)
      BY <3>1
    <3>4. Total(c[n + 1]) = y + Credits(B(n + 1))
      BY <3>2, <3>3
    <3> QED BY <3>4 DEF y
  <2>13. \A a \in Account : b[a] <= c[n + 1][a] + Debts(a, B(n + 1))
    <3> TAKE a \in Account
    <3>0. c[n + 1] \in Books
      BY <2>2, ApplyType
    <3>1. c[n + 1][a] \in Nat /\ x[a] \in Nat /\ b[a] \in Nat
      BY <2>2, <3>0 DEF Books
    <3>2. b[a] <= x[a] + Debts(a, U) /\ x[a] <= c[n + 1][a] + Pays(i, a)
      BY <2>4, <2>10
    <3>3. Debts(a, B(n + 1)) = Debts(a, U) + Pays(i, a) /\ Debts(a, U) \in Nat
          /\ Pays(i, a) \in Nat
      BY <2>5, <2>8
    <3> QED BY <3>1, <3>2, <3>3
  <2> QED BY <2>12, <2>13
<1>9. m \in S
  <2>1. \A n \in 0..m : n \in S
    <3> HIDE DEF S
    <3> QED BY <1>1, <1>7, <1>8, UpToSet
  <2>2. m \in 0..m
    BY <1>1
  <2> HIDE DEF S, m
  <2> QED BY <2>1, <2>2
<1>10. B(m) = D
  BY <1>1
<1> HIDE DEF B, D, m
<1> QED
  BY <1>4, <1>9, <1>10 DEF D

\* What is pending is finite.
LEMMA LiveFinite ==
    ASSUME TypeOK, OnceInv
    PROVE  IsFiniteSet(Live)
<1>1. IsFiniteSet(Items(pool)) /\ IsFiniteSet(ToSet(batch)) /\ IsFiniteSet(owed)
  BY ItemsAre, BatchIs DEF TypeOK, OnceInv, Numbered
<1>2. IsFiniteSet(Items(pool) \union owed)
  BY <1>1, FS_Union
<1>3. IsFiniteSet((Items(pool) \union owed) \union ToSet(batch))
  BY <1>1, <1>2, FS_Union
<1> QED
  BY <1>3 DEF Live

\* Issued counts what is stored.
LEMMA IssuedIs == Issued = Credits(Stored)
BY DEF Issued, Credits, Credit

\* A block takes from the senders what is no longer pending, and makes what it issues.
LEMMA MoneyStores ==
    ASSUME TypeOK, OnceInv, MoneyInv, Stores
    PROVE  MoneyInv'
<1> DEFINE K == {k \in DOMAIN pool : Hash(pool[k].item) \notin Hashes(ToSet(batch))}
           B == ToSet(batch)
<1>1. /\ Stored' = Stored \union B
      /\ pool' = Kept(pool, K) /\ ToSet(batch') = {}
      /\ balance' = Settled(balance, batch)
      /\ UNCHANGED <<owed, overdrawn>>
  BY StoredMore
<1>2. Items(pool') = {pool[k].item : k \in K \intersect DOMAIN pool}
      /\ Items(pool') \subseteq Items(pool)
  <2> HIDE DEF K
  <2> QED BY <1>1, KeptItems DEF TypeOK
<1>3. \A j \in Items(pool') : j \notin B
  BY <1>2 DEF Hashes
<1> HIDE DEF K
<1>4. /\ Live \subseteq Item /\ Stored \subseteq Item /\ IsFiniteSet(Stored) /\ IsFiniteSet(Live)
      /\ B \subseteq Live
  BY LiveIs, StoredIs, LiveFinite
<1>5. Live' = Items(pool') \union owed /\ Live' \subseteq Live /\ Live' \intersect B = {}
  BY <1>1, <1>2, <1>3 DEF Live, OnceInv, LiveIsNew
<1>6. batch \in Seq(Item) /\ DifferentItems(batch) /\ balance \in Books
  BY DEF TypeOK, OnceInv, Different, Books
<1> HIDE DEF B
<1>7. CASE overdrawn
  BY <1>1, <1>7 DEF MoneyInv, Solvent, Conserved
<1>8. CASE ~overdrawn
  <2>1. /\ \A a \in Account : Debts(a, Live) <= balance[a]
        /\ Total(balance) = Total(Funds) + Issued
    BY <1>8 DEF MoneyInv, Solvent, Conserved
  <2>2. ASSUME NEW a \in Account
        PROVE  /\ Debts(a, B) \in Nat /\ Debts(a, Live') \in Nat
               /\ Debts(a, Live') + Debts(a, B) <= balance[a]
               /\ balance[a] \in Nat
    <3>1. DebtsIn(a, Live)
      BY <1>4, DebtsAdd
    <3>2. B \in SUBSET Live /\ Live' \in SUBSET Live /\ Live \in SUBSET Live
          /\ Live' \union B \in SUBSET Live
      BY <1>4, <1>5
    <3>3. Debts(a, Live' \union B) = Debts(a, Live') + Debts(a, B)
      BY <1>5, <3>1, <3>2 DEF DebtsIn
    <3>4. Debts(a, Live' \union B) <= Debts(a, Live)
      BY <3>1, <3>2 DEF DebtsIn
    <3>5. /\ Debts(a, B) \in Nat /\ Debts(a, Live') \in Nat /\ Debts(a, Live) \in Nat
          /\ Debts(a, Live' \union B) \in Nat
      BY <3>1, <3>2 DEF DebtsIn
    <3>6. balance[a] \in Nat /\ Debts(a, Live) <= balance[a]
      BY <1>6, <2>1 DEF Books
    <3> QED BY <3>3, <3>4, <3>5, <3>6
  <2>3. \A a \in Account : Debts(a, B) <= balance[a]
    <3> TAKE a \in Account
    <3> QED BY <2>2
  <2>4. /\ Total(balance') = Total(balance) + Credits(B)
        /\ \A a \in Account : balance[a] <= balance'[a] + Debts(a, B)
    BY <1>1, <1>6, <2>3, SettledMoney DEF B
  <2>5. balance' \in Books
    BY <1>1, <1>6, SettledType
  <2>6. Solvent'
    <3> SUFFICES ASSUME NEW a \in Account PROVE Debts(a, Live') <= balance'[a]
      BY DEF Solvent, Debts
    <3>1. balance'[a] \in Nat
      BY <2>5 DEF Books
    <3>2. balance[a] <= balance'[a] + Debts(a, B)
      BY <2>4
    <3> QED BY <2>2, <3>1, <3>2
  <2>7. Credits(Stored \union B) = Credits(Stored) + Credits(B)
        /\ Credits(Stored) \in Nat /\ Credits(B) \in Nat
    <3> DEFINE D == Stored \union B
    <3>1. IsFiniteSet(D) /\ D \subseteq Item
      <4>1. IsFiniteSet(B)
        BY <1>4, FS_Subset
      <4> QED BY <1>4, <4>1, FS_Union
    <3>2. CreditsIn(D)
      BY <3>1, CreditsAdd
    <3>3. Stored \in SUBSET D /\ B \in SUBSET D /\ Stored \intersect B = {}
      BY <1>4 DEF OnceInv, LiveIsNew
    <3> HIDE DEF D
    <3>4. Credits(Stored \union B) = Credits(Stored) + Credits(B)
      BY <3>2, <3>3 DEF CreditsIn
    <3>5. Credits(Stored) \in Nat /\ Credits(B) \in Nat
      BY <3>2, <3>3 DEF CreditsIn
    <3> QED BY <3>4, <3>5
  <2>8. Issued' = Credits(Stored')
    BY DEF Issued, Credits, Credit
  <2>9. Total(balance') = Total(Funds) + Issued'
    <3> DEFINE f == Total(Funds)
               o == Credits(Stored)
               n == Credits(B)
    <3>1. f \in Nat
      BY SumExcept, FeePoolAssumption DEF Total
    <3>2. o \in Nat /\ n \in Nat
      BY <2>7
    <3>3. Total(balance') = (f + o) + n /\ Issued' = o + n
      BY <1>1, <2>1, <2>4, <2>7, <2>8, IssuedIs
    <3> HIDE DEF f, o, n
    <3>4. Total(balance') = f + Issued'
      BY <3>1, <3>2, <3>3
    <3> QED BY <3>4 DEF f
  <2> QED BY <2>6, <2>9 DEF MoneyInv, Conserved, Total
<1> QED
  BY <1>7, <1>8

\* Fewer pending, and the same balances and blocks.
LEMMA MoneyLess ==
    ASSUME TypeOK, OnceInv, MoneyInv, Live' \subseteq Live, UNCHANGED <<chain, balance, overdrawn>>
    PROVE  MoneyInv'
<1>1. Live \subseteq Item /\ IsFiniteSet(Live) /\ Live' \in SUBSET Live /\ Live \in SUBSET Live
  BY LiveIs, LiveFinite
<1>2. ASSUME NEW a \in Account, ~overdrawn PROVE Debts(a, Live') <= balance[a]
  <2>1. DebtsIn(a, Live)
    BY <1>1, DebtsAdd
  <2>2. /\ Debts(a, Live') <= Debts(a, Live)
        /\ Debts(a, Live') \in Nat /\ Debts(a, Live) \in Nat
    BY <1>1, <2>1 DEF DebtsIn
  <2>3. Debts(a, Live) <= balance[a] /\ balance[a] \in Nat
    BY <1>2 DEF MoneyInv, Solvent, TypeOK
  <2> QED BY <2>2, <2>3
<1>3. Solvent'
  BY <1>2 DEF Solvent, Debts
<1>4. Conserved'
  <2>1. Stored' = Stored
    BY StoredSame
  <2>2. Issued' = Issued
    BY <2>1 DEF Issued
  <2> QED BY <2>2 DEF Conserved, MoneyInv, Total
<1> QED
  BY <1>3, <1>4 DEF MoneyInv

\* A transaction is added with a look at what its sender then owes.
LEMMA MoneyAdd ==
    ASSUME TypeOK, OnceInv, OnceInv', TypeOK', MoneyInv, NEW i \in checked, Add(i)
    PROVE  MoneyInv'
<1>1. /\ i \in Item /\ Live \subseteq Live'
      /\ Live' = Items(pool') \union owed' \union ToSet(batch)
      /\ Live' \subseteq Live \union {i} \union Fees(i.for, i.post)
      /\ \A f \in Fees(i.for, i.post) : f.for = i.for
      /\ UNCHANGED <<chain, balance>>
  BY AddMoves
<1>2. overdrawn' = (overdrawn \/ Debts(Sender(i), Live') > balance[Sender(i)])
  BY <1>1 DEF Add
<1>3. \A j \in Live' \ Live : Sender(j) = Sender(i)
  BY <1>1 DEF Sender
<1>4. ASSUME NEW c \in Account, ~overdrawn' PROVE Debts(c, Live') <= balance[c]
  <2>1. CASE c = Sender(i)
    <3>1. overdrawn' = (overdrawn \/ Debts(c, Live') > balance[c])
      BY <1>2, <2>1
    <3>2. Debts(c, Live') \in Nat
      <4>1. IsFiniteSet(Live)' /\ (Live \subseteq Item)'
        <5>1. IsFiniteSet(Items(pool)') /\ IsFiniteSet(ToSet(batch)') /\ IsFiniteSet(owed')
              /\ Items(pool)' \subseteq Item /\ ToSet(batch)' \subseteq Item /\ owed' \subseteq Item
          BY ItemsAre, BatchIs DEF TypeOK, OnceInv, Numbered
        <5>2. IsFiniteSet(Items(pool)' \union owed')
          BY <5>1, FS_Union
        <5>3. IsFiniteSet((Items(pool)' \union owed') \union ToSet(batch)')
          BY <5>1, <5>2, FS_Union
        <5> QED BY <5>1, <5>3 DEF Live
      <4>2. DebtsIn(c, Live')
        BY <4>1, DebtsAdd
      <4>3. Live' \in SUBSET Live'
        OBVIOUS
      <4> QED BY <4>2, <4>3 DEF DebtsIn
    <3>3. balance[c] \in Nat
      BY DEF TypeOK
    <3>4. ~(Debts(c, Live') > balance[c])
      BY <1>4, <3>1, Zenon
    <3> QED BY <3>2, <3>3, <3>4
  <2>2. CASE c # Sender(i)
    <3>1. {j \in Live' : Sender(j) = c} = {j \in Live : Sender(j) = c}
      BY <1>1, <1>3, <2>2
    <3>2. Debts(c, Live') = Debts(c, Live)
      BY <3>1 DEF Debts
    <3>3. ~overdrawn
      BY <1>2, <1>4
    <3> QED BY <3>2, <3>3 DEF MoneyInv, Solvent
  <2> QED BY <2>1, <2>2
<1>5. Solvent'
  BY <1>1, <1>4 DEF Solvent, Debts
<1>6. Conserved'
  <2>1. Stored' = Stored
    BY <1>1, StoredSame
  <2>2. Issued' = Issued /\ Total(balance') = Total(balance)
    BY <1>1, <2>1 DEF Issued
  <2>3. overdrawn => overdrawn'
    BY <1>2
  <2> QED BY <2>2, <2>3 DEF Conserved, MoneyInv, Total
<1> QED
  BY <1>5, <1>6 DEF MoneyInv

\* Every step keeps the money.
LEMMA MoneyStep == TypeOK /\ OnceInv /\ MoneyInv /\ [Next]_vars => MoneyInv'
<1> SUFFICES ASSUME TypeOK, OnceInv, MoneyInv, [Next]_vars PROVE MoneyInv'
  OBVIOUS
<1>0. TypeOK' /\ OnceInv'
  BY TypeStep, OnceStep
<1>1. ASSUME NEW t \in Tx, NEW a \in Int, Requests(t, a) PROVE MoneyInv'
  BY <1>1, RequestLeaves, MoneyLess
<1>2. ASSUME NEW f \in owed, QueueFee(f) PROVE MoneyInv'
  <2>1. Live' = Live /\ UNCHANGED <<balance, overdrawn>>
    BY <1>2, QueueMoves
  <2>2. chain' = chain
    BY <1>2 DEF QueueFee
  <2> QED BY <2>1, <2>2, MoneyLess
<1>3. CASE View \/ Draw
  <2>1. pool' = Fresh(pool) /\ UNCHANGED <<owed, chain, balance, overdrawn>>
    BY <1>3 DEF View, Draw
  <2>2. pool' \in Seq(Pending) /\ Items(pool') \subseteq Items(pool) /\ DifferentEntries(pool')
    BY <2>1, KeptItems DEF TypeOK, Fresh, OnceInv, Different
  <2>3. ToSet(batch') \subseteq Items(pool') \union ToSet(batch)
    <3>1. CASE View
      <4>1. batch' = batch
        BY <3>1 DEF View
      <4> QED BY <4>1
    <3>2. CASE Draw
      <4>1. batch' = Oldest(pool')
        BY <3>2 DEF Draw
      <4> QED BY <2>2, <4>1, DrawnItems
    <3> QED BY <1>3, <3>1, <3>2
  <2>4. Live' \subseteq Live
    BY <2>1, <2>2, <2>3 DEF Live
  <2> QED BY <2>1, <2>4, MoneyLess
<1>4. CASE Stores
  BY <1>4, MoneyStores
<1>5. CASE Refuses
  <2>1. ToSet(batch') = {} /\ UNCHANGED <<pool, owed, chain, balance, overdrawn>>
    BY <1>5, NoItems DEF Refuses
  <2>2. Live' \subseteq Live
    BY <2>1 DEF Live
  <2> QED BY <2>1, <2>2, MoneyLess
<1>6. CASE Tick
  BY <1>6, TickItems, MoneyLess
<1>7. CASE Crash
  <2>1. pool' = <<>> /\ owed' = {} /\ batch' = <<>> /\ UNCHANGED <<chain, balance, overdrawn>>
    BY <1>7 DEF Crash
  <2>2. Live' = {}
    BY <2>1, NoItems DEF Live
  <2> QED BY <2>1, <2>2, MoneyLess
<1>8. CASE Idles
  <2>1. UNCHANGED <<pool, owed, batch, chain, balance, overdrawn>>
    BY <1>8 DEF Idles
  <2>2. Live' = Live
    BY <2>1 DEF Live
  <2> QED BY <2>1, <2>2, MoneyLess
<1>9. ASSUME NEW i \in covered, Passes(i) PROVE MoneyInv'
  <2>1. UNCHANGED <<pool, owed, batch, chain, balance, overdrawn>>
    BY <1>9 DEF Passes, Check
  <2>2. Live' = Live
    BY <2>1 DEF Live
  <2> QED BY <2>1, <2>2, MoneyLess
<1>10. ASSUME NEW i \in checked, Add(i) PROVE MoneyInv'
  BY <1>0, <1>10, MoneyAdd
<1> QED
  BY <1>1, <1>2, <1>3, <1>4, <1>5, <1>6, <1>7, <1>8, <1>9, <1>10, StepKinds DEF Steps

\* At the start nobody owes anything and nothing has been issued.
LEMMA MoneyInit == Init => MoneyInv
<1> SUFFICES ASSUME Init PROVE MoneyInv
  OBVIOUS
<1>1. /\ pool = <<>> /\ owed = {} /\ batch = <<>> /\ chain = <<>>
      /\ balance = Funds /\ Funds \in [Account -> Nat]
  BY FeePoolAssumption DEF Init
<1>2. Live = {} /\ Stored = {}
  BY <1>1, NoItems DEF Live, Stored
<1>3. IsFiniteSet({}) /\ {} \subseteq Item
  BY FS_EmptySet
<1>4. \A a \in Account : Debts(a, Live) = 0
  <2> TAKE a \in Account
  <2>1. DebtsIn(a, {})
    BY <1>3, DebtsAdd
  <2> QED BY <1>2, <2>1 DEF DebtsIn
<1>5. Credits({}) = 0
  <2>1. CreditsIn({})
    BY <1>3, CreditsAdd
  <2> QED BY <2>1 DEF CreditsIn
<1>6. Issued = 0
  BY <1>2, <1>5, IssuedIs
<1>7. Total(Funds) \in Nat
  BY <1>1, SumExcept, FeePoolAssumption DEF Total
<1>8. Solvent
  BY <1>1, <1>4 DEF Solvent
<1>9. Conserved
  BY <1>1, <1>6, <1>7 DEF Conserved
<1> QED
  BY <1>8, <1>9 DEF MoneyInv

\* Storing blocks neither makes nor loses money beyond what the authority credits, as long
\* as nobody was accepted with more pending than it owns: no balance is then cut at zero
\* (add_transaction, _apply_block_to_balances).
THEOREM MoneyConserved == Spec => []Conserved
<1>1. Init => MoneyInv
  BY MoneyInit
<1>2. TypeOK /\ OnceInv /\ MoneyInv /\ [Next]_vars => MoneyInv'
  BY MoneyStep
<1>3. MoneyInv => Conserved
  BY DEF MoneyInv
<1> QED
  BY <1>1, <1>2, <1>3, OnceAlways, PTL DEF Spec
=============================================================================
