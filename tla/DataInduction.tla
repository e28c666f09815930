---------------------------- MODULE DataInduction ----------------------------
(***************************************************************************)
(* Induction and recursion for the theorems about what the code computes   *)
(* in loops.  The induction theorems of the library take a predicate; here *)
(* the predicate is the set of the values for which it holds.              *)
(***************************************************************************)
EXTENDS Integers, SequencesExt, SequenceTheorems, FiniteSetTheorems, WellFoundedInduction,
        TLAPS

\* A set that has zero and the successor of each of its natural numbers has them all.
LEMMA NatSet ==
    ASSUME NEW S, 0 \in S, \A n \in Nat : n \in S => n + 1 \in S
    PROVE  \A n \in Nat : n \in S
<1> DEFINE T == Nat \ S
           R == OpToRel(<, Nat)
<1>1. SUFFICES ASSUME T # {} PROVE FALSE
  OBVIOUS
<1>2. IsWellFoundedOn(R, Nat)
  BY NatLessThanWellFounded
<1>3. T \subseteq Nat
  OBVIOUS
<1>4. PICK x \in T : \A y \in T : ~(<<y, x>> \in R)
  <2> HIDE DEF T, R
  <2> QED BY <1>1, <1>2, <1>3, WFMin
<1>5. x # 0 /\ x \in Nat /\ x \notin S
  OBVIOUS
<1>6. x - 1 \in Nat /\ x - 1 \notin S
  BY <1>5
<1>7. <<x - 1, x>> \in R
  BY <1>5, <1>6 DEF OpToRel
<1> QED
  BY <1>4, <1>6, <1>7

\* What holds at zero and goes from one number to the next up to n holds up to n.
LEMMA UpToSet ==
    ASSUME NEW n \in Nat, NEW S, 0 \in S,
           \A k \in Nat : k < n /\ k \in S => k + 1 \in S
    PROVE  \A k \in 0..n : k \in S
<1> DEFINE U == {k \in Nat : k <= n => k \in S}
<1>1. 0 \in U
  OBVIOUS
<1>2. \A k \in Nat : k \in U => k + 1 \in U
  OBVIOUS
<1>3. \A k \in Nat : k \in U
  <2> HIDE DEF U
  <2> QED BY <1>1, <1>2, NatSet
<1> QED
  BY <1>3

\* A family of subsets of a finite set that has the empty set, and with a set every
\* set with one more element, has the whole set.
LEMMA FinSet ==
    ASSUME NEW S, IsFiniteSet(S), NEW F, {} \in F,
           \A U \in SUBSET S : U \in F => \A x \in S \ U : U \union {x} \in F
    PROVE  S \in F
<1> DEFINE G == {n \in Nat : \A U \in SUBSET S : IsFiniteSet(U) /\ Cardinality(U) = n => U \in F}
<1>1. 0 \in G
  BY FS_EmptySet
<1>2. ASSUME NEW n \in Nat, n \in G PROVE n + 1 \in G
  <2> SUFFICES ASSUME NEW U \in SUBSET S, IsFiniteSet(U), Cardinality(U) = n + 1
               PROVE  U \in F
    OBVIOUS
  <2>1. U # {}
    BY FS_EmptySet
  <2>2. PICK x \in U : TRUE
    BY <2>1
  <2> DEFINE V == U \ {x}
  <2>3. IsFiniteSet(V) /\ Cardinality(V) = Cardinality(U) - 1
    BY FS_RemoveElement
  <2>4. Cardinality(V) = n
    BY <2>3
  <2>5. V \in SUBSET S /\ x \in S \ V /\ V \union {x} = U
    OBVIOUS
  <2>6. V \in F
    BY <2>3, <2>4, <2>5, <1>2
  <2> QED
    BY <2>5, <2>6
<1>3. \A n \in Nat : n \in G
  <2> HIDE DEF G
  <2> QED BY <1>1, <1>2, NatSet
<1>4. Cardinality(S) \in Nat
  BY FS_CardinalityType
<1> QED
  BY <1>3, <1>4

\* What a loop over 1..n computes that starts from a and steps by a function.
IsCourse(f, X, a, n, step) ==
    f \in [0..n -> X] /\ f[0] = a /\ \A i \in 1..n : f[i] = step[i][f[i - 1]]

\* Every loop over 1..n has a course.
LEMMA CourseExists ==
    ASSUME NEW X, NEW a \in X, NEW n \in Nat, NEW step \in [1..n -> [X -> X]]
    PROVE  \E f : IsCourse(f, X, a, n, step)
<1> DEFINE Upto(k) == {f \in [0..k -> X] : f[0] = a /\ \A i \in 1..k : f[i] = step[i][f[i - 1]]}
           S == {k \in Nat : Upto(k) # {}}
<1>1. 0 \in S
  <2>1. [i \in 0..0 |-> a] \in Upto(0)
    OBVIOUS
  <2> QED BY <2>1
<1>2. ASSUME NEW k \in Nat, k < n, k \in S PROVE k + 1 \in S
  <2>1. PICK f : f \in Upto(k)
    BY <1>2
  <2>2. f \in [0..k -> X] /\ f[0] = a /\ \A i \in 1..k : f[i] = step[i][f[i - 1]]
    BY <2>1
  <2> DEFINE next == step[k + 1][f[k]]
             g == [i \in 0..(k + 1) |-> IF i = k + 1 THEN next ELSE f[i]]
  <2> HIDE DEF Upto, S
  <2>3. next \in X
    <3>1. f[k] \in X /\ k + 1 \in 1..n
      BY <2>2, <1>2
    <3> QED BY <3>1
  <2>4. g \in [0..(k + 1) -> X]
    <3> HIDE DEF next
    <3> QED BY <2>2, <2>3
  <2>5. \A i \in 0..k : g[i] = f[i]
    <3> HIDE DEF next
    <3> QED OBVIOUS
  <2>6. g[k + 1] = next
    <3> HIDE DEF next
    <3> QED OBVIOUS
  <2>7. g[0] = a
    BY <2>2, <2>5
  <2>8. ASSUME NEW i \in 1..(k + 1) PROVE g[i] = step[i][g[i - 1]]
    <3> HIDE DEF g
    <3>1. CASE i = k + 1
      <4>1. g[k] = f[k]
        BY <2>5
      <4>2. i - 1 = k
        BY <3>1
      <4>3. g[i] = step[k + 1][f[k]]
        BY <2>6, <3>1
      <4> QED BY <3>1, <4>1, <4>2, <4>3
    <3>2. CASE i # k + 1
      <4>1. i \in 1..k /\ i - 1 \in 0..k /\ i \in 0..k
        BY <3>2
      <4>2. g[i] = f[i] /\ g[i - 1] = f[i - 1]
        BY <4>1, <2>5
      <4> QED BY <4>1, <4>2, <2>2
    <3> QED BY <3>1, <3>2
  <2>9. g \in Upto(k + 1)
    <3> HIDE DEF g
    <3> QED BY <2>4, <2>7, <2>8 DEF Upto
  <2> QED BY <2>9 DEF S
<1>3. \A k \in 0..n : k \in S
  <2> HIDE DEF S
  <2> QED BY <1>1, <1>2, UpToSet
<1>4. n \in S
  BY <1>3
<1>5. PICK f : f \in Upto(n)
  BY <1>4
<1> QED
  BY <1>5 DEF IsCourse

\* What FlattenSeq computes: it joins the sequences one after the other.
LEMMA FlattenCourse ==
    ASSUME NEW T, NEW seqs \in Seq(Seq(T)), seqs # <<>>
    PROVE  \E f \in [1..Len(seqs) -> Seq(T)] :
               /\ f[1] = seqs[1]
               /\ \A i \in 2..Len(seqs) : f[i] = f[i - 1] \o seqs[i]
               /\ FlattenSeq(seqs) = f[Len(seqs)]
<1> DEFINE n == Len(seqs)
           step == [i \in 1..n |-> [x \in Seq(T) |-> x \o seqs[i]]]
           Is(f) == f = [i \in 1..n |-> IF i = 1 THEN seqs[1] ELSE f[i - 1] \o seqs[i]]
<1>1. n \in Nat /\ n # 0 /\ DOMAIN seqs = 1..n /\ \A i \in 1..n : seqs[i] \in Seq(T)
  BY LenProperties, EmptySeq, ElementOfSeq
<1>2. step \in [1..n -> [Seq(T) -> Seq(T)]]
  BY <1>1, ConcatProperties
<1>3. <<>> \in Seq(T)
  BY EmptySeq
<1>4. PICK g \in [0..n -> Seq(T)] : g[0] = <<>> /\ \A i \in 1..n : g[i] = step[i][g[i - 1]]
  <2> HIDE DEF step, n
  <2>1. PICK g : IsCourse(g, Seq(T), <<>>, n, step)
    BY <1>1, <1>2, <1>3, CourseExists
  <2> QED BY <2>1 DEF IsCourse
<1>5. ASSUME NEW i \in 1..n
      PROVE  g[i] = g[i - 1] \o seqs[i] /\ g[i] \in Seq(T) /\ g[i - 1] \in Seq(T)
  <2>1. i - 1 \in 0..n /\ i \in 0..n /\ g[i - 1] \in Seq(T) /\ g[i] \in Seq(T)
    <3>1. i - 1 \in 0..n /\ i \in 0..n
      BY <1>1
    <3> HIDE DEF n, step
    <3> QED BY <3>1, <1>4
  <2>2. step[i] = [x \in Seq(T) |-> x \o seqs[i]]
    OBVIOUS
  <2>3. step[i][g[i - 1]] = g[i - 1] \o seqs[i]
    BY <2>1, <2>2
  <2>4. g[i] = step[i][g[i - 1]]
    <3> HIDE DEF step
    <3> QED BY <1>4
  <2> QED BY <2>1, <2>3, <2>4
<1>6. g[1] = seqs[1]
  <2>1. g[1] = g[0] \o seqs[1]
    BY <1>1, <1>5
  <2> QED BY <2>1, <1>1, <1>4, ConcatEmptySeq
<1> DEFINE h == [i \in 1..n |-> g[i]]
<1>7. Is(h)
  <2>1. ASSUME NEW i \in 1..n
        PROVE  h[i] = IF i = 1 THEN seqs[1] ELSE h[i - 1] \o seqs[i]
    <3>1. CASE i = 1
      BY <1>6, <3>1
    <3>2. CASE i # 1
      <4>1. i - 1 \in 1..n
        BY <1>1, <3>2
      <4> QED BY <3>2, <4>1, <1>5
    <3> QED BY <3>1, <3>2
  <2> QED BY <2>1
<1> DEFINE f == CHOOSE f : Is(f)
<1>8. Is(f)
  <2> HIDE DEF Is, h
  <2> QED BY <1>7
<1>9. FlattenSeq(seqs) = f[n]
  <2> HIDE DEF Is
  <2> USE DEF Is
  <2> QED BY <1>1 DEF FlattenSeq
<1>10. \A i \in 1..n : f[i] = IF i = 1 THEN seqs[1] ELSE f[i - 1] \o seqs[i]
  <2> HIDE DEF f
  <2> QED BY <1>8
<1>11. \A i \in 0..n : i # 0 => f[i] \in Seq(T)
  <2> HIDE DEF f
  <2> DEFINE S == {i \in Nat : i # 0 => f[i] \in Seq(T)}
  <2>1. 0 \in S
    OBVIOUS
  <2>2. ASSUME NEW i \in Nat, i < n, i \in S PROVE i + 1 \in S
    <3>1. i + 1 \in 1..n /\ (i + 1) - 1 = i
      BY <1>1, <2>2
    <3>2. CASE i = 0
      BY <1>1, <1>10, <3>1, <3>2
    <3>3. CASE i # 0
      <4>1. f[i + 1] = f[i] \o seqs[i + 1]
        <5>1. f[i + 1] = IF i + 1 = 1 THEN seqs[1] ELSE f[(i + 1) - 1] \o seqs[i + 1]
          BY <1>10, <3>1
        <5>2. i + 1 # 1
          BY <3>3
        <5> QED BY <5>1, <5>2, <3>1
      <4>2. f[i] \in Seq(T) /\ seqs[i + 1] \in Seq(T)
        BY <1>1, <2>2, <3>1, <3>3
      <4> QED BY <4>1, <4>2, ConcatProperties
    <3> QED BY <3>2, <3>3
  <2>3. \A i \in 0..n : i \in S
    <3> HIDE DEF S
    <3> QED BY <1>1, <2>1, <2>2, UpToSet
  <2> QED BY <2>3
<1>12. f \in [1..n -> Seq(T)]
  <2> HIDE DEF f
  <2>1. f = [i \in 1..n |-> f[i]]
    BY <1>8
  <2>2. \A i \in 1..n : f[i] \in Seq(T)
    <3>1. \A i \in 1..n : i \in 0..n /\ i # 0
      BY <1>1
    <3> HIDE DEF n
    <3> QED BY <3>1, <1>11
  <2> HIDE DEF n
  <2> QED BY <2>1, <2>2
<1>13. f[1] = seqs[1] /\ \A i \in 2..n : f[i] = f[i - 1] \o seqs[i]
  <2> HIDE DEF f
  <2>1. 1 \in 1..n /\ \A i \in 2..n : i \in 1..n /\ i # 1
    BY <1>1
  <2> HIDE DEF n
  <2> QED BY <2>1, <1>10
<1> QED
  <2> HIDE DEF f
  <2> QED BY <1>9, <1>12, <1>13

\* FlattenSeq joins sequences over a set to a sequence over the set.
LEMMA FlattenType ==
    ASSUME NEW T, NEW seqs \in Seq(Seq(T))
    PROVE  FlattenSeq(seqs) \in Seq(T)
<1>1. CASE seqs = <<>>
  <2>1. Len(seqs) = 0
    BY <1>1
  <2> QED BY <1>1, <2>1, EmptySeq DEF FlattenSeq
<1>2. CASE seqs # <<>>
  <2>1. Len(seqs) \in 1..Len(seqs)
    BY <1>2, LenProperties, EmptySeq
  <2>2. PICK f : f \in [1..Len(seqs) -> Seq(T)] /\ FlattenSeq(seqs) = f[Len(seqs)]
    BY <1>2, FlattenCourse
  <2> QED BY <2>1, <2>2
<1> QED
  BY <1>1, <1>2

\* R is a strict total order of S.
Orders(R, S) ==
    /\ \A x \in S : <<x, x>> \notin R
    /\ \A x, y, z \in S : <<x, y>> \in R /\ <<y, z>> \in R => <<x, z>> \in R
    /\ \A x, y \in S : x # y => <<x, y>> \in R \/ <<y, x>> \in R

\* place numbers the members of S from one on, in the order R.
Numbers(place, S, R) ==
    /\ place \in [S -> 1..Cardinality(S)]
    /\ \A x, y \in S : <<x, y>> \in R => place[x] < place[y]
    /\ \A x, y \in S : place[x] = place[y] => x = y
    /\ \A n \in 1..Cardinality(S) : \E x \in S : place[x] = n

\* Counting what comes before each member of a finite set numbers the members.
LEMMA Places ==
    ASSUME NEW S, IsFiniteSet(S), NEW R, Orders(R, S)
    PROVE  Numbers([x \in S |-> Cardinality({y \in S : <<y, x>> \in R}) + 1], S, R)
<1> DEFINE before(x) == {y \in S : <<y, x>> \in R}
           N == Cardinality(S)
           place == [x \in S |-> Cardinality({y \in S : <<y, x>> \in R}) + 1]
<1>0. /\ \A x \in S : <<x, x>> \notin R
      /\ \A x, y, z \in S : <<x, y>> \in R /\ <<y, z>> \in R => <<x, z>> \in R
      /\ \A x, y \in S : x # y => <<x, y>> \in R \/ <<y, x>> \in R
  BY DEF Orders
<1>1. N \in Nat
  BY FS_CardinalityType
<1>2. ASSUME NEW x \in S
      PROVE  IsFiniteSet(before(x)) /\ Cardinality(before(x)) \in Nat /\ Cardinality(before(x)) < N
  <2>1. IsFiniteSet(S \ {x}) /\ Cardinality(S \ {x}) = N - 1
    BY FS_RemoveElement
  <2>2. before(x) \in SUBSET (S \ {x})
    BY <1>0
  <2> HIDE DEF before
  <2>3. IsFiniteSet(before(x)) /\ Cardinality(before(x)) <= N - 1
    BY <2>1, <2>2, FS_Subset
  <2>4. Cardinality(before(x)) \in Nat
    BY <2>3, FS_CardinalityType
  <2> QED BY <2>3, <2>4, <1>1
<1>3. \A x \in S : place[x] = Cardinality(before(x)) + 1
  OBVIOUS
<1>4. place \in [S -> 1..N]
  <2>1. \A x \in S : place[x] \in 1..N
    <3> HIDE DEF before, N, place
    <3> QED BY <1>1, <1>2, <1>3
  <2>2. place = [x \in S |-> place[x]]
    OBVIOUS
  <2> HIDE DEF N
  <2> QED BY <2>1, <2>2
<1>5. ASSUME NEW x \in S, NEW y \in S, <<x, y>> \in R PROVE place[x] < place[y]
  <2>1. before(x) \union {x} \in SUBSET before(y) /\ x \notin before(x)
    BY <1>0, <1>5
  <2> HIDE DEF before
  <2>2. IsFiniteSet(before(x) \union {x})
        /\ Cardinality(before(x) \union {x}) = Cardinality(before(x)) + 1
    BY <1>2, <2>1, FS_AddElement
  <2>3. Cardinality(before(x) \union {x}) <= Cardinality(before(y))
    BY <1>2, <2>1, FS_Subset
  <2> HIDE DEF N, place
  <2> QED BY <1>1, <1>2, <1>3, <2>2, <2>3
<1>6. \A x \in S : place[x] \in Int
  <2> HIDE DEF place
  <2> QED BY <1>4, <1>1
<1>7. \A x, y \in S : place[x] = place[y] => x = y
  <2> SUFFICES ASSUME NEW x \in S, NEW y \in S, x # y PROVE place[x] # place[y]
    OBVIOUS
  <2>1. place[x] < place[y] \/ place[y] < place[x]
    <3> HIDE DEF place
    <3> QED BY <1>0, <1>5
  <2>2. place[x] \in Int /\ place[y] \in Int
    BY <1>6
  <2> HIDE DEF before, N, place
  <2> QED BY <2>1, <2>2
<1>8. \A n \in 1..N : \E x \in S : place[x] = n
  <2>1. place \in Injection(S, 1..N)
    <3> HIDE DEF N, place
    <3> QED BY <1>4, <1>7 DEF Injection, IsInjective
  <2>2. IsFiniteSet(1..N) /\ Cardinality(1..N) = N
    BY <1>1, FS_Interval
  <2>3. place \in Surjection(S, 1..N)
    <3>1. Cardinality(S) = Cardinality(1..N)
      BY <2>2
    <3> HIDE DEF N, place
    <3> QED BY <3>1, <2>1, <2>2, FS_Injection
  <2> HIDE DEF N, place
  <2> QED BY <2>3 DEF Surjection
<1> QED
  <2> HIDE DEF place
  <2>1. Numbers(place, S, R)
    BY <1>4, <1>5, <1>7, <1>8 DEF Numbers
  <2> QED BY <2>1 DEF place

\* FlattenSeq puts a further sequence at the end.
LEMMA FlattenAppend ==
    ASSUME NEW T, NEW seqs \in Seq(Seq(T)), NEW s \in Seq(T)
    PROVE  FlattenSeq(Append(seqs, s)) = FlattenSeq(seqs) \o s
<1> DEFINE n == Len(seqs)
           more == Append(seqs, s)
<1>1. /\ n \in Nat /\ more \in Seq(Seq(T)) /\ more # <<>> /\ Len(more) = n + 1
      /\ \A i \in 1..n : more[i] = seqs[i]
      /\ more[n + 1] = s
  BY LenProperties, AppendProperties
<1> HIDE DEF more
<1>2. PICK g : /\ g \in [1..Len(more) -> Seq(T)] /\ g[1] = more[1]
               /\ \A i \in 2..Len(more) : g[i] = g[i - 1] \o more[i]
               /\ FlattenSeq(more) = g[Len(more)]
  BY <1>1, FlattenCourse
<1>3. CASE seqs = <<>>
  <2>1. n = 0 /\ FlattenSeq(seqs) = <<>>
    BY <1>3, EmptySeq DEF FlattenSeq
  <2>2. FlattenSeq(more) = s
    BY <1>1, <1>2, <2>1
  <2>3. <<>> \o s = s
    BY ConcatEmptySeq
  <2> QED BY <2>1, <2>2, <2>3 DEF more
<1>4. CASE seqs # <<>>
  <2>1. PICK f : /\ f \in [1..n -> Seq(T)] /\ f[1] = seqs[1]
                 /\ \A i \in 2..n : f[i] = f[i - 1] \o seqs[i]
                 /\ FlattenSeq(seqs) = f[n]
    BY <1>4, FlattenCourse
  <2>2. n # 0
    BY <1>4, EmptySeq
  <2> DEFINE S == {i \in Nat : i # 0 => f[i] = g[i]}
  <2> HIDE DEF n
  <2>3. 0 \in S
    OBVIOUS
  <2>4. ASSUME NEW i \in Nat, i < n, i \in S PROVE i + 1 \in S
    <3>1. CASE i = 0
      BY <1>1, <1>2, <2>1, <2>2, <3>1
    <3>2. CASE i # 0
      <4>1. /\ i + 1 \in 2..n /\ i + 1 \in 2..Len(more) /\ i + 1 \in 1..n /\ (i + 1) - 1 = i
            /\ f[i] = g[i]
        BY <1>1, <2>4, <3>2
      <4>2. f[i + 1] = f[i] \o seqs[i + 1]
        BY <2>1, <4>1
      <4>3. g[i + 1] = g[i] \o more[i + 1]
        BY <1>2, <4>1
      <4>4. more[i + 1] = seqs[i + 1]
        BY <1>1, <4>1
      <4>5. f[i + 1] = g[i + 1]
        BY <4>1, <4>2, <4>3, <4>4
      <4> QED BY <4>5
    <3> QED BY <3>1, <3>2
  <2>5. \A i \in 0..n : i \in S
    <3> HIDE DEF S
    <3> QED BY <1>1, <2>3, <2>4, UpToSet
  <2>6. f[n] = g[n]
    <3>1. n \in 0..n
      BY <1>1
    <3> QED BY <2>2, <2>5, <3>1
  <2>7. n + 1 \in 2..Len(more) /\ (n + 1) - 1 = n
    BY <1>1, <2>2
  <2>8. g[n + 1] = g[n] \o s
    BY <1>1, <1>2, <2>7
  <2>9. FlattenSeq(more) = f[n] \o s
    BY <1>1, <1>2, <2>6, <2>8
  <2> QED BY <2>1, <2>9 DEF more
<1> QED
  BY <1>3, <1>4
=============================================================================
