-------------------------- MODULE BlockApply_proofs --------------------------
(***************************************************************************)
(* Theorems about BlockApply, for every value of its constants: any blocks *)
(* on offer, with any transactions and forks, any number of threads, and   *)
(* any number of failed calls and crashes.                                 *)
(***************************************************************************)
EXTENDS BlockApply, DataInduction

\* The hashes that storing b takes out of the mempool.
HashesOf(b) == {b.txs[i].hash : i \in DOMAIN b.txs}

\* What b can have among its effects: it records its own transactions.
EffectOf(b) == {e \in Effect : e.op = "record" => e.hash \in HashesOf(b)}

-----------------------------------------------------------------------------
(* Effects                                                                 *)

\* The two loops of add_block give effects, and record the transactions of the block.
LEMMA EffectsType ==
    ASSUME NEW b \in LedgerBlock
    PROVE  Effects(b) \in Seq(EffectOf(b))
<1> DEFINE E == EffectOf(b)
           n == Len(b.txs)
<1>1. n \in Nat /\ DOMAIN b.txs = 1..n /\ b.txs \in Seq(Transaction)
  BY LenProperties DEF LedgerBlock
<1>2. ASSUME NEW i \in DOMAIN b.txs
      PROVE  Money(b.txs[i]) \in Seq(E) /\ Ownership(b.txs[i]) \in Seq(E)
  <2> DEFINE tx == b.txs[i]
  <2>1. tx \in Transaction /\ tx.hash \in HashesOf(b)
    BY <1>1, ElementOfSeq DEF HashesOf
  <2> HIDE DEF tx
  <2>2. /\ Debit(tx.from, tx.amount) \in E /\ Credit(tx.to, tx.amount) \in E
        /\ Record(tx.hash) \in E
    BY <2>1 DEF Debit, Credit, Record, Transaction, Effect, EffectOf
  <2>3. tx.token # NoToken => Own(tx.token, tx.to) \in E /\ Reown(tx.token, tx.to) \in E
    BY <2>1 DEF Own, Reown, Transaction, Effect, EffectOf
  <2> HIDE DEF E
  <2>4. Money(tx) \in Seq(E)
    <3> DEFINE debit == Debit(tx.from, tx.amount)
               credit == Credit(tx.to, tx.amount)
               record == Record(tx.hash)
    <3> HIDE DEF debit, credit, record
    <3>1. debit \in E /\ credit \in E /\ record \in E
      BY <2>2 DEF debit, credit, record
    <3>2. /\ <<>> \in Seq(E) /\ <<debit>> \in Seq(E) /\ <<credit, record>> \in Seq(E)
      BY <3>1
    <3>3. /\ <<>> \o <<credit, record>> \in Seq(E)
          /\ <<debit>> \o <<credit, record>> \in Seq(E)
      BY <3>2, ConcatProperties
    <3> QED BY <3>2, <3>3 DEF Money, debit, credit, record
  <2>5. Ownership(tx) \in Seq(E)
    <3> DEFINE own == Own(tx.token, tx.to)
               reown == Reown(tx.token, tx.to)
    <3> HIDE DEF own, reown
    <3>1. tx.token # NoToken => own \in E /\ reown \in E
      BY <2>3 DEF own, reown
    <3>2. <<>> \in Seq(E) /\ (tx.token # NoToken => <<own>> \in Seq(E) /\ <<reown>> \in Seq(E))
      BY <3>1
    <3> QED BY <3>2 DEF Ownership, own, reown
  <2> QED BY <2>4, <2>5 DEF tx
<1> HIDE DEF E
<1>3. /\ [i \in DOMAIN b.txs |-> Money(b.txs[i])] \in Seq(Seq(E))
      /\ [i \in DOMAIN b.txs |-> Ownership(b.txs[i])] \in Seq(Seq(E))
  BY <1>1, <1>2, SeqDef
<1>4. /\ FlattenSeq([i \in DOMAIN b.txs |-> Money(b.txs[i])]) \in Seq(E)
      /\ FlattenSeq([i \in DOMAIN b.txs |-> Ownership(b.txs[i])]) \in Seq(E)
  BY <1>3, FlattenType
<1> QED
  BY <1>4, ConcatProperties DEF Effects, E

\* An effect leaves books behind, and records at most its own hash.
LEMMA AfterType ==
    ASSUME NEW bk \in Books, NEW e \in Effect
    PROVE  /\ After(bk, e) \in Books
           /\ After(bk, e).recorded = IF e.op = "record" THEN bk.recorded \union {e.hash}
                                      ELSE bk.recorded
<1>1. CASE e.op = "debit"
  <2>1. e.account \in Account /\ e.amount \in Nat
    BY <1>1 DEF Effect
  <2>2. Clamped(bk.balance[e.account] - e.amount) \in Nat
    BY <2>1 DEF Clamped, Books
  <2> QED BY <1>1, <2>1, <2>2 DEF After, Books
<1>2. CASE e.op = "credit"
  <2>1. e.account \in Account /\ e.amount \in Nat
    BY <1>2 DEF Effect
  <2> QED BY <1>2, <2>1 DEF After, Books
<1>3. CASE e.op = "record"
  <2>1. e.hash \in Nat
    BY <1>3 DEF Effect
  <2> QED BY <1>3, <2>1 DEF After, Books
<1>4. CASE e.op = "own"
  <2>1. e.account \in Account /\ e.token \in Token
    BY <1>4 DEF Effect
  <2> QED BY <1>4, <2>1 DEF After, Books
<1>5. CASE e.op = "reown"
  <2>1. e.account \in Account /\ e.token \in Token
    BY <1>5 DEF Effect
  <2> QED BY <1>5, <2>1 DEF After, Books
<1> QED
  BY <1>1, <1>2, <1>3, <1>4, <1>5 DEF Effect

-----------------------------------------------------------------------------
(* Courses                                                                 *)

\* c has the books after each of the effects that is not gone.
Follows(c, bk, effects, gone) ==
    /\ c \in [0..Len(effects) -> Books]
    /\ c[0] = bk
    /\ \A n \in 1..Len(effects) :
         c[n] = IF n \in gone THEN c[n - 1] ELSE After(c[n - 1], effects[n])

\* What Course computes, step by step.
LEMMA CourseSteps ==
    ASSUME NEW bk \in Books, NEW effects \in Seq(Effect), NEW gone
    PROVE  Follows(Course(bk, effects, gone), bk, effects, gone)
<1> DEFINE m == Len(effects)
           step == [n \in 1..m |-> [x \in Books |-> IF n \in gone THEN x ELSE After(x, effects[n])]]
           Is(c) == c = [n \in 0..m |-> IF n = 0 THEN bk
                                        ELSE IF n \in gone THEN c[n - 1] ELSE After(c[n - 1], effects[n])]
<1>1. m \in Nat /\ \A n \in 1..m : effects[n] \in Effect
  BY LenProperties, ElementOfSeq
<1>2. step \in [1..m -> [Books -> Books]]
  BY <1>1, AfterType
<1>3. PICK g : IsCourse(g, Books, bk, m, step)
  <2> HIDE DEF step, m
  <2> QED BY <1>1, <1>2, CourseExists
<1>4. g \in [0..m -> Books] /\ g[0] = bk
  BY <1>3 DEF IsCourse
<1>5. ASSUME NEW n \in 1..m
      PROVE  g[n] = IF n \in gone THEN g[n - 1] ELSE After(g[n - 1], effects[n])
  <2>1. g[n] = step[n][g[n - 1]]
    <3> HIDE DEF step, m
    <3> QED BY <1>3 DEF IsCourse
  <2>2. n - 1 \in 0..m
    BY <1>1
  <2>3. g[n - 1] \in Books
    <3> HIDE DEF m
    <3> QED BY <1>4, <2>2
  <2>4. step[n] = [x \in Books |-> IF n \in gone THEN x ELSE After(x, effects[n])]
    OBVIOUS
  <2> QED BY <2>1, <2>3, <2>4
<1>6. Is(g)
  <2>1. g = [n \in 0..m |-> g[n]]
    BY <1>4
  <2>2. ASSUME NEW n \in 0..m
        PROVE  g[n] = IF n = 0 THEN bk
                      ELSE IF n \in gone THEN g[n - 1] ELSE After(g[n - 1], effects[n])
    <3>1. n # 0 => n \in 1..m
      BY <1>1
    <3> HIDE DEF m, step
    <3> QED BY <3>1, <1>4, <1>5
  <2> HIDE DEF m, step
  <2> QED BY <2>1, <2>2
<1> DEFINE c == Course(bk, effects, gone)
<1>7. Is(c)
  <2> DEFINE ch == CHOOSE x : Is(x)
  <2>1. Is(ch)
    <3> HIDE DEF Is
    <3> QED BY <1>6
  <2>2. c = ch
    BY DEF Course
  <2> HIDE DEF c, ch
  <2> QED BY <2>1, <2>2
<1>8. c[0] = bk
  <2> HIDE DEF c
  <2> QED BY <1>1, <1>7
<1>9. ASSUME NEW n \in 1..m
      PROVE  c[n] = IF n \in gone THEN c[n - 1] ELSE After(c[n - 1], effects[n])
  <2> HIDE DEF c
  <2>1. n \in 0..m /\ n # 0
    BY <1>1
  <2> QED BY <2>1, <1>7
<1> DEFINE S == {n \in Nat : c[n] \in Books}
<1>10. \A n \in 0..m : n \in S
  <2> HIDE DEF c
  <2>1. 0 \in S
    BY <1>8
  <2>2. ASSUME NEW n \in Nat, n < m, n \in S PROVE n + 1 \in S
    <3>1. n + 1 \in 1..m /\ (n + 1) - 1 = n
      BY <1>1, <2>2
    <3>2. effects[n + 1] \in Effect
      BY <1>1, <3>1
    <3>3. c[n + 1] = IF n + 1 \in gone THEN c[n] ELSE After(c[n], effects[n + 1])
      BY <1>9, <3>1
    <3>4. c[n] \in Books
      BY <2>2
    <3>5. After(c[n], effects[n + 1]) \in Books
      BY <3>2, <3>4, AfterType
    <3> QED BY <3>3, <3>4, <3>5
  <2> HIDE DEF S, m
  <2> QED BY <1>1, <2>1, <2>2, UpToSet
<1>11. c \in [0..m -> Books]
  <2>1. \A n \in 0..m : c[n] \in Books
    BY <1>10
  <2> HIDE DEF c
  <2>2. c = [n \in 0..m |-> c[n]]
    BY <1>7
  <2> HIDE DEF m
  <2> QED BY <2>1, <2>2
<1> QED
  <2> HIDE DEF step
  <2> QED BY <1>8, <1>9, <1>11 DEF Follows

\* The books after some of the effects depend on what was lost of these only.
LEMMA CourseAgrees ==
    ASSUME NEW bk \in Books, NEW effects \in Seq(Effect), NEW k \in 0..Len(effects),
           NEW gone, NEW more, \A i \in 1..k : i \in gone <=> i \in more
    PROVE  Course(bk, effects, gone)[k] = Course(bk, effects, more)[k]
<1> DEFINE c == Course(bk, effects, gone)
           d == Course(bk, effects, more)
           S == {n \in Nat : c[n] = d[n]}
<1>1. Len(effects) \in Nat
  BY LenProperties
<1>2. /\ c[0] = bk
      /\ \A n \in 1..Len(effects) :
           c[n] = IF n \in gone THEN c[n - 1] ELSE After(c[n - 1], effects[n])
  BY CourseSteps DEF Follows
<1>3. /\ d[0] = bk
      /\ \A n \in 1..Len(effects) :
           d[n] = IF n \in more THEN d[n - 1] ELSE After(d[n - 1], effects[n])
  BY CourseSteps DEF Follows
<1> HIDE DEF c, d
<1>4. 0 \in S
  BY <1>2, <1>3
<1>5. ASSUME NEW n \in Nat, n < k, n \in S PROVE n + 1 \in S
  <2>1. n + 1 \in 1..Len(effects) /\ n + 1 \in 1..k /\ (n + 1) - 1 = n
    BY <1>1, <1>5
  <2> QED BY <2>1, <1>2, <1>3, <1>5
<1>6. k \in Nat
  BY <1>1
<1>7. \A n \in 0..k : n \in S
  <2> HIDE DEF S
  <2> QED BY <1>4, <1>5, <1>6, UpToSet
<1> QED
  BY <1>6, <1>7 DEF c, d

\* When the rest of the effects is lost the books stay what they are.
LEMMA CourseStops ==
    ASSUME NEW bk \in Books, NEW effects \in Seq(Effect), NEW k \in 0..Len(effects),
           NEW gone, \A i \in (k + 1)..Len(effects) : i \in gone
    PROVE  Through(bk, effects, gone) = Course(bk, effects, gone)[k]
<1> DEFINE c == Course(bk, effects, gone)
           m == Len(effects) - k
           S == {n \in Nat : c[k + n] = c[k]}
<1>1. Len(effects) \in Nat /\ k \in Nat /\ m \in Nat
  BY LenProperties
<1>2. \A n \in 1..Len(effects) :
         c[n] = IF n \in gone THEN c[n - 1] ELSE After(c[n - 1], effects[n])
  BY CourseSteps DEF Follows
<1> HIDE DEF c
<1>3. 0 \in S
  BY <1>1
<1>4. ASSUME NEW n \in Nat, n < m, n \in S PROVE n + 1 \in S
  <2>1. k + n + 1 \in (k + 1)..Len(effects) /\ k + n + 1 \in 1..Len(effects)
    BY <1>1, <1>4
  <2>2. c[k + n + 1] = c[k + n]
    BY <2>1, <1>1, <1>2
  <2> QED BY <2>2, <1>1, <1>4
<1>5. \A n \in 0..m : n \in S
  <2> HIDE DEF S, m
  <2> QED BY <1>1, <1>3, <1>4, UpToSet
<1>6. c[k + m] = c[k]
  BY <1>1, <1>5
<1>7. k + m = Len(effects)
  BY <1>1
<1> QED
  BY <1>6, <1>7 DEF Through, c

\* The effects after the k-th, applied to the books after the k-th, give the books after all.
LEMMA CourseGoesOn ==
    ASSUME NEW bk \in Books, NEW effects \in Seq(Effect), NEW k \in 0..Len(effects),
           NEW gone, gone \subseteq 1..k
    PROVE  Through(Course(bk, effects, gone)[k], SubSeq(effects, k + 1, Len(effects)), {})
             = Through(bk, effects, gone)
<1> DEFINE rest == SubSeq(effects, k + 1, Len(effects))
           c == Course(bk, effects, gone)
           none == {}
           d == Course(c[k], rest, none)
           m == Len(effects) - k
           S == {n \in Nat : d[n] = c[k + n]}
<1>1. Len(effects) \in Nat /\ k \in Nat /\ m \in Nat
  BY LenProperties
<1>2. /\ c \in [0..Len(effects) -> Books]
      /\ \A n \in 1..Len(effects) :
           c[n] = IF n \in gone THEN c[n - 1] ELSE After(c[n - 1], effects[n])
  BY CourseSteps DEF Follows
<1>3. rest \in Seq(Effect) /\ Len(rest) = m /\ \A n \in 1..m : rest[n] = effects[k + n]
  BY <1>1, SubSeqProperties
<1>4. \A i \in (k + 1)..Len(effects) : i \notin gone
  BY <1>1
<1> HIDE DEF m, rest
<1>5. c[k] \in Books
  BY <1>2
<1>6. d[0] = c[k] /\ \A n \in 1..m : d[n] = After(d[n - 1], rest[n])
  <2>1. /\ d[0] = c[k]
        /\ \A n \in 1..Len(rest) : d[n] = IF n \in none THEN d[n - 1] ELSE After(d[n - 1], rest[n])
    <3> DEFINE start == c[k]
    <3>1. start \in Books
      BY <1>5
    <3> HIDE DEF none, start
    <3>2. Follows(Course(start, rest, none), start, rest, none)
      BY <1>3, <3>1, CourseSteps
    <3> QED BY <3>2 DEF Follows, start
  <2> HIDE DEF d
  <2> QED BY <2>1, <1>3
<1>7. Through(c[k], rest, {}) = d[m] /\ Through(bk, effects, gone) = c[k + m]
  <2>1. k + m = Len(effects)
    BY <1>1 DEF m
  <2> QED BY <2>1, <1>3 DEF Through
<1> HIDE DEF c, d
<1>8. 0 \in S
  BY <1>1, <1>6
<1>9. ASSUME NEW n \in Nat, n < m, n \in S PROVE n + 1 \in S
  <2>1. /\ n + 1 \in 1..m /\ (n + 1) - 1 = n
        /\ k + (n + 1) \in (k + 1)..Len(effects) /\ k + (n + 1) \in 1..Len(effects)
        /\ k + (n + 1) - 1 = k + n
    BY <1>1, <1>9 DEF m
  <2>2. c[k + (n + 1)] = After(c[k + n], effects[k + (n + 1)])
    BY <2>1, <1>2, <1>4
  <2>3. d[n + 1] = After(d[n], rest[n + 1])
    BY <2>1, <1>6
  <2>4. rest[n + 1] = effects[k + (n + 1)]
    BY <2>1, <1>3
  <2>5. d[n] = c[k + n]
    BY <1>9
  <2>6. d[n + 1] = c[k + (n + 1)]
    BY <2>2, <2>3, <2>4, <2>5
  <2> QED BY <2>6
<1>10. \A n \in 0..m : n \in S
  <2> HIDE DEF S
  <2> QED BY <1>1, <1>8, <1>9, UpToSet
<1>11. d[m] = c[k + m]
  <2>1. m \in 0..m
    BY <1>1
  <2>2. m \in S
    <3> HIDE DEF S
    <3> QED BY <2>1, <1>10
  <2> QED BY <2>2
<1> QED
  BY <1>7, <1>11 DEF c, rest

-----------------------------------------------------------------------------
(* Types                                                                   *)

\* What is left to do of a call fits the point it has reached.
GoodCall(c) ==
    /\ c \in Call
    /\ c.stage # "idle" => c.block \in Offered
    /\ c.stage \in {"idle", "entered", "valid"} => c.todo = <<>>
    /\ c.stage \in {"applying", "read"} => c.todo \in Seq(EffectOf(c.block))
    /\ c.stage = "read" => c.todo # <<>> /\ Head(c.todo).op \in {"debit", "credit"}

TypeInv == TypeOK /\ \A t \in Thread : GoodCall(thread[t])

LEMMA OfferedBlocks ==
    /\ Offered \subseteq LedgerBlock
    /\ Genesis \in LedgerBlock
    /\ NoBlock \notin Offered /\ Genesis # NoBlock
    /\ Genesis.index \in Index /\ \A b \in Offered : b.index \in Index
    /\ Index \subseteq Nat
<1>1. Offered \subseteq LedgerBlock /\ Genesis \in LedgerBlock /\ NoBlock \notin LedgerBlock
  BY LedgerAssumption, ThreadAssumption
<1> QED
  BY <1>1 DEF Index, LedgerBlock

LEMMA IdleGood == GoodCall(Idle)
<1>1. <<>> \in Seq(Effect)
  OBVIOUS
<1> QED
  BY <1>1 DEF GoodCall, Idle, Call

\* A call to make is an effect of the block.
LEMMA HeadEffect ==
    ASSUME NEW t \in Thread, GoodCall(thread[t]), thread[t].todo # <<>>
    PROVE  /\ thread[t].stage \in {"applying", "read"}
           /\ Now(t) \in EffectOf(thread[t].block) /\ Now(t) \in Effect
           /\ Tail(thread[t].todo) \in Seq(EffectOf(thread[t].block))
           /\ Tail(thread[t].todo) \in Seq(Effect)
<1>1. thread[t].stage \in {"applying", "read"}
  BY DEF GoodCall, Call
<1>2. thread[t].todo \in Seq(EffectOf(thread[t].block)) /\ thread[t].todo \in Seq(Effect)
  BY <1>1 DEF GoodCall, Call
<1> QED
  BY <1>1, <1>2, HeadTailProperties DEF Now

\* Advance leaves a good call.
LEMMA AdvanceGood ==
    ASSUME NEW t \in Thread, GoodCall(thread[t]), thread[t].todo # <<>>
    PROVE  GoodCall([thread[t] EXCEPT !.stage = "applying", !.todo = Tail(@), !.read = 0])
<1> DEFINE c == thread[t]
           d == [c EXCEPT !.stage = "applying", !.todo = Tail(@), !.read = 0]
<1>1. c \in Call /\ c.stage \in {"applying", "read"} /\ c.block \in Offered
  BY HeadEffect DEF GoodCall
<1>2. Tail(c.todo) \in Seq(EffectOf(c.block)) /\ Tail(c.todo) \in Seq(Effect)
  BY HeadEffect
<1> HIDE DEF c
<1>3. d \in Call
  BY <1>1, <1>2 DEF Call
<1>4. d.stage = "applying" /\ d.block = c.block /\ d.todo = Tail(c.todo)
  BY <1>1 DEF Call
<1> HIDE DEF d
<1>5. GoodCall(d)
  BY <1>1, <1>2, <1>3, <1>4 DEF GoodCall
<1> QED
  BY <1>5 DEF d, c

\* The call that starts the effects of its block is good.
LEMMA StartGood ==
    ASSUME NEW t \in Thread, GoodCall(thread[t]), thread[t].stage = "valid"
    PROVE  GoodCall([thread[t] EXCEPT !.stage = "applying", !.todo = Effects(thread[t].block)])
<1> DEFINE c == thread[t]
           d == [c EXCEPT !.stage = "applying", !.todo = Effects(c.block)]
<1>1. c \in Call /\ c.block \in Offered
  BY DEF GoodCall
<1>2. Effects(c.block) \in Seq(EffectOf(c.block))
  BY <1>1, OfferedBlocks, EffectsType
<1>3. Effects(c.block) \in Seq(Effect)
  BY <1>2 DEF EffectOf
<1> HIDE DEF c
<1>4. d \in Call
  BY <1>1, <1>3 DEF Call
<1>5. d.stage = "applying" /\ d.block = c.block /\ d.todo = Effects(c.block)
  BY <1>1 DEF Call
<1> HIDE DEF d
<1>6. GoodCall(d)
  BY <1>1, <1>2, <1>4, <1>5 DEF GoodCall
<1> QED
  BY <1>6 DEF d, c

\* Setting a good call keeps the calls good.
LEMMA SetGood ==
    ASSUME TypeInv, NEW t \in Thread, NEW c, GoodCall(c), Set(t, c)
    PROVE  thread' \in [Thread -> Call] /\ \A u \in Thread : GoodCall(thread'[u])
<1>1. thread \in [Thread -> Call] /\ \A u \in Thread : GoodCall(thread[u])
  BY DEF TypeInv, TypeOK
<1>2. c \in Call
  BY DEF GoodCall
<1>3. thread' = [thread EXCEPT ![t] = c]
  BY DEF Set
<1> QED
  BY <1>1, <1>2, <1>3

\* Every step of any thread keeps the types.
LEMMA TypeStep ==
    ASSUME TypeInv, [Next]_vars
    PROVE  TypeInv'
<1> DEFINE Good == thread' \in [Thread -> Call] /\ \A u \in Thread : GoodCall(thread'[u])
<1>0. /\ table \in [Index -> Offered \union {Genesis, NoBlock}]
      /\ books \in Books /\ thread \in [Thread -> Call]
      /\ mempool \subseteq Client /\ checked \subseteq Client /\ overtaken \subseteq Client
      /\ decided \subseteq {b.id : b \in Offered} /\ crashes \in Nat /\ errors \in Nat
      /\ \A t \in Thread : GoodCall(thread[t])
  BY DEF TypeInv, TypeOK
<1>Q. ASSUME Good, table' \in [Index -> Offered \union {Genesis, NoBlock}], books' \in Books,
             mempool' \subseteq Client, checked' \subseteq Client, overtaken' \subseteq Client,
             decided' \subseteq {b.id : b \in Offered},
             crashes' \in Nat, errors' \in Nat
      PROVE  TypeInv'
  BY <1>Q DEF TypeInv, TypeOK
<1> HIDE DEF Good
<1>1. ASSUME NEW t \in Thread, NEW b \in Offered, NewBlock(t, b) PROVE TypeInv'
  <2> DEFINE c == [Idle EXCEPT !.stage = "entered", !.block = b]
  <2>1. GoodCall(c)
    <3>1. Idle \in Call /\ Idle.todo = <<>>
      BY IdleGood DEF GoodCall, Idle
    <3>2. c \in Call /\ c.stage = "entered" /\ c.block = b /\ c.todo = <<>>
      BY <3>1 DEF Call
    <3> HIDE DEF c
    <3> QED BY <3>2 DEF GoodCall
  <2>2. Set(t, c)
    BY <1>1 DEF NewBlock
  <2>3. Good
    <3> HIDE DEF c
    <3> QED BY <2>1, <2>2, SetGood DEF Good
  <2> QED BY <1>0, <1>1, <1>Q, <2>3 DEF NewBlock
<1>2. ASSUME NEW t \in Thread, NEW b \in Offered, Commit(t, b) PROVE TypeInv'
  <2> DEFINE c == [Idle EXCEPT !.stage = "entered", !.via = "commit", !.block = b]
  <2>1. GoodCall(c)
    <3>1. Idle \in Call /\ Idle.todo = <<>>
      BY IdleGood DEF GoodCall, Idle
    <3>2. c \in Call /\ c.stage = "entered" /\ c.block = b /\ c.todo = <<>>
      BY <3>1 DEF Call
    <3> HIDE DEF c
    <3> QED BY <3>2 DEF GoodCall
  <2>2. Set(t, c)
    BY <1>2 DEF Commit
  <2>3. Good
    <3> HIDE DEF c
    <3> QED BY <2>1, <2>2, SetGood DEF Good
  <2>4. decided' \subseteq {x.id : x \in Offered}
    BY <1>0, <1>2 DEF Commit
  <2> QED BY <1>0, <1>2, <1>Q, <2>3, <2>4 DEF Commit
<1>3. ASSUME NEW t \in Thread, Validate(t) PROVE TypeInv'
  <2> DEFINE c == [thread[t] EXCEPT !.stage = "valid"]
  <2>1. GoodCall(c)
    BY <1>0, <1>3 DEF GoodCall, Call, Validate
  <2>2. Set(t, c) \/ Set(t, Idle)
    BY <1>3 DEF Validate
  <2>3. Good
    <3> HIDE DEF c
    <3> QED BY <2>1, <2>2, IdleGood, SetGood DEF Good
  <2> QED BY <1>0, <1>3, <1>Q, <2>3 DEF Validate
<1>4. ASSUME NEW t \in Thread, Save(t) PROVE TypeInv'
  <2> DEFINE c == [thread[t] EXCEPT !.stage = "applying", !.todo = Effects(thread[t].block)]
  <2>1. GoodCall(c)
    BY <1>0, <1>4, StartGood DEF Save
  <2>2. Set(t, c)
    BY <1>4 DEF Save, StartEffects
  <2>3. Good
    <3> HIDE DEF c
    <3> QED BY <2>1, <2>2, SetGood DEF Good
  <2>4. thread[t].block \in Offered /\ thread[t].block.index \in Index
    BY <1>0, <1>4, OfferedBlocks DEF GoodCall, Save
  <2>5. table' \in [Index -> Offered \union {Genesis, NoBlock}]
    BY <1>0, <1>4, <2>4 DEF Save
  <2> QED BY <1>0, <1>4, <1>Q, <2>3, <2>5 DEF Save
<1>5. ASSUME NEW t \in Thread, SaveFails(t) PROVE TypeInv'
  <2> DEFINE c == [thread[t] EXCEPT !.stage = "applying", !.todo = Effects(thread[t].block)]
  <2>1. GoodCall(c)
    BY <1>0, <1>5, StartGood DEF SaveFails
  <2>2. Set(t, c)
    BY <1>5 DEF SaveFails, StartEffects
  <2>3. Good
    <3> HIDE DEF c
    <3> QED BY <2>1, <2>2, SetGood DEF Good
  <2> QED BY <1>0, <1>5, <1>Q, <2>3 DEF SaveFails
<1>6. ASSUME NEW t \in Thread, Read(t) PROVE TypeInv'
  <2> DEFINE c == [thread[t] EXCEPT !.stage = "read", !.read = books.balance[Now(t).account]]
  <2>1. Now(t) \in Effect
    BY <1>0, <1>6, HeadEffect DEF Read
  <2>2. books.balance[Now(t).account] \in Nat
    BY <1>0, <1>6, <2>1 DEF Read, Effect, Books
  <2>3. GoodCall(c)
    BY <1>0, <1>6, <2>2 DEF GoodCall, Call, Read, Now
  <2>4. Set(t, c)
    BY <1>6 DEF Read
  <2>5. Good
    <3> HIDE DEF c
    <3> QED BY <2>3, <2>4, SetGood DEF Good
  <2> QED BY <1>0, <1>6, <1>Q, <2>5 DEF Read
<1>7. ASSUME NEW t \in Thread, Advance(t), thread[t].todo # <<>> PROVE Good
  <2> DEFINE c == [thread[t] EXCEPT !.stage = "applying", !.todo = Tail(@), !.read = 0]
  <2>1. GoodCall(c)
    BY <1>0, <1>7, AdvanceGood
  <2>2. Set(t, c)
    BY <1>7 DEF Advance
  <2> HIDE DEF c
  <2> QED BY <2>1, <2>2, SetGood DEF Good
<1>8. ASSUME NEW t \in Thread, Write(t) PROVE TypeInv'
  <2>1. thread[t].todo # <<>> /\ Now(t).op \in {"debit", "credit"} /\ thread[t].read \in Nat
    BY <1>0, <1>8 DEF GoodCall, Write, Now, Call
  <2>2. Now(t) \in Effect
    BY <1>0, <2>1, HeadEffect
  <2>3. Now(t).account \in Account /\ Now(t).amount \in Nat
    BY <2>1, <2>2 DEF Effect
  <2>4. Changed(thread[t].read, Now(t)) \in Nat
    BY <2>1, <2>3 DEF Changed, Clamped
  <2>5. books' \in Books
    <3>1. books' = [books EXCEPT !.balance[Now(t).account] = Changed(thread[t].read, Now(t))]
      BY <1>8 DEF Write
    <3> QED BY <1>0, <2>3, <2>4, <3>1 DEF Books
  <2>6. Good
    BY <1>7, <1>8, <2>1 DEF Write
  <2> QED BY <1>0, <1>8, <1>Q, <2>5, <2>6 DEF Write
<1>9. ASSUME NEW t \in Thread, Store(t) PROVE TypeInv'
  <2>1. Now(t) \in Effect
    BY <1>0, <1>9, HeadEffect DEF Store
  <2>2. books' \in Books
    BY <1>0, <1>9, <2>1, AfterType DEF Store
  <2>3. Good
    BY <1>7, <1>9 DEF Store
  <2> QED BY <1>0, <1>9, <1>Q, <2>2, <2>3 DEF Store
<1>10. ASSUME NEW t \in Thread, WriteFails(t) PROVE TypeInv'
  <2>1. thread[t].todo # <<>>
    BY <1>0, <1>10 DEF GoodCall, WriteFails
  <2>2. Good
    BY <1>7, <1>10, <2>1 DEF WriteFails
  <2> QED BY <1>0, <1>10, <1>Q, <2>2 DEF WriteFails
<1>11. ASSUME NEW t \in Thread, ReadFails(t) PROVE TypeInv'
  <2>1. Good
    BY <1>11, IdleGood, SetGood DEF ReadFails, Good
  <2> QED BY <1>0, <1>11, <1>Q, <2>1 DEF ReadFails
<1>12. ASSUME NEW t \in Thread, Finish(t) PROVE TypeInv'
  <2>1. Good
    BY <1>12, IdleGood, SetGood DEF Finish, Good
  <2>2. mempool' \subseteq Client
    BY <1>0, <1>12 DEF Finish
  <2> QED BY <1>0, <1>12, <1>Q, <2>1, <2>2 DEF Finish
<1>13. ASSUME NEW h \in Client, Check(h) \/ Add(h) PROVE TypeInv'
  <2>1. Good
    BY <1>0, <1>13 DEF Check, Add, Good
  <2>2. mempool' \subseteq Client /\ checked' \subseteq Client
    BY <1>0, <1>13 DEF Check, Add
  <2> QED BY <1>0, <1>13, <1>Q, <2>1, <2>2 DEF Check, Add
<1>14. CASE Crash
  <2>1. Good
    <3>1. thread' = [t \in Thread |-> Idle]
      BY <1>14 DEF Crash
    <3>2. Idle \in Call
      BY IdleGood DEF GoodCall
    <3> QED BY <3>1, <3>2, IdleGood DEF Good
  <2> QED BY <1>0, <1>14, <1>Q, <2>1 DEF Crash
<1>15. CASE UNCHANGED vars
  <2>1. Good
    BY <1>0, <1>15 DEF vars, Good
  <2> QED BY <1>0, <1>15, <1>Q, <2>1 DEF vars
<1> QED
  BY <1>1, <1>2, <1>3, <1>4, <1>5, <1>6, <1>8, <1>9, <1>10, <1>11, <1>12, <1>13, <1>14, <1>15
     DEF Next, Step

LEMMA TypeInit == Init => TypeInv
<1> SUFFICES ASSUME Init PROVE TypeInv
  OBVIOUS
<1>1. EmptyBooks \in Books
  BY DEF EmptyBooks, Books
<1>2. Idle \in Call
  BY IdleGood DEF GoodCall
<1>3. thread \in [Thread -> Call] /\ \A t \in Thread : GoodCall(thread[t])
  BY <1>2, IdleGood DEF Init
<1>4. table \in [Index -> Offered \union {Genesis, NoBlock}]
  BY DEF Init
<1> QED
  BY <1>1, <1>3, <1>4 DEF Init, TypeInv, TypeOK

LEMMA TypeInvAlways == Spec => []TypeInv
BY TypeInit, TypeStep, PTL DEF Spec

\* The types of TypeOK hold for any number of threads that store blocks at once, and any
\* number of failures: no balance is ever negative (save_balance).
THEOREM BlockApplyType == Spec => []TypeOK
<1>1. TypeInv => TypeOK
  BY DEF TypeInv
<1> QED
  BY <1>1, TypeInvAlways, PTL

-----------------------------------------------------------------------------
(* Recorded and pending                                                    *)

\* A transaction that was recorded after an add_transaction looked for it, and before it
\* adds it, is overtaken.
CheckedOvertaken == checked \intersect books.recorded \subseteq overtaken

\* Every step of any thread and any request keeps that so.
LEMMA CheckedStep ==
    ASSUME TypeInv, CheckedOvertaken, [Next]_vars
    PROVE  CheckedOvertaken' /\ overtaken \subseteq overtaken'
<1>0. books \in Books
  BY DEF TypeInv, TypeOK
<1>1. ASSUME NEW t \in Thread, Store(t) PROVE CheckedOvertaken' /\ overtaken \subseteq overtaken'
  <2>1. /\ checked' = checked
        /\ overtaken' = overtaken \union (checked \intersect (books'.recorded \ books.recorded))
    BY <1>1 DEF Store
  <2> QED BY <2>1 DEF CheckedOvertaken
<1>2. ASSUME NEW t \in Thread, Write(t) PROVE CheckedOvertaken' /\ overtaken \subseteq overtaken'
  <2>1. books'.recorded = books.recorded /\ checked' = checked /\ overtaken' = overtaken
    BY <1>0, <1>2 DEF Write, Books
  <2> QED BY <2>1 DEF CheckedOvertaken
<1>3. ASSUME NEW h \in Client, Check(h) PROVE CheckedOvertaken' /\ overtaken \subseteq overtaken'
  BY <1>3 DEF Check, CheckedOvertaken
<1>4. ASSUME NEW h \in Client, Add(h) PROVE CheckedOvertaken' /\ overtaken \subseteq overtaken'
  BY <1>4 DEF Add, CheckedOvertaken
<1>5. ASSUME NEW t \in Thread, NEW b \in Offered, NewBlock(t, b) \/ Commit(t, b)
      PROVE  UNCHANGED <<books, checked, overtaken>>
  BY <1>5 DEF NewBlock, Commit
<1>6. ASSUME NEW t \in Thread,
             \/ Validate(t) \/ Save(t) \/ SaveFails(t)
             \/ Read(t) \/ ReadFails(t) \/ WriteFails(t) \/ Finish(t)
      PROVE  UNCHANGED <<books, checked, overtaken>>
  BY <1>6 DEF Validate, Save, SaveFails, Read, ReadFails, WriteFails, Finish
<1>7. CASE Crash
  BY <1>7 DEF Crash, CheckedOvertaken
<1>8. ASSUME UNCHANGED <<books, checked, overtaken>>
      PROVE  CheckedOvertaken' /\ overtaken \subseteq overtaken'
  BY <1>8 DEF CheckedOvertaken
<1>9. CASE UNCHANGED vars
  BY <1>8, <1>9 DEF vars
<1> QED
  BY <1>1, <1>2, <1>3, <1>4, <1>5, <1>6, <1>7, <1>8, <1>9 DEF Next, Step

\* A pending transaction that is recorded, and was not overtaken, belongs to a block whose
\* add_block has yet to take the transactions of the block out of the mempool.
StillToRemove ==
    errors = 0 =>
        \A h \in (mempool \intersect books.recorded) \ overtaken :
            \E t \in Thread : /\ thread[t].stage \in {"applying", "read"}
                              /\ h \in HashesOf(thread[t].block)

\* Every step of any thread keeps that so.
LEMMA RemoveStep ==
    ASSUME TypeInv, CheckedOvertaken, StillToRemove, [Next]_vars
    PROVE  StillToRemove'
<1>0. /\ books \in Books /\ thread \in [Thread -> Call] /\ errors \in Nat
      /\ \A t \in Thread : GoodCall(thread[t])
  BY DEF TypeInv, TypeOK
<1>1. SUFFICES ASSUME errors' = 0, NEW h \in (mempool' \intersect books'.recorded) \ overtaken'
               PROVE  \E t \in Thread : /\ thread'[t].stage \in {"applying", "read"}
                                        /\ h \in HashesOf(thread'[t].block)
  BY DEF StillToRemove
<1>N. h \notin overtaken
  BY <1>1, CheckedStep
<1>2. ASSUME errors = 0, h \in mempool \intersect books.recorded,
             \A t \in Thread : thread[t].stage \in {"applying", "read"} /\ h \in HashesOf(thread[t].block) =>
                 /\ thread'[t].stage \in {"applying", "read"}
                 /\ thread'[t].block = thread[t].block
      PROVE  \E t \in Thread : /\ thread'[t].stage \in {"applying", "read"}
                               /\ h \in HashesOf(thread'[t].block)
  <2>1. PICK t \in Thread : thread[t].stage \in {"applying", "read"} /\ h \in HashesOf(thread[t].block)
    BY <1>2, <1>N DEF StillToRemove
  <2> QED BY <1>2, <2>1
<1>3. ASSUME NEW t \in Thread, NEW c, Set(t, c),
             thread[t].stage \in {"applying", "read"} => c.stage \in {"applying", "read"} /\ c.block = thread[t].block
      PROVE  \A u \in Thread : thread[u].stage \in {"applying", "read"} =>
                 thread'[u].stage \in {"applying", "read"} /\ thread'[u].block = thread[u].block
  BY <1>0, <1>3 DEF Set
<1>4. ASSUME NEW t \in Thread, Advance(t), thread[t].stage \in {"applying", "read"}
      PROVE  /\ \A u \in Thread : thread[u].stage \in {"applying", "read"} =>
                    thread'[u].stage \in {"applying", "read"} /\ thread'[u].block = thread[u].block
             /\ thread'[t].stage = "applying" /\ thread'[t].block = thread[t].block
  BY <1>0, <1>4 DEF Advance, Set, Call
<1>5. ASSUME NEW t \in Thread, NEW b \in Offered, NewBlock(t, b) \/ Commit(t, b)
      PROVE  \E u \in Thread : /\ thread'[u].stage \in {"applying", "read"}
                               /\ h \in HashesOf(thread'[u].block)
  BY <1>0, <1>1, <1>2, <1>5 DEF NewBlock, Commit, Working, Set
<1>6. ASSUME NEW t \in Thread, Validate(t)
      PROVE  \E u \in Thread : /\ thread'[u].stage \in {"applying", "read"}
                               /\ h \in HashesOf(thread'[u].block)
  BY <1>0, <1>1, <1>2, <1>6 DEF Validate, Set
<1>7. ASSUME NEW t \in Thread, Save(t)
      PROVE  \E u \in Thread : /\ thread'[u].stage \in {"applying", "read"}
                               /\ h \in HashesOf(thread'[u].block)
  <2>1. \A u \in Thread : thread[u].stage \in {"applying", "read"} => thread'[u] = thread[u]
    BY <1>0, <1>7 DEF Save, StartEffects, Set
  <2> QED BY <1>1, <1>2, <1>7, <2>1 DEF Save
<1>8. ASSUME NEW t \in Thread, SaveFails(t) \/ WriteFails(t) \/ ReadFails(t) PROVE FALSE
  BY <1>0, <1>1, <1>8 DEF SaveFails, WriteFails, ReadFails
<1>9. ASSUME NEW t \in Thread, Read(t)
      PROVE  \E u \in Thread : /\ thread'[u].stage \in {"applying", "read"}
                               /\ h \in HashesOf(thread'[u].block)
  <2>1. \A u \in Thread : thread[u].stage \in {"applying", "read"} =>
            thread'[u].stage \in {"applying", "read"} /\ thread'[u].block = thread[u].block
    BY <1>0, <1>9 DEF Read, Set, Call
  <2> QED BY <1>1, <1>2, <1>9, <2>1 DEF Read
<1>10. ASSUME NEW t \in Thread, Write(t)
       PROVE  \E u \in Thread : /\ thread'[u].stage \in {"applying", "read"}
                                /\ h \in HashesOf(thread'[u].block)
  <2>1. \A u \in Thread : thread[u].stage \in {"applying", "read"} =>
            thread'[u].stage \in {"applying", "read"} /\ thread'[u].block = thread[u].block
    BY <1>4, <1>10 DEF Write
  <2>2. books'.recorded = books.recorded
    BY <1>0, <1>10 DEF Write, Books
  <2> QED BY <1>1, <1>2, <1>10, <2>1, <2>2 DEF Write
<1>11. ASSUME NEW t \in Thread, Store(t)
       PROVE  \E u \in Thread : /\ thread'[u].stage \in {"applying", "read"}
                                /\ h \in HashesOf(thread'[u].block)
  <2>1. /\ \A u \in Thread : thread[u].stage \in {"applying", "read"} =>
               thread'[u].stage \in {"applying", "read"} /\ thread'[u].block = thread[u].block
        /\ thread'[t].stage = "applying" /\ thread'[t].block = thread[t].block
    BY <1>4, <1>11 DEF Store
  <2>2. Now(t) \in Effect /\ Now(t) \in EffectOf(thread[t].block)
    BY <1>0, <1>11, HeadEffect DEF Store
  <2>3. books'.recorded = IF Now(t).op = "record" THEN books.recorded \union {Now(t).hash}
                          ELSE books.recorded
    BY <1>0, <1>11, <2>2, AfterType DEF Store
  <2>4. CASE h \in books.recorded
    BY <1>1, <1>2, <1>11, <2>1, <2>4 DEF Store
  <2>5. CASE h \notin books.recorded
    <3>1. Now(t).op = "record" /\ h = Now(t).hash
      BY <1>1, <2>3, <2>5
    <3>2. h \in HashesOf(thread[t].block)
      BY <2>2, <3>1 DEF EffectOf
    <3> QED BY <2>1, <3>2
  <2> QED BY <2>4, <2>5
<1>12. ASSUME NEW t \in Thread, Finish(t)
       PROVE  \E u \in Thread : /\ thread'[u].stage \in {"applying", "read"}
                                /\ h \in HashesOf(thread'[u].block)
  <2>1. h \notin HashesOf(thread[t].block) /\ h \in mempool /\ h \in books.recorded /\ errors = 0
    BY <1>1, <1>12 DEF Finish, HashesOf
  <2>2. \A u \in Thread \ {t} : thread'[u] = thread[u]
    BY <1>0, <1>12 DEF Finish, Set
  <2> QED BY <1>2, <2>1, <2>2
<1>13. ASSUME NEW k \in Client, Check(k) \/ Add(k)
       PROVE  \E u \in Thread : /\ thread'[u].stage \in {"applying", "read"}
                                /\ h \in HashesOf(thread'[u].block)
  <2>1. /\ books' = books /\ thread' = thread /\ errors' = errors
        /\ h \in mempool \/ h \in checked
    BY <1>1, <1>13 DEF Check, Add
  <2>2. h \notin checked
    BY <1>1, <1>N, <2>1 DEF CheckedOvertaken
  <2> QED BY <1>1, <1>2, <2>1, <2>2
<1>14. ASSUME Crash PROVE FALSE
  BY <1>1, <1>14 DEF Crash
<1>15. CASE UNCHANGED vars
  BY <1>1, <1>2, <1>15 DEF vars
<1> QED
  BY <1>5, <1>6, <1>7, <1>8, <1>9, <1>10, <1>11, <1>12, <1>13, <1>14, <1>15 DEF Next, Step

\* However many threads store blocks at once, and however many requests look a transaction
\* up and add it later, once no call of add_block is under way and none has failed, a recorded
\* transaction is pending only if it was recorded between the look-up of a request and its
\* mempool.add (add_transaction, remove_batch).
THEOREM NothingRecordedIsPending == Spec => []RecordedNotPending
<1>1. Init => StillToRemove /\ CheckedOvertaken
  BY DEF Init, StillToRemove, CheckedOvertaken
<1>2. TypeInv /\ StillToRemove => RecordedNotPending
  BY DEF StillToRemove, RecordedNotPending, AtRest, Working
<1>3. /\ TypeInv /\ StillToRemove /\ CheckedOvertaken /\ [Next]_vars
      => (StillToRemove /\ CheckedOvertaken)'
  BY RemoveStep, CheckedStep
<1> QED
  BY <1>1, <1>2, <1>3, TypeInvAlways, PTL DEF Spec

-----------------------------------------------------------------------------
(* The stored chain                                                        *)

\* tb is a table of blocks that links its rows from the genesis block up to index n.
IsTable(tb, n) ==
    /\ tb \in [Index -> Offered \union {Genesis, NoBlock}]
    /\ n \in Int /\ n >= Genesis.index /\ Genesis.index..n \subseteq Index
    /\ \A i \in Index : tb[i] # NoBlock <=> i \in Genesis.index..n
    /\ \A i \in Genesis.index..n : tb[i].index = i
    /\ tb[Genesis.index] = Genesis
    /\ \A i \in (Genesis.index + 1)..n : tb[i].prev = tb[i - 1].id

RowsOf(tb) == {tb[i] : i \in Index} \ {NoBlock}

BlocksOf(tb) == [i \in 1..(Cardinality(RowsOf(tb)) - 1) |-> tb[Genesis.index + i]]

LEMMA TableBounds ==
    ASSUME NEW tb, NEW n, IsTable(tb, n)
    PROVE  Genesis.index \in Int /\ n \in Int /\ n >= Genesis.index /\ n - Genesis.index \in Nat
<1>1. Genesis.index \in Nat
  BY OfferedBlocks
<1>2. n \in Int /\ n >= Genesis.index
  BY DEF IsTable
<1> QED
  BY <1>1, <1>2

\* The rows are those of the indexes up to n, and there is one for each.
LEMMA TableRows ==
    ASSUME NEW tb, NEW n, IsTable(tb, n)
    PROVE  /\ RowsOf(tb) = {tb[i] : i \in Genesis.index..n}
           /\ Cardinality(RowsOf(tb)) - 1 = n - Genesis.index
<1> DEFINE g == Genesis.index
           D == g..n
           R == {tb[i] : i \in D}
           f == [i \in D |-> tb[i]]
<1>1. g \in Int /\ n \in Int /\ n >= g
  BY TableBounds
<1>2. RowsOf(tb) = R
  BY DEF RowsOf, IsTable
<1>3. f \in Bijection(D, R)
  <2>1. \A i, j \in D : f[i] = f[j] => i = j
    BY DEF IsTable
  <2>2. f \in [D -> R] /\ \A x \in R : \E i \in D : f[i] = x
    OBVIOUS
  <2> HIDE DEF f, R, D
  <2> QED BY <2>1, <2>2 DEF Bijection, Injection, Surjection, IsInjective
<1>4. IsFiniteSet(D) /\ Cardinality(D) = n - g + 1
  BY <1>1, FS_Interval
<1>5. Cardinality(R) = Cardinality(D)
  <2>1. ExistsBijection(D, R)
    <3> HIDE DEF f, D, R
    <3> QED BY <1>3 DEF ExistsBijection
  <2> HIDE DEF D, R
  <2> QED BY <1>4, <2>1, FS_Bijection
<1> HIDE DEF D, R
<1>6. Cardinality(RowsOf(tb)) - 1 = n - g
  BY <1>1, <1>2, <1>4, <1>5
<1> QED
  BY <1>2, <1>6 DEF D, R

\* The tip is the row with the largest index.
LEMMA TableTip ==
    ASSUME NEW n, IsTable(table, n)
    PROVE  Tip = table[n] /\ Tip.index = n
<1>1. Rows = {table[i] : i \in Genesis.index..n}
  BY TableRows DEF Rows, RowsOf
<1>2. Genesis.index \in Int /\ n \in Int /\ n >= Genesis.index
  BY TableBounds
<1>3. \A i \in Genesis.index..n : table[i].index = i
  BY DEF IsTable
<1>4. /\ table[n] \in Rows
      /\ \A c \in Rows : c.index <= table[n].index
      /\ \A b \in Rows : (\A c \in Rows : c.index <= b.index) => b = table[n]
  BY <1>1, <1>2, <1>3
<1>5. Tip = table[n]
  BY <1>4 DEF Tip
<1> QED
  BY <1>2, <1>3, <1>5

\* The blocks of the table are a sequence, and end with the tip.
LEMMA TableBlocks ==
    ASSUME NEW tb, NEW n, IsTable(tb, n)
    PROVE  LET bs == BlocksOf(tb) IN
             /\ bs \in Seq(LedgerBlock)
             /\ Len(bs) = n - Genesis.index
             /\ tb[n] = IF bs = <<>> THEN Genesis ELSE bs[Len(bs)]
<1> DEFINE g == Genesis.index
           m == n - g
           bs == [i \in 1..m |-> tb[g + i]]
<1>1. g \in Int /\ n \in Int /\ m \in Nat
  BY TableBounds
<1>2. ASSUME NEW i \in 1..m PROVE tb[g + i] \in LedgerBlock
  <2>1. g + i \in g..n /\ g + i \in Index /\ g + i # g
    BY <1>1 DEF IsTable
  <2>2. tb[g + i] # NoBlock /\ tb[g + i].index = g + i
    BY <2>1 DEF IsTable
  <2>3. tb[g + i] \in Offered
    BY <2>1, <2>2 DEF IsTable
  <2> QED BY <2>3, OfferedBlocks
<1>3. bs \in Seq(LedgerBlock) /\ Len(bs) = m
  BY <1>1, <1>2
<1>4. tb[n] = IF bs = <<>> THEN Genesis ELSE bs[Len(bs)]
  <2>1. CASE m = 0
    <3>1. n = g
      BY <1>1, <2>1
    <3>2. bs = <<>>
      BY <1>3, <2>1
    <3> QED BY <3>1, <3>2 DEF IsTable
  <2>2. CASE m # 0
    <3>1. bs # <<>>
      BY <1>3, <2>2
    <3>2. m \in 1..m /\ g + m = n
      BY <1>1, <2>2
    <3>3. bs[m] = tb[n]
      BY <3>2
    <3> QED BY <1>3, <3>1, <3>3
  <2> QED BY <2>1, <2>2
<1>5. Cardinality(RowsOf(tb)) - 1 = m
  BY TableRows
<1>6. BlocksOf(tb) = bs
  BY <1>5 DEF BlocksOf
<1> HIDE DEF bs
<1> QED
  BY <1>3, <1>4, <1>6

\* A block that follows the tip makes the table one row longer, and its blocks too.
LEMMA TableGrows ==
    ASSUME NEW tb, NEW n, IsTable(tb, n), NEW b \in Offered, b.index = n + 1, b.prev = tb[n].id
    PROVE  LET next == [tb EXCEPT ![b.index] = b] IN
             /\ IsTable(next, n + 1)
             /\ BlocksOf(next) = Append(BlocksOf(tb), b)
<1> DEFINE g == Genesis.index
           m == n - g
           next == [tb EXCEPT ![b.index] = b]
<1>1. g \in Int /\ n \in Int /\ m \in Nat /\ n >= g /\ b.index \in Index /\ b # NoBlock
  <2>1. b.index \in Index /\ b # NoBlock
    BY OfferedBlocks
  <2> QED BY <2>1, TableBounds
<1>2. next[n + 1] = b /\ \A i \in Index \ {n + 1} : next[i] = tb[i]
  BY <1>1 DEF IsTable
<1>3. next \in [Index -> Offered \union {Genesis, NoBlock}]
  BY <1>1 DEF IsTable
<1>4. g..(n + 1) \subseteq Index
  BY <1>1 DEF IsTable
<1>5. /\ g..n \subseteq Index
      /\ \A i \in Index : tb[i] # NoBlock <=> i \in g..n
      /\ \A i \in g..n : tb[i].index = i
      /\ tb[g] = Genesis
      /\ \A i \in (g + 1)..n : tb[i].prev = tb[i - 1].id
  BY DEF IsTable
<1> HIDE DEF next
<1>6. \A i \in Index : next[i] # NoBlock <=> i \in g..(n + 1)
  <2>1. \A i \in Index : i \in g..(n + 1) <=> i \in g..n \/ i = n + 1
    BY <1>1, OfferedBlocks
  <2> QED BY <1>1, <1>2, <1>5, <2>1
<1>7. \A i \in g..(n + 1) : next[i].index = i
  <2>1. \A i \in g..(n + 1) : i = n + 1 \/ (i \in g..n /\ i \in Index \ {n + 1})
    BY <1>1, <1>4
  <2> QED BY <1>2, <1>5, <2>1
<1>8. next[g] = Genesis
  BY <1>1, <1>2, <1>5, OfferedBlocks
<1>9. ASSUME NEW i \in (g + 1)..(n + 1) PROVE next[i].prev = next[i - 1].id
  <2>1. i - 1 \in g..n /\ i - 1 \in Index \ {n + 1}
    BY <1>1, <1>5
  <2>2. next[i - 1] = tb[i - 1]
    BY <1>2, <2>1
  <2>3. CASE i = n + 1
    <3>1. i - 1 = n
      BY <1>1, <2>3
    <3> QED BY <1>2, <2>2, <2>3, <3>1
  <2>4. CASE i # n + 1
    <3>1. i \in (g + 1)..n /\ i \in Index \ {n + 1}
      BY <1>1, <1>4, <2>4
    <3> QED BY <1>2, <1>5, <2>2, <3>1
  <2> QED BY <2>3, <2>4
<1>10. IsTable(next, n + 1)
  BY <1>1, <1>3, <1>4, <1>6, <1>7, <1>8, <1>9 DEF IsTable
<1> DEFINE bs == [i \in 1..m |-> tb[g + i]]
           cs == [i \in 1..(m + 1) |-> next[g + i]]
<1>11. Cardinality(RowsOf(tb)) - 1 = m
  BY TableRows
<1>12. Cardinality(RowsOf(next)) - 1 = m + 1
  <2>1. Cardinality(RowsOf(next)) - 1 = (n + 1) - g
    BY <1>10, TableRows
  <2> QED BY <1>1, <2>1
<1>13. cs = Append(bs, b)
  <2>1. \A i \in 1..m : g + i \in Index \ {n + 1}
    BY <1>1, <1>5
  <2>2. \A i \in 1..m : next[g + i] = tb[g + i]
    BY <1>2, <2>1
  <2>3. next[g + (m + 1)] = b
    <3>1. g + (m + 1) = n + 1
      BY <1>1
    <3> QED BY <1>2, <3>1
  <2>4. Len(bs) = m
    BY <1>1
  <2>5. Append(bs, b) = [i \in 1..(m + 1) |-> IF i = m + 1 THEN b ELSE bs[i]]
    BY <1>1, <2>4
  <2>6. \A i \in 1..(m + 1) : i = m + 1 \/ i \in 1..m
    BY <1>1
  <2> HIDE DEF m
  <2> QED BY <2>2, <2>3, <2>5, <2>6
<1>14. BlocksOf(tb) = bs /\ BlocksOf(next) = cs
  BY <1>11, <1>12 DEF BlocksOf
<1> QED
  BY <1>10, <1>13, <1>14 DEF next

-----------------------------------------------------------------------------
(* Books replayed                                                          *)

\* Applying effects gives books.
LEMMA ThroughType ==
    ASSUME NEW bk \in Books, NEW effects \in Seq(Effect), NEW gone
    PROVE  Through(bk, effects, gone) \in Books
<1>1. Course(bk, effects, gone) \in [0..Len(effects) -> Books]
  BY CourseSteps DEF Follows
<1>2. Len(effects) \in 0..Len(effects)
  BY LenProperties
<1> QED
  BY <1>1, <1>2 DEF Through

LEMMA EmptyBooksType == EmptyBooks \in Books
BY DEF EmptyBooks, Books

\* The books after a block.
AfterBlock(bk, b) == Through(bk, Effects(b), {})

LEMMA AfterBlockType ==
    ASSUME NEW bk \in Books, NEW b \in LedgerBlock
    PROVE  AfterBlock(bk, b) \in Books
<1>1. Effects(b) \in Seq(Effect)
  <2>1. Effects(b) \in Seq(EffectOf(b))
    BY EffectsType
  <2> QED BY <2>1 DEF EffectOf
<1> QED
  BY <1>1, ThroughType DEF AfterBlock

\* r has the books after each of the blocks.
Replays(r, chain) ==
    /\ r \in [0..Len(chain) -> Books]
    /\ r[0] = EmptyBooks
    /\ \A n \in 1..Len(chain) : r[n] = AfterBlock(r[n - 1], chain[n])

\* What Replayed computes, block by block.
LEMMA ReplaySteps ==
    ASSUME NEW chain \in Seq(LedgerBlock)
    PROVE  \E r : Replays(r, chain) /\ Replayed(chain) = r[Len(chain)]
<1> DEFINE m == Len(chain)
           step == [n \in 1..m |-> [x \in Books |-> AfterBlock(x, chain[n])]]
           Is(r) == r = [n \in 0..m |-> IF n = 0 THEN EmptyBooks
                                        ELSE Through(r[n - 1], Effects(chain[n]), {})]
<1>1. m \in Nat /\ \A n \in 1..m : chain[n] \in LedgerBlock
  BY LenProperties, ElementOfSeq
<1>2. step \in [1..m -> [Books -> Books]]
  BY <1>1, AfterBlockType
<1>3. PICK g : IsCourse(g, Books, EmptyBooks, m, step)
  <2> HIDE DEF step, m
  <2> QED BY <1>1, <1>2, EmptyBooksType, CourseExists
<1>4. g \in [0..m -> Books] /\ g[0] = EmptyBooks
  BY <1>3 DEF IsCourse
<1>5. ASSUME NEW n \in 1..m PROVE g[n] = AfterBlock(g[n - 1], chain[n])
  <2>1. g[n] = step[n][g[n - 1]]
    <3> HIDE DEF step, m
    <3> QED BY <1>3 DEF IsCourse
  <2>2. n - 1 \in 0..m
    BY <1>1
  <2>3. g[n - 1] \in Books
    <3> HIDE DEF m
    <3> QED BY <1>4, <2>2
  <2>4. step[n] = [x \in Books |-> AfterBlock(x, chain[n])]
    OBVIOUS
  <2> QED BY <2>1, <2>3, <2>4
<1>6. Is(g)
  <2>1. g = [n \in 0..m |-> g[n]]
    BY <1>4
  <2>2. ASSUME NEW n \in 0..m
        PROVE  g[n] = IF n = 0 THEN EmptyBooks ELSE Through(g[n - 1], Effects(chain[n]), {})
    <3>1. n # 0 => n \in 1..m
      BY <1>1
    <3> HIDE DEF m, step
    <3> QED BY <3>1, <1>4, <1>5 DEF AfterBlock
  <2> HIDE DEF m, step
  <2> QED BY <2>1, <2>2
<1> DEFINE r == CHOOSE x : Is(x)
<1>7. Is(r)
  <2> HIDE DEF Is
  <2> QED BY <1>6
<1>8. Replayed(chain) = r[m]
  BY DEF Replayed
<1> HIDE DEF r
<1>9. r[0] = EmptyBooks
  BY <1>1, <1>7
<1>10. ASSUME NEW n \in 1..m PROVE r[n] = AfterBlock(r[n - 1], chain[n])
  <2>1. n \in 0..m /\ n # 0
    BY <1>1
  <2> QED BY <2>1, <1>7 DEF AfterBlock
<1> DEFINE S == {n \in Nat : r[n] \in Books}
<1>11. \A n \in 0..m : n \in S
  <2>1. 0 \in S
    BY <1>9, EmptyBooksType
  <2>2. ASSUME NEW n \in Nat, n < m, n \in S PROVE n + 1 \in S
    <3>1. n + 1 \in 1..m /\ (n + 1) - 1 = n
      BY <1>1, <2>2
    <3>2. r[n + 1] = AfterBlock(r[n], chain[n + 1])
      BY <1>10, <3>1
    <3>3. r[n] \in Books /\ chain[n + 1] \in LedgerBlock
      BY <1>1, <2>2, <3>1
    <3>4. AfterBlock(r[n], chain[n + 1]) \in Books
      BY <3>3, AfterBlockType
    <3> QED BY <3>2, <3>4
  <2> HIDE DEF S, m
  <2> QED BY <1>1, <2>1, <2>2, UpToSet
<1>12. r \in [0..m -> Books]
  <2>1. \A n \in 0..m : r[n] \in Books
    BY <1>11
  <2>2. r = [n \in 0..m |-> r[n]]
    BY <1>7
  <2> HIDE DEF m
  <2> QED BY <2>1, <2>2
<1>13. Replays(r, chain)
  <2> HIDE DEF step, Is
  <2> QED BY <1>9, <1>10, <1>12 DEF Replays
<1> QED
  BY <1>8, <1>13

\* One more block applies its effects to the books replayed so far.
LEMMA ReplayAppend ==
    ASSUME NEW chain \in Seq(LedgerBlock), NEW b \in LedgerBlock
    PROVE  /\ Replayed(Append(chain, b)) = AfterBlock(Replayed(chain), b)
           /\ Replayed(chain) \in Books
<1> DEFINE longer == Append(chain, b)
           m == Len(chain)
<1>1. /\ longer \in Seq(LedgerBlock) /\ Len(longer) = m + 1 /\ longer[m + 1] = b
      /\ \A i \in 1..m : longer[i] = chain[i]
      /\ m \in Nat
  BY AppendProperties, LenProperties
<1>2. PICK r : Replays(r, chain) /\ Replayed(chain) = r[m]
  BY ReplaySteps
<1> HIDE DEF longer
<1>3. PICK q : Replays(q, longer) /\ Replayed(longer) = q[m + 1]
  BY <1>1, ReplaySteps
<1> DEFINE S == {n \in Nat : q[n] = r[n]}
<1>4. \A n \in 0..m : n \in S
  <2>1. 0 \in S
    BY <1>2, <1>3 DEF Replays
  <2>2. ASSUME NEW n \in Nat, n < m, n \in S PROVE n + 1 \in S
    <3>1. n + 1 \in 1..m /\ n + 1 \in 1..(m + 1) /\ (n + 1) - 1 = n
      BY <1>1, <2>2
    <3>2. r[n + 1] = AfterBlock(r[n], chain[n + 1])
      BY <1>2, <3>1 DEF Replays
    <3>3. q[n + 1] = AfterBlock(q[n], longer[n + 1])
      BY <1>1, <1>3, <3>1 DEF Replays
    <3>4. longer[n + 1] = chain[n + 1] /\ q[n] = r[n]
      BY <1>1, <2>2, <3>1
    <3>5. q[n + 1] = r[n + 1]
      BY <3>2, <3>3, <3>4
    <3> QED BY <3>5
  <2> HIDE DEF S, m
  <2> QED BY <1>1, <2>1, <2>2, UpToSet
<1>5. q[m] = r[m]
  <2>1. m \in 0..m
    BY <1>1
  <2> QED BY <2>1, <1>4
<1>6. q[m + 1] = AfterBlock(q[m], b)
  <2>1. m + 1 \in 1..Len(longer) /\ (m + 1) - 1 = m
    BY <1>1
  <2> HIDE DEF m
  <2> QED BY <2>1, <1>1, <1>3 DEF Replays
<1>7. r[m] \in Books
  <2>1. m \in 0..m
    BY <1>1
  <2> QED BY <2>1, <1>2 DEF Replays
<1> QED
  BY <1>2, <1>3, <1>5, <1>6, <1>7 DEF longer

-----------------------------------------------------------------------------
(* One call of add_block at a time                                         *)

\* No two calls of add_block overlap.
Alone == \A t, u \in Thread : Working(t) /\ Working(u) => t = u

\* The books have the first k effects of the last block but those that were lost.
Applied(k) ==
    k \in 0..Len(last) /\ lost \subseteq 1..k /\ books = Course(before, last, lost)[k]

\* How many effects of the last block t has dealt with.
Reached(t) == Len(last) - Len(thread[t].todo)

\* The call under way has the rest of these effects to do.
Progress ==
    /\ before \in Books /\ last \in Seq(Effect)
    /\ (\A t \in Thread : thread[t].todo = <<>>) => Applied(Len(last))
    /\ \A t \in Thread : thread[t].todo # <<>> =>
         Applied(Reached(t)) /\ thread[t].todo = SubSeq(last, Reached(t) + 1, Len(last))

\* The balance a call has read is still the balance.
ReadFresh ==
    \A t \in Thread : thread[t].stage = "read" => thread[t].read = books.balance[Now(t).account]

\* Of the others none has anything to do.
LEMMA OthersDone ==
    ASSUME TypeInv, Alone, NEW t \in Thread, Working(t)
    PROVE  \A u \in Thread \ {t} : thread[u].stage = "idle" /\ thread[u].todo = <<>>
BY DEF TypeInv, Alone, Working, GoodCall

LEMMA TodoWorking ==
    ASSUME TypeInv, NEW t \in Thread, thread[t].todo # <<>>
    PROVE  Working(t)
BY DEF TypeInv, Working, GoodCall

\* The effects from the j-th on.
LEMMA RestOf ==
    ASSUME NEW effects \in Seq(Effect), NEW j \in Nat, j >= 1, j <= Len(effects) + 1
    PROVE  LET s == SubSeq(effects, j, Len(effects)) IN
             /\ s \in Seq(Effect)
             /\ Len(s) = Len(effects) - j + 1
             /\ \A i \in 1..(Len(effects) - j + 1) : s[i] = effects[j + i - 1]
<1> DEFINE n == Len(effects)
<1>1. n \in Nat /\ \A i \in 1..n : effects[i] \in Effect
  BY LenProperties, ElementOfSeq
<1>2. \A i \in j..n : effects[i] \in Effect
  BY <1>1
<1> HIDE DEF n
<1>3. /\ SubSeq(effects, j, n) \in Seq(Effect)
      /\ Len(SubSeq(effects, j, n)) = IF j <= n THEN n - j + 1 ELSE 0
      /\ \A i \in 1..(n - j + 1) : SubSeq(effects, j, n)[i] = effects[j + i - 1]
  BY <1>1, <1>2, SubSeqProperties
<1>4. (IF j <= n THEN n - j + 1 ELSE 0) = n - j + 1
  BY <1>1 DEF n
<1> QED
  BY <1>3, <1>4 DEF n

\* What is left after the next effect.
LEMMA NextEffect ==
    ASSUME TypeInv, Progress, NEW t \in Thread, thread[t].todo # <<>>
    PROVE  LET k == Reached(t) IN
             /\ k \in Nat /\ k + 1 \in 1..Len(last) /\ k \in 0..Len(last)
             /\ Now(t) = last[k + 1] /\ Now(t) \in Effect
             /\ Position(t) = k + 1
             /\ Tail(thread[t].todo) = SubSeq(last, k + 2, Len(last))
             /\ Len(Tail(thread[t].todo)) = Len(last) - (k + 1)
             /\ Applied(k)
<1> DEFINE k == Reached(t)
           todo == thread[t].todo
<1>1. last \in Seq(Effect) /\ Applied(k) /\ todo = SubSeq(last, k + 1, Len(last))
  BY DEF Progress
<1>2. todo \in Seq(Effect)
  BY DEF TypeInv, GoodCall, Call
<1>3. Len(last) \in Nat /\ Len(todo) \in Nat /\ Len(todo) # 0
  BY <1>1, <1>2, LenProperties, EmptySeq
<1>4. k = Len(last) - Len(todo) /\ k \in 0..Len(last) /\ k \in Nat /\ k + 1 \in 1..Len(last)
  BY <1>1, <1>3 DEF Applied, Reached
<1>5. Now(t) = todo[1] /\ Now(t) \in Effect
  BY <1>2, <1>3, HeadTailProperties DEF Now
<1> HIDE DEF k, todo
<1>6. \A i \in 1..Len(todo) : todo[i] = last[k + i]
  <2>1. k + 1 \in Nat /\ k + 1 >= 1 /\ k + 1 <= Len(last) + 1 /\ Len(last) - (k + 1) + 1 = Len(todo)
    BY <1>3, <1>4
  <2>2. \A i \in 1..Len(todo) : todo[i] = last[k + 1 + i - 1]
    BY <1>1, <2>1, RestOf
  <2>3. \A i \in 1..Len(todo) : k + 1 + i - 1 = k + i
    BY <1>3, <1>4
  <2> QED BY <2>2, <2>3
<1>7. Tail(todo) = SubSeq(last, k + 2, Len(last)) /\ Len(Tail(todo)) = Len(todo) - 1
  <2>1. /\ Tail(todo) \in Seq(Effect) /\ Len(Tail(todo)) = Len(todo) - 1
        /\ \A i \in 1..(Len(todo) - 1) : Tail(todo)[i] = todo[i + 1]
    BY <1>2, <1>3, HeadTailProperties, EmptySeq
  <2> DEFINE s == SubSeq(last, k + 2, Len(last))
  <2>2. /\ s \in Seq(Effect) /\ Len(s) = Len(todo) - 1
        /\ \A i \in 1..(Len(todo) - 1) : s[i] = last[k + i + 1]
    <3>1. k + 2 \in Nat /\ k + 2 >= 1 /\ k + 2 <= Len(last) + 1 /\ Len(last) - (k + 2) + 1 = Len(todo) - 1
      BY <1>3, <1>4
    <3> DEFINE j == k + 2
    <3> HIDE DEF j
    <3>5. j \in Nat /\ j >= 1 /\ j <= Len(last) + 1 /\ Len(last) - j + 1 = Len(todo) - 1
      BY <3>1 DEF j
    <3>6. SubSeq(last, j, Len(last)) = s
      BY DEF j
    <3> HIDE DEF s
    <3>2. /\ s \in Seq(Effect) /\ Len(s) = Len(todo) - 1
          /\ \A i \in 1..(Len(todo) - 1) : s[i] = last[k + 2 + i - 1]
      <4>1. /\ s \in Seq(Effect) /\ Len(s) = Len(last) - j + 1
            /\ \A i \in 1..(Len(last) - j + 1) : s[i] = last[j + i - 1]
        BY <1>1, <3>5, <3>6, RestOf
      <4> QED BY <4>1, <3>5 DEF j
    <3>3. \A i \in 1..(Len(todo) - 1) : k + 2 + i - 1 = k + i + 1
      BY <1>3, <1>4
    <3> QED BY <3>2, <3>3
  <2>3. ASSUME NEW i \in 1..(Len(todo) - 1) PROVE todo[i + 1] = last[k + i + 1]
    <3>1. i + 1 \in 1..Len(todo) /\ k + (i + 1) = k + i + 1
      BY <1>3, <1>4
    <3> QED BY <1>6, <3>1
  <2> HIDE DEF s
  <2>4. Tail(todo) = s
    BY <2>1, <2>2, <2>3, SeqEqual
  <2> QED BY <2>1, <2>4 DEF s
<1>8. Position(t) = k + 1
  BY <1>3, <1>4 DEF Position, todo
<1>9. Len(todo) - 1 = Len(last) - (k + 1)
  BY <1>3, <1>4
<1> QED
  <2>1. todo[1] = last[k + 1]
    BY <1>3, <1>6
  <2> QED BY <1>1, <1>4, <1>5, <1>7, <1>8, <1>9, <2>1 DEF k, todo

\* A step of a call that deals with no effect keeps the progress.
LEMMA ProgressStays ==
    ASSUME TypeInv, Progress, UNCHANGED <<books, before, last, lost>>,
           \A u \in Thread : thread'[u].todo = thread[u].todo
    PROVE  Progress'
<1>1. \A k : Applied(k) => Applied(k)'
  BY DEF Applied
<1> QED
  BY <1>1 DEF Progress, Applied, Reached

\* The effects of the next block are all to be applied to the books as they are.
LEMMA ProgressStarts ==
    ASSUME TypeInv, Alone, Progress, NEW t \in Thread, thread[t].stage = "valid",
           StartEffects(t), books' = books
    PROVE  Progress' /\ books = Through(before, last, lost)
<1> DEFINE effects == Effects(thread[t].block)
           m == Len(effects)
<1>1. /\ thread \in [Thread -> Call] /\ books \in Books
      /\ thread[t].block \in Offered /\ thread[t].todo = <<>>
  BY DEF TypeInv, TypeOK, GoodCall
<1>2. \A u \in Thread : thread[u].todo = <<>>
  BY <1>1, OthersDone DEF Working
<1>3. effects \in Seq(Effect) /\ m \in Nat
  <2>1. effects \in Seq(EffectOf(thread[t].block))
    BY <1>1, OfferedBlocks, EffectsType
  <2> HIDE DEF effects
  <2>2. effects \in Seq(Effect)
    BY <2>1 DEF EffectOf
  <2> QED BY <2>2, LenProperties
<1>4. before' = books /\ last' = effects /\ lost' = {}
  BY DEF StartEffects
<1>5. /\ thread'[t].todo = effects
      /\ \A u \in Thread \ {t} : thread'[u].todo = <<>>
  BY <1>1, <1>2 DEF StartEffects, Set, Call
<1> HIDE DEF effects
<1>6. books = Course(before', last', lost')[0]
  BY <1>1, <1>3, <1>4, CourseSteps DEF Follows
<1>7. SubSeq(effects, 1, m) = effects
  <2> DEFINE s == SubSeq(effects, 1, m)
  <2>1. s \in Seq(Effect) /\ Len(s) = m - 1 + 1 /\ \A i \in 1..(m - 1 + 1) : s[i] = effects[1 + i - 1]
    <3>1. 1 \in Nat /\ 1 >= 1 /\ 1 <= m + 1
      BY <1>3
    <3> QED BY <1>3, <3>1, RestOf
  <2> HIDE DEF s
  <2>2. Len(s) = Len(effects) /\ \A i \in 1..Len(s) : s[i] = effects[i]
    BY <1>3, <2>1
  <2>3. s = effects
    BY <1>3, <2>1, <2>2, SeqEqual
  <2> QED BY <2>3 DEF s
<1>8. ASSUME effects = <<>> PROVE Progress'
  <2>1. Len(last') = 0
    BY <1>4, <1>8
  <2>2. (Applied(Len(last)))'
    BY <1>4, <1>6, <2>1 DEF Applied
  <2>3. \A u \in Thread : thread'[u].todo = <<>>
    BY <1>5, <1>8
  <2> QED BY <1>1, <1>3, <1>4, <2>2, <2>3 DEF Progress
<1>9. ASSUME effects # <<>> PROVE Progress'
  <2>1. Reached(t)' = 0
    BY <1>3, <1>4, <1>5 DEF Reached
  <2>2. Applied(Reached(t))'
    BY <1>3, <1>4, <1>6, <2>1 DEF Applied
  <2>3. thread'[t].todo = SubSeq(last', Reached(t)' + 1, Len(last'))
    BY <1>4, <1>5, <1>7, <2>1
  <2>4. ~ \A u \in Thread : thread'[u].todo = <<>>
    BY <1>5, <1>9
  <2>5. ASSUME NEW u \in Thread, thread'[u].todo # <<>> PROVE u = t
    BY <1>5, <2>5
  <2> QED BY <1>1, <1>3, <1>4, <2>2, <2>3, <2>4, <2>5 DEF Progress
<1>10. books = Through(before, last, lost)
  BY <1>2 DEF Progress, Applied, Through
<1> QED
  BY <1>8, <1>9, <1>10

\* Dealing with the next effect, whether it is applied or lost.
LEMMA ProgressAdvances ==
    ASSUME TypeInv, Alone, Progress, NEW t \in Thread, thread[t].todo # <<>>,
           Advance(t), UNCHANGED <<before, last>>, lost' \subseteq 1..(Reached(t) + 1),
           books' = Course(before, last, lost')[Reached(t) + 1]
    PROVE  Progress'
<1>0. /\ thread \in [Thread -> Call] /\ before \in Books /\ last \in Seq(Effect)
      /\ Len(last) \in Nat
  BY LenProperties DEF TypeInv, TypeOK, Progress
<1>1. PICK k : k = Reached(t)
  OBVIOUS
<1>2. /\ k \in Nat /\ k + 1 \in 1..Len(last)
      /\ Tail(thread[t].todo) = SubSeq(last, k + 2, Len(last))
      /\ Len(Tail(thread[t].todo)) = Len(last) - (k + 1)
  BY <1>1, NextEffect
<1>3. /\ thread'[t].todo = Tail(thread[t].todo)
      /\ \A u \in Thread \ {t} : thread'[u].todo = <<>>
  <2>1. \A u \in Thread \ {t} : thread[u].todo = <<>>
    BY OthersDone, TodoWorking
  <2> QED BY <1>0, <2>1 DEF Advance, Set, Call
<1>4. Applied(k + 1)'
  BY <1>0, <1>1, <1>2 DEF Applied
<1>5. before' \in Books /\ last' \in Seq(Effect) /\ last' = last /\ Len(last') = Len(last)
  BY <1>0
<1>6. Len(thread'[t].todo) = Len(last) - (k + 1)
  BY <1>2, <1>3
<1>7. CASE thread'[t].todo = <<>>
  <2>1. k + 1 = Len(last')
    <3>1. Len(thread'[t].todo) = 0
      BY <1>7
    <3> QED BY <1>0, <1>2, <1>5, <1>6, <3>1
  <2>2. \A u \in Thread : thread'[u].todo = <<>>
    BY <1>3, <1>7
  <2> QED BY <1>4, <1>5, <2>1, <2>2 DEF Progress, Applied
<1>8. CASE thread'[t].todo # <<>>
  <2>1. Reached(t)' = k + 1
    <3>1. Reached(t)' = Len(last') - Len(thread'[t].todo)
      BY DEF Reached
    <3> QED BY <1>0, <1>2, <1>5, <1>6, <3>1
  <2>2. thread'[t].todo = SubSeq(last', (k + 1) + 1, Len(last'))
    BY <1>2, <1>3, <1>5
  <2>3. ASSUME NEW u \in Thread, thread'[u].todo # <<>> PROVE u = t
    BY <1>3, <2>3
  <2>4. (Applied(Reached(t)))'
    BY <1>4, <2>1 DEF Applied
  <2> QED BY <1>5, <1>8, <2>1, <2>2, <2>3, <2>4 DEF Progress
<1> QED
  BY <1>7, <1>8

\* A call that ends early loses the rest of its effects.
LEMMA ProgressEnds ==
    ASSUME TypeInv, Progress, NEW t \in Thread, thread[t].todo # <<>>,
           UNCHANGED <<books, before, last>>, lost' = lost \union (Position(t)..Len(last)),
           \A u \in Thread : thread'[u].todo = <<>>
    PROVE  Progress'
<1>0. before \in Books /\ last \in Seq(Effect) /\ Len(last) \in Nat
  BY LenProperties DEF Progress
<1>1. PICK k : k = Reached(t)
  OBVIOUS
<1>2. k \in Nat /\ k \in 0..Len(last) /\ Position(t) = k + 1 /\ Applied(k)
  BY <1>1, NextEffect
<1>3. PICK gone : gone = lost'
  OBVIOUS
<1>4. gone = lost \union ((k + 1)..Len(last)) /\ lost \subseteq 1..k /\ books = Course(before, last, lost)[k]
  BY <1>2, <1>3 DEF Applied
<1>5. Course(before, last, lost)[k] = Course(before, last, gone)[k]
  <2>1. \A i \in 1..k : i \in lost <=> i \in gone
    BY <1>2, <1>4
  <2> QED BY <1>0, <1>2, <2>1, CourseAgrees
<1>6. Through(before, last, gone) = Course(before, last, gone)[k]
  BY <1>0, <1>2, <1>4, CourseStops
<1>7. gone \subseteq 1..Len(last)
  BY <1>0, <1>2, <1>4
<1>8. (Applied(Len(last)))'
  <2>1. books = Course(before, last, gone)[Len(last)]
    BY <1>4, <1>5, <1>6 DEF Through
  <2>2. books' = books /\ before' = before /\ last' = last /\ lost' = gone
    BY <1>3
  <2>3. books' = Course(before', last', lost')[Len(last')]
    BY <2>1, <2>2
  <2>4. lost' \subseteq 1..Len(last') /\ Len(last') \in 0..Len(last')
    <3>1. Len(last') = Len(last)
      BY <2>2
    <3>2. Len(last) \in 0..Len(last)
      BY <1>0
    <3> QED BY <1>7, <2>2, <3>1, <3>2
  <2> QED BY <2>3, <2>4 DEF Applied
<1> QED
  BY <1>0, <1>8 DEF Progress

\* Every step keeps the progress of the call under way, while calls do not overlap.
LEMMA ProgressStep ==
    ASSUME TypeInv, Alone, Progress, ReadFresh, [Next]_vars
    PROVE  Progress'
<1>0. /\ thread \in [Thread -> Call] /\ before \in Books /\ last \in Seq(Effect) /\ books \in Books
      /\ \A u \in Thread : GoodCall(thread[u])
  BY DEF TypeInv, TypeOK, Progress
<1>1. ASSUME NEW t \in Thread, NEW b \in Offered, NewBlock(t, b) \/ Commit(t, b) PROVE Progress'
  <2>1. thread[t].todo = <<>>
    BY <1>0, <1>1 DEF NewBlock, Commit, Working, GoodCall
  <2>2. thread'[t].todo = <<>>
    BY <1>0, <1>1 DEF NewBlock, Commit, Set, Idle
  <2>3. \A u \in Thread : thread'[u].todo = thread[u].todo
    BY <1>0, <1>1, <2>1, <2>2 DEF NewBlock, Commit, Set
  <2> QED BY <1>1, <2>3, ProgressStays DEF NewBlock, Commit, history
<1>2. ASSUME NEW t \in Thread, Validate(t) PROVE Progress'
  <2>1. thread[t].todo = <<>>
    BY <1>0, <1>2 DEF Validate, GoodCall
  <2>2. thread'[t].todo = <<>>
    BY <1>0, <1>2, <2>1 DEF Validate, Set, Idle, Call
  <2>3. \A u \in Thread : thread'[u].todo = thread[u].todo
    BY <1>0, <1>2, <2>1, <2>2 DEF Validate, Set
  <2> QED BY <1>2, <2>3, ProgressStays DEF Validate, history
<1>3. ASSUME NEW t \in Thread, Save(t) \/ SaveFails(t) PROVE Progress'
  BY <1>3, ProgressStarts DEF Save, SaveFails
<1>4. ASSUME NEW t \in Thread, Read(t) PROVE Progress'
  <2>1. \A u \in Thread : thread'[u].todo = thread[u].todo
    BY <1>0, <1>4 DEF Read, Set, Call
  <2> QED BY <1>4, <2>1, ProgressStays DEF Read, history
<1>5. ASSUME NEW t \in Thread, thread[t].todo # <<>>, Advance(t), UNCHANGED <<before, last, lost>>,
             books' = After(books, Now(t))
      PROVE  Progress'
  <2>1. PICK k : k = Reached(t)
    OBVIOUS
  <2>2. k \in Nat /\ k + 1 \in 1..Len(last) /\ Now(t) = last[k + 1] /\ Applied(k)
    BY <1>5, <2>1, NextEffect
  <2>3. lost \subseteq 1..k /\ books = Course(before, last, lost)[k]
    BY <2>2 DEF Applied
  <2>4. Course(before, last, lost)[k + 1] = After(Course(before, last, lost)[k], last[k + 1])
    <3>1. k + 1 \notin lost /\ (k + 1) - 1 = k
      BY <2>2, <2>3
    <3> QED BY <1>0, <2>2, <3>1, CourseSteps DEF Follows
  <2>5. books' = Course(before, last, lost')[Reached(t) + 1]
    BY <1>5, <2>1, <2>2, <2>3, <2>4
  <2>6. lost' \subseteq 1..(Reached(t) + 1)
    BY <1>5, <2>1, <2>2, <2>3
  <2> QED BY <1>5, <2>5, <2>6, ProgressAdvances
<1>6. ASSUME NEW t \in Thread, Write(t) PROVE Progress'
  <2>1. thread[t].todo # <<>> /\ Now(t).op \in {"debit", "credit"}
    BY <1>0, <1>6 DEF GoodCall, Write, Now
  <2>2. Now(t) \in Effect
    BY <1>0, <2>1, HeadEffect
  <2>3. thread[t].read = books.balance[Now(t).account]
    BY <1>6 DEF ReadFresh, Write
  <2>4. Now(t).account \in Account
    BY <2>1, <2>2 DEF Effect
  <2>5. books' = [books EXCEPT !.balance[Now(t).account] = Changed(books.balance[Now(t).account], Now(t))]
    BY <1>6, <2>3 DEF Write
  <2>6. books' = After(books, Now(t))
    BY <1>0, <2>1, <2>4, <2>5 DEF After, Changed, Books
  <2> QED BY <1>5, <1>6, <2>1, <2>6 DEF Write, history
<1>7. ASSUME NEW t \in Thread, Store(t) PROVE Progress'
  BY <1>5, <1>7 DEF Store, history
<1>8. ASSUME NEW t \in Thread, WriteFails(t) PROVE Progress'
  <2>1. thread[t].todo # <<>>
    BY <1>0, <1>8 DEF GoodCall, WriteFails
  <2>2. PICK k : k = Reached(t)
    OBVIOUS
  <2>3. /\ k \in Nat /\ k \in 0..Len(last) /\ k + 1 \in 1..Len(last)
        /\ Position(t) = k + 1 /\ Applied(k)
    BY <2>1, <2>2, NextEffect
  <2>4. PICK gone : gone = lost'
    OBVIOUS
  <2>5. gone = lost \union {k + 1} /\ lost \subseteq 1..k /\ books = Course(before, last, lost)[k]
    BY <1>8, <2>3, <2>4 DEF WriteFails, Applied
  <2>6. Course(before, last, lost)[k] = Course(before, last, gone)[k]
    <3>1. \A i \in 1..k : i \in lost <=> i \in gone
      BY <2>3, <2>5
    <3> QED BY <1>0, <2>3, <3>1, CourseAgrees
  <2>7. Course(before, last, gone)[k + 1] = Course(before, last, gone)[k]
    <3>1. k + 1 \in gone /\ (k + 1) - 1 = k
      BY <2>3, <2>5
    <3> QED BY <1>0, <2>3, <3>1, CourseSteps DEF Follows
  <2>8. books' = Course(before, last, lost')[Reached(t) + 1]
    BY <1>8, <2>2, <2>4, <2>5, <2>6, <2>7 DEF WriteFails
  <2>9. lost' \subseteq 1..(Reached(t) + 1)
    <3>1. k + 1 \in 1..(k + 1) /\ \A i \in 1..k : i \in 1..(k + 1)
      BY <2>3
    <3>2. gone \subseteq 1..(k + 1)
      BY <2>5, <3>1
    <3> QED BY <2>2, <2>4, <3>2
  <2> QED BY <1>8, <2>1, <2>8, <2>9, ProgressAdvances DEF WriteFails
<1>9. ASSUME NEW t \in Thread, ReadFails(t) PROVE Progress'
  <2>1. \A u \in Thread \ {t} : thread[u].todo = <<>>
    BY <1>9, OthersDone DEF ReadFails, Working
  <2>2. \A u \in Thread : thread'[u].todo = <<>>
    BY <1>0, <1>9, <2>1 DEF ReadFails, Set, Idle
  <2> QED BY <1>9, <2>2, ProgressEnds DEF ReadFails
<1>10. ASSUME NEW t \in Thread, Finish(t) PROVE Progress'
  <2>1. \A u \in Thread : thread'[u].todo = thread[u].todo
    BY <1>0, <1>10 DEF Finish, Set, Idle
  <2> QED BY <1>10, <2>1, ProgressStays DEF Finish, history
<1>11. ASSUME NEW h \in Client, Check(h) \/ Add(h) PROVE Progress'
  BY <1>11, ProgressStays DEF Check, Add, history
<1>12. CASE Crash
  <2>1. \A u \in Thread : thread'[u].todo = <<>>
    BY <1>12 DEF Crash, Idle
  <2>2. CASE \A u \in Thread : thread[u].todo = <<>>
    <3>1. UNION {Position(t)..Len(last) : t \in {u \in Thread : thread[u].todo # <<>>}} = {}
      BY <2>2
    <3>2. lost' = lost
      BY <1>12, <3>1 DEF Crash
    <3> QED BY <1>12, <2>1, <2>2, <3>2, ProgressStays DEF Crash
  <2>3. ASSUME NEW t \in Thread, thread[t].todo # <<>> PROVE Progress'
    <3>1. \A u \in Thread \ {t} : thread[u].todo = <<>>
      BY <2>3, OthersDone, TodoWorking
    <3>2. {u \in Thread : thread[u].todo # <<>>} = {t}
      BY <2>3, <3>1
    <3>3. UNION {Position(x)..Len(last) : x \in {t}} = Position(t)..Len(last)
      OBVIOUS
    <3>4. lost' = lost \union (Position(t)..Len(last))
      BY <1>12, <3>2, <3>3 DEF Crash
    <3> QED BY <1>12, <2>1, <2>3, <3>4, ProgressEnds DEF Crash
  <2> QED BY <2>2, <2>3
<1>13. CASE UNCHANGED vars
  BY <1>13, ProgressStays DEF vars, history
<1> QED
  BY <1>1, <1>2, <1>3, <1>4, <1>6, <1>7, <1>8, <1>9, <1>10, <1>11, <1>12, <1>13 DEF Next, Step

\* What a step does to what is stored: nothing, or more of the last block is lost and the step
\* has failed or stopped the process, or a validated block begins to be applied.
StoresNothing ==
    /\ UNCHANGED <<table, before, last, lost>>
    /\ errors' = 0 /\ crashes' = 0 => errors = 0 /\ crashes = 0

LosesMore ==
    /\ UNCHANGED <<table, before, last>>
    /\ lost \subseteq lost'
    /\ ~(errors' = 0 /\ crashes' = 0)

Stores(t) ==
    /\ thread[t].stage = "valid"
    /\ StartEffects(t)
    /\ UNCHANGED books
    /\ \/ /\ table' = [table EXCEPT ![thread[t].block.index] = thread[t].block]
          /\ UNCHANGED <<errors, crashes>>
       \/ UNCHANGED table /\ errors' # 0

LEMMA StepKinds ==
    ASSUME TypeInv, [Next]_vars
    PROVE  StoresNothing \/ LosesMore \/ \E t \in Thread : Stores(t)
<1>0. crashes \in Nat /\ errors \in Nat
  BY DEF TypeInv, TypeOK
<1>1. ASSUME NEW t \in Thread, NEW b \in Offered, NewBlock(t, b) \/ Commit(t, b) PROVE StoresNothing
  BY <1>1 DEF NewBlock, Commit, StoresNothing, history
<1>2. ASSUME NEW t \in Thread, Validate(t) \/ Read(t) \/ Write(t) \/ Store(t) \/ Finish(t)
      PROVE  StoresNothing
  BY <1>2 DEF Validate, Read, Write, Store, Finish, StoresNothing, history
<1>3. ASSUME NEW t \in Thread, Save(t) PROVE Stores(t)
  BY <1>3 DEF Save, Stores
<1>4. ASSUME NEW t \in Thread, SaveFails(t) PROVE Stores(t)
  BY <1>0, <1>4 DEF SaveFails, Stores
<1>5. ASSUME NEW t \in Thread, WriteFails(t) PROVE LosesMore
  BY <1>0, <1>5 DEF WriteFails, LosesMore
<1>6. ASSUME NEW t \in Thread, ReadFails(t) PROVE LosesMore
  BY <1>0, <1>6 DEF ReadFails, LosesMore
<1>7. ASSUME NEW h \in Client, Check(h) \/ Add(h) PROVE StoresNothing
  BY <1>7 DEF Check, Add, StoresNothing, history
<1>8. CASE Crash
  BY <1>0, <1>8 DEF Crash, LosesMore
<1>9. CASE UNCHANGED vars
  BY <1>9 DEF vars, StoresNothing, history
<1> QED
  BY <1>1, <1>2, <1>3, <1>4, <1>5, <1>6, <1>7, <1>8, <1>9 DEF Next, Step

\* The balance read is still the balance: only the call under way writes.
LEMMA ReadStep ==
    ASSUME TypeInv, Alone, ReadFresh, [Next]_vars
    PROVE  ReadFresh'
<1>0. thread \in [Thread -> Call] /\ \A u \in Thread : GoodCall(thread[u])
  BY DEF TypeInv, TypeOK
<1>1. ASSUME UNCHANGED books,
             \A u \in Thread : thread'[u].stage = "read" => thread'[u] = thread[u]
      PROVE  ReadFresh'
  BY <1>1 DEF ReadFresh, Now
<1>2. ASSUME NEW t \in Thread, Working(t), \A u \in Thread \ {t} : thread'[u] = thread[u],
             thread'[t].stage # "read"
      PROVE  ReadFresh'
  <2>1. \A u \in Thread : thread'[u].stage # "read"
    BY <1>2, OthersDone
  <2> QED BY <2>1 DEF ReadFresh
<1>3. ASSUME NEW t \in Thread, NEW b \in Offered, NewBlock(t, b) \/ Commit(t, b) PROVE ReadFresh'
  BY <1>0, <1>1, <1>3 DEF NewBlock, Commit, Set, Idle
<1>4. ASSUME NEW t \in Thread, Validate(t) PROVE ReadFresh'
  BY <1>0, <1>2, <1>4 DEF Validate, Set, Idle, Call, Working
<1>5. ASSUME NEW t \in Thread, Save(t) \/ SaveFails(t) PROVE ReadFresh'
  BY <1>0, <1>2, <1>5 DEF Save, SaveFails, StartEffects, Set, Call, Working
<1>6. ASSUME NEW t \in Thread, Read(t) PROVE ReadFresh'
  <2>1. /\ thread'[t].todo = thread[t].todo /\ thread'[t].read = books.balance[Now(t).account]
        /\ \A u \in Thread \ {t} : thread'[u] = thread[u]
    BY <1>0, <1>6 DEF Read, Set, Call
  <2>2. \A u \in Thread \ {t} : thread'[u].stage # "read"
    BY <1>6, <2>1, OthersDone DEF Read, Working
  <2>3. Now(t)' = Now(t)
    BY <2>1 DEF Now
  <2>4. books' = books
    BY <1>6 DEF Read
  <2> QED BY <2>1, <2>2, <2>3, <2>4 DEF ReadFresh
<1>7. ASSUME NEW t \in Thread, Advance(t), Working(t) PROVE ReadFresh'
  BY <1>0, <1>2, <1>7 DEF Advance, Set, Call
<1>8. ASSUME NEW t \in Thread, Write(t) \/ Store(t) \/ WriteFails(t) PROVE ReadFresh'
  BY <1>7, <1>8 DEF Write, Store, WriteFails, Working
<1>9. ASSUME NEW t \in Thread, ReadFails(t) \/ Finish(t) PROVE ReadFresh'
  BY <1>0, <1>2, <1>9 DEF ReadFails, Finish, Set, Idle, Working
<1>10. ASSUME NEW h \in Client, Check(h) \/ Add(h) PROVE ReadFresh'
  BY <1>1, <1>10 DEF Check, Add
<1>11. CASE Crash
  BY <1>11 DEF Crash, ReadFresh, Idle
<1>12. CASE UNCHANGED vars
  BY <1>1, <1>12 DEF vars
<1> QED
  BY <1>3, <1>4, <1>5, <1>6, <1>8, <1>9, <1>10, <1>11, <1>12 DEF Next, Step

\* A validated block follows the tip.
ValidKept == \A t \in Thread : thread[t].stage = "valid" => Valid(thread[t].block)

\* Every step keeps that so: only the validated block itself changes the tip.
LEMMA ValidStep ==
    ASSUME TypeInv, Alone, ValidKept, [Next]_vars
    PROVE  ValidKept'
<1>0. thread \in [Thread -> Call] /\ \A u \in Thread : GoodCall(thread[u])
  BY DEF TypeInv, TypeOK
<1>1. ASSUME UNCHANGED table PROVE \A b : Valid(b) => Valid(b)'
  BY <1>1 DEF Valid, Tip, Rows
<1>2. ASSUME NEW t \in Thread, Validate(t) PROVE ValidKept'
  <2>1. UNCHANGED table
    BY <1>2 DEF Validate
  <2>2. \A u \in Thread \ {t} : thread'[u] = thread[u]
    BY <1>0, <1>2 DEF Validate, Set
  <2>3. thread'[t].stage = "valid" => thread'[t].block = thread[t].block /\ Valid(thread[t].block)
    BY <1>0, <1>2 DEF Validate, Set, Idle, Call
  <2>4. ASSUME NEW u \in Thread, thread'[u].stage = "valid" PROVE Valid(thread[u].block)'
    <3>1. PICK b : b = thread'[u].block
      OBVIOUS
    <3>2. Valid(b)
      BY <2>2, <2>3, <2>4, <3>1 DEF ValidKept
    <3> QED BY <1>1, <2>1, <3>1, <3>2 DEF Valid
  <2> QED BY <2>4 DEF ValidKept
<1>3. ASSUME UNCHANGED table,
             \A u \in Thread : thread'[u].stage = "valid" =>
                 thread[u].stage = "valid" /\ thread'[u].block = thread[u].block
      PROVE  ValidKept'
  <2>1. ASSUME NEW u \in Thread, thread'[u].stage = "valid" PROVE Valid(thread[u].block)'
    <3>1. PICK b : b = thread'[u].block
      OBVIOUS
    <3>2. Valid(b)
      BY <1>3, <2>1, <3>1 DEF ValidKept
    <3> QED BY <1>1, <1>3, <3>1, <3>2 DEF Valid
  <2> QED BY <2>1 DEF ValidKept
<1>4. ASSUME NEW t \in Thread, Save(t) \/ SaveFails(t) PROVE ValidKept'
  <2>1. \A u \in Thread \ {t} : thread'[u].stage = "idle"
    BY <1>0, <1>4, OthersDone DEF Save, SaveFails, StartEffects, Set, Working
  <2>2. thread'[t].stage = "applying"
    BY <1>0, <1>4 DEF Save, SaveFails, StartEffects, Set, Call
  <2> QED BY <2>1, <2>2 DEF ValidKept
<1>5. ASSUME NEW t \in Thread, NEW b \in Offered, NewBlock(t, b) \/ Commit(t, b) PROVE ValidKept'
  BY <1>0, <1>3, <1>5 DEF NewBlock, Commit, Set, Idle
<1>6. ASSUME NEW t \in Thread, Read(t) PROVE ValidKept'
  BY <1>0, <1>3, <1>6 DEF Read, Set, Call
<1>7. ASSUME NEW t \in Thread, Write(t) \/ Store(t) \/ WriteFails(t) PROVE ValidKept'
  BY <1>0, <1>3, <1>7 DEF Write, Store, WriteFails, Advance, Set, Call
<1>8. ASSUME NEW t \in Thread, ReadFails(t) \/ Finish(t) PROVE ValidKept'
  BY <1>0, <1>3, <1>8 DEF ReadFails, Finish, Set, Idle
<1>9. ASSUME NEW h \in Client, Check(h) \/ Add(h) PROVE ValidKept'
  BY <1>3, <1>9 DEF Check, Add
<1>10. CASE Crash
  BY <1>3, <1>10 DEF Crash, Idle
<1>11. CASE UNCHANGED vars
  BY <1>3, <1>11 DEF vars
<1> QED
  BY <1>2, <1>4, <1>5, <1>6, <1>7, <1>8, <1>9, <1>10, <1>11 DEF Next, Step

-----------------------------------------------------------------------------
(* BlockApply implements Ledger                                            *)

\* As long as nothing has failed, the books with the last block in full are those of the chain.
BooksOfChain == errors = 0 /\ crashes = 0 => Through(before, last, lost) = Replayed(Blocks)

LedgerInv ==
    /\ TypeInv
    /\ \E n : IsTable(table, n)
    /\ ValidKept
    /\ Progress
    /\ ReadFresh
    /\ BooksOfChain

\* A block that begins to be applied follows the tip, and makes the chain one longer when its
\* row is written.
LEMMA StoresNext ==
    ASSUME LedgerInv, Alone, NEW t \in Thread, Stores(t)
    PROVE  LET b == thread[t].block IN
             /\ b \in Offered /\ Valid(b)
             /\ \E n : IsTable(table', n)
             /\ Blocks' \in {Append(Blocks, b), Blocks}
             /\ errors' = 0 /\ crashes' = 0 => Blocks' = Append(Blocks, b) /\ errors = 0 /\ crashes = 0
             /\ before' = books /\ last' = Effects(b) /\ lost' = {} /\ books' = books
             /\ books = Through(before, last, lost)
<1>1. PICK b : b = thread[t].block
  OBVIOUS
<1>2. PICK n : IsTable(table, n)
  BY DEF LedgerInv
<1>3. b \in Offered /\ Valid(b)
  BY <1>1 DEF LedgerInv, TypeInv, GoodCall, ValidKept, Stores
<1>4. b.prev = table[n].id /\ b.index = n + 1
  BY <1>2, <1>3, TableTip DEF Valid
<1>5. Blocks = BlocksOf(table) /\ Blocks' = BlocksOf(table')
  BY DEF Blocks, BlocksOf, Rows, RowsOf
<1>6. /\ \E k : IsTable(table', k)
      /\ Blocks' \in {Append(Blocks, b), Blocks}
      /\ errors' = 0 /\ crashes' = 0 => Blocks' = Append(Blocks, b) /\ errors = 0 /\ crashes = 0
  <2>1. CASE table' = [table EXCEPT ![b.index] = b] /\ UNCHANGED <<errors, crashes>>
    <3>1. PICK tb : tb = table
      OBVIOUS
    <3>2. PICK next : next = [tb EXCEPT ![b.index] = b]
      OBVIOUS
    <3>3. IsTable(next, n + 1)
      BY <1>2, <1>3, <1>4, <3>1, <3>2, TableGrows
    <3>4. BlocksOf(next) = Append(BlocksOf(tb), b)
      BY <1>2, <1>3, <1>4, <3>1, <3>2, TableGrows
    <3>5. table' = next
      BY <2>1, <3>1, <3>2
    <3>6. Blocks' = Append(Blocks, b)
      BY <1>5, <3>1, <3>4, <3>5
    <3> QED BY <2>1, <3>3, <3>5, <3>6
  <2>2. CASE UNCHANGED table /\ errors' # 0
    <3>1. Blocks' = Blocks
      BY <2>2 DEF Blocks, Rows
    <3> QED BY <1>2, <2>2, <3>1
  <2> QED BY <1>1, <2>1, <2>2 DEF Stores
<1>7. before' = books /\ last' = Effects(b) /\ lost' = {} /\ books' = books
  BY <1>1 DEF Stores, StartEffects
<1>8. books = Through(before, last, lost)
  BY ProgressStarts DEF LedgerInv, Stores
<1> QED
  BY <1>1, <1>3, <1>6, <1>7, <1>8

\* Every step keeps the invariant, while calls do not overlap.
LEMMA LedgerInvStep ==
    ASSUME LedgerInv, Alone, [Next]_vars
    PROVE  LedgerInv'
<1>1. TypeInv' /\ ValidKept' /\ Progress' /\ ReadFresh'
  BY TypeStep, ValidStep, ProgressStep, ReadStep DEF LedgerInv
<1>2. CASE StoresNothing
  <2>1. Blocks' = Blocks
    BY <1>2 DEF StoresNothing, Blocks, Rows
  <2>2. BooksOfChain'
    <3>1. PICK x, y : x = Through(before, last, lost) /\ y = Replayed(Blocks)
      OBVIOUS
    <3>2. Through(before', last', lost') = x /\ Replayed(Blocks') = y
      BY <1>2, <2>1, <3>1 DEF StoresNothing
    <3>3. errors' = 0 /\ crashes' = 0 => x = y
      BY <1>2, <3>1 DEF StoresNothing, LedgerInv, BooksOfChain
    <3>4. BooksOfChain' = (errors' = 0 /\ crashes' = 0 => Through(before', last', lost') = Replayed(Blocks'))
      BY DEF BooksOfChain
    <3> QED BY <3>2, <3>3, <3>4
  <2> QED BY <1>1, <1>2, <2>2 DEF StoresNothing, LedgerInv
<1>3. CASE LosesMore
  BY <1>1, <1>3 DEF LosesMore, LedgerInv, BooksOfChain
<1>4. ASSUME NEW t \in Thread, Stores(t) PROVE LedgerInv'
  <2>1. PICK b : b = thread[t].block
    OBVIOUS
  <2>2. /\ b \in Offered
        /\ \E n : IsTable(table', n)
        /\ errors' = 0 /\ crashes' = 0 => Blocks' = Append(Blocks, b) /\ errors = 0 /\ crashes = 0
        /\ before' = books /\ last' = Effects(b) /\ lost' = {}
        /\ books = Through(before, last, lost)
    BY <1>4, <2>1, StoresNext
  <2>3. Blocks \in Seq(LedgerBlock)
    <3>1. PICK n : IsTable(table, n)
      BY DEF LedgerInv
    <3>2. BlocksOf(table) \in Seq(LedgerBlock)
      BY <3>1, TableBlocks
    <3> QED BY <3>2 DEF Blocks, BlocksOf, Rows, RowsOf
  <2>4. BooksOfChain'
    <3>1. SUFFICES ASSUME errors' = 0, crashes' = 0
                   PROVE  Through(before', last', lost') = Replayed(Blocks')
      BY DEF BooksOfChain
    <3>2. PICK chain : chain = Blocks
      OBVIOUS
    <3>3. Replayed(Append(chain, b)) = AfterBlock(Replayed(chain), b)
      BY <2>2, <2>3, <3>2, OfferedBlocks, ReplayAppend
    <3>4. Replayed(chain) = books
      BY <2>2, <3>1, <3>2 DEF LedgerInv, BooksOfChain
    <3>5. Blocks' = Append(chain, b)
      BY <2>2, <3>1, <3>2
    <3>6. Through(before', last', lost') = AfterBlock(books, b)
      BY <2>2 DEF AfterBlock
    <3> QED BY <3>3, <3>4, <3>5, <3>6
  <2> QED BY <1>1, <2>2, <2>4 DEF LedgerInv
<1>5. TypeInv
  BY DEF LedgerInv
<1> QED
  BY <1>2, <1>3, <1>4, <1>5, StepKinds

\* The books with the call under way completed.
LEMMA CompletedBooks == LedgerInv /\ Alone => Completed = Through(before, last, lost)
<1> SUFFICES ASSUME LedgerInv, Alone PROVE Completed = Through(before, last, lost)
  OBVIOUS
<1>1. TypeInv /\ Progress
  BY DEF LedgerInv
<1>2. CASE \A t \in Thread : thread[t].todo = <<>>
  BY <1>1, <1>2 DEF Completed, Progress, Applied, Through
<1>3. ASSUME NEW u \in Thread, thread[u].todo # <<>> PROVE Completed = Through(before, last, lost)
  <2>1. PICK t : t = CHOOSE x \in Thread : thread[x].todo # <<>>
    OBVIOUS
  <2>2. t \in Thread /\ thread[t].todo # <<>>
    BY <1>3, <2>1
  <2>3. Completed = Through(books, thread[t].todo, {})
    BY <1>3, <2>1 DEF Completed
  <2>4. PICK k : k = Reached(t)
    OBVIOUS
  <2>5. /\ k \in 0..Len(last) /\ lost \subseteq 1..k /\ books = Course(before, last, lost)[k]
        /\ thread[t].todo = SubSeq(last, k + 1, Len(last))
        /\ before \in Books /\ last \in Seq(Effect)
    BY <1>1, <2>2, <2>4 DEF Progress, Applied
  <2>7. Through(Course(before, last, lost)[k], thread[t].todo, {}) = Through(before, last, lost)
    <3>1. Through(Course(before, last, lost)[k], SubSeq(last, k + 1, Len(last)), {})
            = Through(before, last, lost)
      BY <2>5, CourseGoesOn
    <3> QED BY <2>5, <3>1
  <2> QED BY <2>3, <2>5, <2>7
<1> QED
  BY <1>2, <1>3

\* Ledger names the same effects and courses.
LEMMA SameEffects ==
    /\ \A b : Abstract!Effects(b) = Effects(b)
    /\ \A bk, effects, gone : Abstract!Through(bk, effects, gone) = Through(bk, effects, gone)
    /\ Abstract!EmptyBooks = EmptyBooks
<1>1. \A b : Abstract!Effects(b) = Effects(b)
  BY DEF Abstract!Effects, Effects, Abstract!FlattenSeq, FlattenSeq, Abstract!Money, Money,
         Abstract!Ownership, Ownership, Abstract!Debit, Debit, Abstract!Credit, Credit,
         Abstract!Record, Record, Abstract!Own, Own, Abstract!Reown, Reown
<1>2. \A bk, effects, gone : Abstract!Through(bk, effects, gone) = Through(bk, effects, gone)
  BY DEF Abstract!Through, Through, Abstract!Course, Course, Abstract!After, After,
         Abstract!Clamped, Clamped
<1>3. Abstract!EmptyBooks = EmptyBooks
  BY DEF Abstract!EmptyBooks, EmptyBooks
<1> QED
  BY <1>1, <1>2, <1>3

LEMMA LedgerInvInit == Init => LedgerInv
<1> SUFFICES ASSUME Init PROVE LedgerInv
  OBVIOUS
<1>1. TypeInv
  BY TypeInit
<1>2. \A t \in Thread : thread[t].stage = "idle" /\ thread[t].todo = <<>>
  BY DEF Init, Idle
<1>3. IsTable(table, Genesis.index)
  <2>1. Genesis.index \in Index /\ Genesis.index \in Nat /\ Genesis # NoBlock
    BY OfferedBlocks
  <2>2. table = [i \in Index |-> IF i = Genesis.index THEN Genesis ELSE NoBlock]
    BY DEF Init
  <2>3. Genesis.index..Genesis.index = {Genesis.index}
    BY <2>1
  <2>4. (Genesis.index + 1)..Genesis.index = {}
    BY <2>1
  <2> QED BY <2>1, <2>2, <2>3, <2>4 DEF IsTable
<1>4. before = EmptyBooks /\ last = <<>> /\ lost = {} /\ books = EmptyBooks
  BY DEF Init
<1>5. <<>> \in Seq(Effect) /\ Len(<<>>) = 0
  OBVIOUS
<1>6. Course(EmptyBooks, <<>>, {})[0] = EmptyBooks
  <2>1. Follows(Course(EmptyBooks, <<>>, {}), EmptyBooks, <<>>, {})
    BY <1>5, EmptyBooksType, CourseSteps
  <2> QED BY <2>1 DEF Follows
<1>7. Progress
  BY <1>2, <1>4, <1>5, <1>6, EmptyBooksType DEF Progress, Applied
<1>8. BooksOfChain
  <2>1. BlocksOf(table) \in Seq(LedgerBlock) /\ Len(BlocksOf(table)) = Genesis.index - Genesis.index
    BY <1>3, TableBlocks
  <2>2. Len(BlocksOf(table)) = 0
    <3>1. Genesis.index \in Int
      BY <1>3, TableBounds
    <3> QED BY <2>1, <3>1
  <2>3. Blocks \in Seq(LedgerBlock) /\ Len(Blocks) = 0
    BY <2>1, <2>2 DEF Blocks, BlocksOf, Rows, RowsOf
  <2>4. PICK r : Replays(r, Blocks) /\ Replayed(Blocks) = r[Len(Blocks)]
    BY <2>3, ReplaySteps
  <2>5. Replayed(Blocks) = EmptyBooks
    BY <2>3, <2>4 DEF Replays
  <2>6. Through(before, last, lost) = EmptyBooks
    BY <1>4, <1>5, <1>6 DEF Through
  <2> QED BY <2>5, <2>6 DEF BooksOfChain
<1> QED
  BY <1>1, <1>2, <1>3, <1>7, <1>8 DEF LedgerInv, ValidKept, ReadFresh

LEMMA LedgerInvAlways == Spec /\ []Alone => []LedgerInv
BY LedgerInvInit, LedgerInvStep, PTL DEF Spec

\* As long as no two calls of add_block overlap, every stored block links to the one stored
\* before it (Block.validate, save_block), whatever fails.
THEOREM TableLinked == Spec /\ []Alone => []Linked
<1>1. LedgerInv => Linked
  <2> SUFFICES ASSUME LedgerInv, NEW i \in Index \ {Genesis.index}, table[i] # NoBlock
               PROVE  table[i - 1] # NoBlock /\ table[i].prev = table[i - 1].id
    BY DEF Linked
  <2>1. PICK n : IsTable(table, n)
    BY DEF LedgerInv
  <2>2. Genesis.index \in Int /\ n \in Int
    BY <2>1, TableBounds
  <2>3. i \in Genesis.index..n
    BY <2>1 DEF IsTable
  <2>4. i \in (Genesis.index + 1)..n /\ i - 1 \in Genesis.index..n
    BY <2>2, <2>3
  <2>5. i - 1 \in Index
    BY <2>1, <2>4 DEF IsTable
  <2> QED BY <2>1, <2>4, <2>5 DEF IsTable
<1> QED
  BY <1>1, LedgerInvAlways, PTL

\* As long as no two calls overlap, and no call has failed, the balances, transactions and owners
\* are those of the stored blocks, each applied once and in order (_apply_block_to_balances,
\* _apply_content_registry).
THEOREM BooksFollowChain == Spec /\ []Alone => []BooksReplay
<1>1. LedgerInv => BooksReplay
  <2> SUFFICES ASSUME LedgerInv, AtRest, crashes = 0, errors = 0 PROVE books = Replayed(Blocks)
    BY DEF BooksReplay
  <2>1. \A t \in Thread : thread[t].todo = <<>>
    BY DEF LedgerInv, TypeInv, GoodCall, AtRest, Working
  <2>2. books = Through(before, last, lost)
    BY <2>1 DEF LedgerInv, Progress, Applied, Through
  <2> QED BY <2>2 DEF LedgerInv, BooksOfChain
<1> QED
  BY <1>1, LedgerInvAlways, PTL

\* As long as no two calls overlap, add_block, storage call by storage call, with any failed calls
\* and crashes, implements the promise of Ledger: a block takes effect when its row is written,
\* and failures take effects of the last block and of no other.
THEOREM ImplementsTheLedger == Spec /\ []Alone => ImplementsLedger
<1>1. Init => Abstract!LedgerInit
  <2> SUFFICES ASSUME Init PROVE Abstract!LedgerInit
    OBVIOUS
  <2>1. LedgerInv
    BY LedgerInvInit
  <2>2. \A t \in Thread : thread[t].todo = <<>>
    BY DEF Init, Idle
  <2>3. Completed = EmptyBooks
    BY <2>2 DEF Completed, Init
  <2>4. IsTable(table, Genesis.index)
    <3>1. PICK n : IsTable(table, n)
      BY <2>1 DEF LedgerInv
    <3>2. n = Genesis.index
      <4>1. n \in Index /\ n >= Genesis.index /\ table[n] # NoBlock
        <5>1. n \in Genesis.index..n
          BY <3>1, TableBounds
        <5> QED BY <3>1, <5>1 DEF IsTable
      <4> QED BY <4>1 DEF Init
    <3> QED BY <3>1, <3>2
  <2>5. BlocksOf(table) \in Seq(LedgerBlock) /\ Len(BlocksOf(table)) = 0
    <3>1. BlocksOf(table) \in Seq(LedgerBlock) /\ Len(BlocksOf(table)) = Genesis.index - Genesis.index
      BY <2>4, TableBlocks
    <3>2. Genesis.index \in Int
      BY <2>4, TableBounds
    <3> QED BY <3>1, <3>2
  <2>6. Blocks = <<>>
    <3>1. BlocksOf(table) = <<>>
      BY <2>5, EmptySeq
    <3> QED BY <3>1 DEF Blocks, BlocksOf, Rows, RowsOf
  <2> QED BY <2>3, <2>6, SameEffects DEF Init, Abstract!LedgerInit
<1>2. LedgerInv /\ Alone /\ LedgerInv' /\ Alone' /\ [Next]_vars
        => [Abstract!LedgerNext]_(Abstract!ledgerVars)
  <2> SUFFICES ASSUME LedgerInv, Alone, LedgerInv', Alone', [Next]_vars
               PROVE  [Abstract!LedgerNext]_(Abstract!ledgerVars)
    OBVIOUS
  <2>1. Completed = Through(before, last, lost)
    BY CompletedBooks
  <2>2. (Completed = Through(before, last, lost))'
    BY CompletedBooks, PTL
  <2>3. CASE StoresNothing
    <3>1. Blocks' = Blocks
      BY <2>3 DEF StoresNothing, Blocks, Rows
    <3>2. before' = before /\ last' = last /\ lost' = lost
      BY <2>3 DEF StoresNothing
    <3>3. Completed' = Completed
      BY <2>1, <2>2, <3>2
    <3> QED BY <3>1, <3>2, <3>3 DEF Abstract!ledgerVars
  <2>4. CASE LosesMore
    <3>1. Blocks' = Blocks
      BY <2>4 DEF LosesMore, Blocks, Rows
    <3>2. before' = before /\ last' = last /\ lost \subseteq lost'
      BY <2>4 DEF LosesMore
    <3>3. lost' \in SUBSET DOMAIN last
      <4>1. \E k : (Applied(k))'
        BY DEF LedgerInv, Progress
      <4>2. last \in Seq(Effect)
        BY DEF LedgerInv, Progress
      <4> QED BY <3>2, <4>1, <4>2, LenProperties DEF Applied
    <3>4. Completed' = Abstract!Through(before, last, lost')
      BY <2>2, <3>2, SameEffects
    <3>5. Abstract!Lose
      BY <3>1, <3>2, <3>3, <3>4 DEF Abstract!Lose
    <3> QED BY <3>5 DEF Abstract!LedgerNext
  <2>5. ASSUME NEW t \in Thread, Stores(t) PROVE Abstract!LedgerNext
    <3>1. PICK b : b = thread[t].block
      OBVIOUS
    <3>2. /\ b \in Offered /\ Valid(b)
          /\ Blocks' \in {Append(Blocks, b), Blocks}
          /\ before' = books /\ last' = Effects(b) /\ lost' = {}
          /\ books = Through(before, last, lost)
      BY <2>5, <3>1, StoresNext
    <3>3. Abstract!Tip = Tip
      <4>1. PICK n : IsTable(table, n)
        BY DEF LedgerInv
      <4>2. table[n] = IF BlocksOf(table) = <<>> THEN Genesis ELSE BlocksOf(table)[Len(BlocksOf(table))]
        BY <4>1, TableBlocks
      <4>3. Blocks = BlocksOf(table)
        BY DEF Blocks, BlocksOf, Rows, RowsOf
      <4>4. Tip = table[n]
        BY <4>1, TableTip
      <4> QED BY <4>2, <4>3, <4>4 DEF Abstract!Tip
    <3>4. Abstract!Follows(b)
      BY <3>2, <3>3 DEF Abstract!Follows, Valid
    <3>5. before' = Completed
      BY <2>1, <3>2
    <3>6. last' = Abstract!Effects(b)
      BY <3>2, SameEffects
    <3>7. Completed' = Abstract!Through(Completed, Abstract!Effects(b), {})
      <4>1. Completed' = Through(Completed, Effects(b), {})
        BY <2>1, <2>2, <3>2
      <4> QED BY <4>1, SameEffects
    <3>8. Abstract!Post(b)
      BY <3>2, <3>4, <3>5, <3>6, <3>7 DEF Abstract!Post
    <3> QED BY <3>2, <3>8 DEF Abstract!LedgerNext
  <2>6. TypeInv
    BY DEF LedgerInv
  <2> QED BY <2>3, <2>4, <2>5, <2>6, StepKinds
<1> QED
  BY <1>1, <1>2, LedgerInvAlways, PTL DEF Spec, ImplementsLedger, Abstract!LedgerSpec
=============================================================================
