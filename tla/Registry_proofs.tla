---------------------------- MODULE Registry_proofs ----------------------------
(***************************************************************************)
(* Theorems about Registry, for every value of its constants: any nodes on *)
(* any of the three backends, any wallets, contents and number of calls.   *)
(***************************************************************************)
EXTENDS Registry, TLAPS, SequenceTheorems, FiniteSetTheorems

NextPage(page, tx) == [page EXCEPT ![tx.cid] = OwnerAfter(@, tx)]

\* The books follow the log, transaction by transaction.
BooksFollow ==
    /\ Len(books) = Len(log) + 1
    /\ \A k \in 1..Len(log) :
         books[k + 1] = NextPage(books[k], log[k])

\* A record r agrees with an owner given by the chain.
Agrees(owner, r) ==
    IF owner = Nobody THEN r = NoRecord
    ELSE r # NoRecord /\ r.owner \in {owner, Nobody}

\* The payments of content sales that owe a royalty.
Owing(tx) == tx.kind = "payment" /\ tx.edition = 0 /\ tx.royalty = "part"

IsRoyalty(tx, call) == tx.kind = "royalty" /\ tx.call = call

\* The royalty of call is among those stored, or expired.
Settled(stored, dropped, call) ==
    call \in dropped \/ \E m \in 1..Len(stored) : IsRoyalty(stored[m], call)

\* What a call has still to queue is about a content or about editions, not both.
OneKind(s) == \A i, j \in 1..Len(s) : s[i].edition = 0 => s[j].edition = 0

\* On its way through the mempool a payment stays behind its royalty.
RoyaltyAhead ==
    /\ \A k \in 1..Len(pool) : Owing(pool[k]) =>
         \/ Settled(log, expired, pool[k].call)
         \/ \E m \in 1..k - 1 : IsRoyalty(pool[m], pool[k].call)
    /\ \A k \in 1..Len(rest) : Owing(rest[k]) =>
         \/ Settled(log, expired, rest[k].call)
         \/ \E m \in 1..Len(pool) : IsRoyalty(pool[m], rest[k].call)
         \/ \E m \in 1..k - 1 : IsRoyalty(rest[m], rest[k].call)
    /\ OneKind(rest)
    /\ \A tx \in signed : tx.kind # "payment"

Inv == TypeOK /\ BooksFollow /\ OwnersReplay /\ RoyaltyFirst /\ RoyaltyAhead

-----------------------------------------------------------------------------
(* What the operators return                                               *)

\* A transaction put in anywhere: the others keep their order.
LEMMA InsertAtPlaces ==
    ASSUME NEW s \in Seq(Tx), NEW e \in Tx, NEW k \in 1..Len(s) + 1
    PROVE  /\ InsertAt(s, k, e) \in Seq(Tx)
           /\ Len(InsertAt(s, k, e)) = Len(s) + 1
           /\ \A i \in 1..Len(s) + 1 :
                InsertAt(s, k, e)[i] =
                  IF i < k THEN s[i] ELSE IF i = k THEN e ELSE s[i - 1]
<1> DEFINE left == SubSeq(s, 1, k - 1)
           mid == <<e>>
           right == SubSeq(s, k, Len(s))
<1>1. Len(s) \in Nat
  BY LenProperties
<1>2. /\ left \in Seq(Tx) /\ Len(left) = k - 1
      /\ \A i \in 1..k - 1 : left[i] = s[i]
  <2>1. \A i \in 1..k - 1 : s[i] \in Tx
    BY <1>1, ElementOfSeq
  <2> QED
    BY <1>1, <2>1, SubSeqProperties
<1>3. /\ right \in Seq(Tx) /\ Len(right) = Len(s) - k + 1
      /\ \A i \in 1..Len(s) - k + 1 : right[i] = s[k + i - 1]
  <2>1. \A i \in k..Len(s) : s[i] \in Tx
    BY <1>1, ElementOfSeq
  <2> QED
    BY <1>1, <2>1, SubSeqProperties
<1>4. mid \in Seq(Tx) /\ Len(mid) = 1 /\ mid[1] = e
  OBVIOUS
<1>5. InsertAt(s, k, e) = (left \o mid) \o right
  BY DEF InsertAt
<1> HIDE DEF left, mid, right
<1>6. /\ left \o mid \in Seq(Tx) /\ Len(left \o mid) = k
      /\ \A i \in 1..k : (left \o mid)[i] = IF i <= k - 1 THEN left[i] ELSE mid[i - (k - 1)]
  <2>1. /\ left \o mid \in Seq(Tx) /\ Len(left \o mid) = Len(left) + Len(mid)
        /\ \A i \in 1..Len(left) + Len(mid) :
             (left \o mid)[i] = IF i <= Len(left) THEN left[i] ELSE mid[i - Len(left)]
    BY <1>2, <1>4, ConcatProperties
  <2>2. Len(left) = k - 1 /\ Len(left) + Len(mid) = k
    BY <1>1, <1>2, <1>4
  <2> QED
    BY <2>1, <2>2
<1>7. /\ (left \o mid) \o right \in Seq(Tx)
      /\ Len((left \o mid) \o right) = k + (Len(s) - k + 1)
      /\ \A i \in 1..k + (Len(s) - k + 1) :
           ((left \o mid) \o right)[i] =
             IF i <= k THEN (left \o mid)[i] ELSE right[i - k]
  <2> DEFINE most == left \o mid
  <2> HIDE DEF most
  <2>1. most \in Seq(Tx) /\ Len(most) = k
    BY <1>6 DEF most
  <2>2. /\ most \o right \in Seq(Tx) /\ Len(most \o right) = Len(most) + Len(right)
        /\ \A i \in 1..Len(most) + Len(right) :
             (most \o right)[i] = IF i <= Len(most) THEN most[i] ELSE right[i - Len(most)]
    BY <1>3, <2>1, ConcatProperties
  <2> QED
    BY <1>3, <2>1, <2>2 DEF most
<1>8. ASSUME NEW i \in 1..Len(s) + 1
      PROVE  InsertAt(s, k, e)[i] = IF i < k THEN s[i] ELSE IF i = k THEN e ELSE s[i - 1]
  <2>1. InsertAt(s, k, e)[i] = IF i <= k THEN (left \o mid)[i] ELSE right[i - k]
    <3>1. i \in 1..k + (Len(s) - k + 1)
      BY <1>1
    <3> QED
      BY <1>5, <1>7, <3>1
  <2>2. CASE i < k
    <3>1. i \in 1..k /\ i <= k - 1 /\ i \in 1..k - 1
      BY <1>1, <2>2
    <3>2. (left \o mid)[i] = left[i]
      BY <1>6, <3>1
    <3> QED
      BY <1>2, <2>1, <2>2, <3>1, <3>2
  <2>3. CASE i = k
    <3>1. k \in 1..k /\ ~(k <= k - 1) /\ k - (k - 1) = 1
      BY <1>1
    <3>2. (left \o mid)[k] = mid[1]
      BY <1>6, <3>1
    <3>3. InsertAt(s, k, e)[i] = e
      BY <1>1, <1>4, <2>1, <2>3, <3>2
    <3> QED
      BY <1>1, <2>3, <3>3
  <2>4. CASE i > k
    <3>1. i - k \in 1..Len(s) - k + 1 /\ k + (i - k) - 1 = i - 1
      BY <1>1, <2>4
    <3>2. right[i - k] = s[i - 1]
      BY <1>3, <3>1
    <3> QED
      BY <1>1, <2>1, <2>4, <3>2
  <2> QED
    BY <1>1, <2>2, <2>3, <2>4
<1> QED
  BY <1>1, <1>5, <1>7, <1>8

\* Saving gives a record with an owner, except on the ram backend.
LEMMA SavedProperties ==
    ASSUME NEW backend \in {"sqlite", "supabase", "ram"},
           NEW old \in Record \union {NoRecord}, NEW new \in Record
    PROVE  /\ Saved(backend, old, new) \in Record
           /\ backend = "ram" => Saved(backend, old, new) = new
           /\ backend # "ram" => Saved(backend, old, new).owner = OwnerOf(new)
           /\ OwnerOf(new) \in Wallet
           /\ backend = "sqlite" /\ old # NoRecord =>
                /\ Saved(backend, old, new).creator = old.creator
                /\ Saved(backend, old, new).royalty = old.royalty
<1>1. OwnerOf(new) \in Wallet
  BY DEF OwnerOf, Record
<1>2. /\ [new EXCEPT !.owner = OwnerOf(new)] \in Record
      /\ [new EXCEPT !.owner = OwnerOf(new)].owner = OwnerOf(new)
  BY <1>1 DEF Record
<1>3. ASSUME old # NoRecord
      PROVE  /\ [old EXCEPT !.owner = OwnerOf(new)] \in Record
             /\ [old EXCEPT !.owner = OwnerOf(new)].owner = OwnerOf(new)
             /\ [old EXCEPT !.owner = OwnerOf(new)].creator = old.creator
             /\ [old EXCEPT !.owner = OwnerOf(new)].royalty = old.royalty
  BY <1>1, <1>3 DEF Record
<1>4. CASE backend = "sqlite"
  <2>1. Saved(backend, old, new) =
          IF old = NoRecord THEN [new EXCEPT !.owner = OwnerOf(new)]
                            ELSE [old EXCEPT !.owner = OwnerOf(new)]
    BY <1>4 DEF Saved, SavedOnSqlite
  <2> QED
    BY <1>1, <1>2, <1>3, <1>4, <2>1
<1>5. CASE backend = "supabase"
  <2>1. Saved(backend, old, new) = [new EXCEPT !.owner = OwnerOf(new)]
    BY <1>5 DEF Saved, SavedOnSupabase
  <2> QED
    BY <1>1, <1>2, <1>5, <2>1
<1>6. CASE backend = "ram"
  <2>1. Saved(backend, old, new) = new
    BY <1>6 DEF Saved
  <2> QED
    BY <1>1, <1>6, <2>1
<1> QED
  BY <1>4, <1>5, <1>6

\* Applying one transaction to one record: the record stays one, agrees with the
\* chain if it did, and on sqlite keeps its creator and royalty.
LEMMA RecordedProperties ==
    ASSUME NEW backend \in {"sqlite", "supabase", "ram"},
           NEW r \in Record \union {NoRecord}, NEW tx \in Tx,
           NEW owner \in Wallet \union {Nobody}
    PROVE  LET new == Recorded(backend, r, tx) IN
           /\ new \in Record \union {NoRecord}
           /\ (r # NoRecord /\ r.owner = Nobody => backend = "ram") =>
                (new # NoRecord /\ new.owner = Nobody => backend = "ram")
           /\ Agrees(owner, r) => Agrees(OwnerAfter(owner, tx), new)
           /\ backend = "sqlite" /\ r # NoRecord =>
                new # NoRecord /\ new.creator = r.creator /\ new.royalty = r.royalty
<1> DEFINE new == Recorded(backend, r, tx)
<1>1. /\ tx.from \in Wallet /\ tx.to \in Wallet /\ tx.royalty \in Royalty
      /\ Nobody \notin Wallet /\ NoRecord \notin Record
  BY RegistryAssumption DEF Tx
<1>2. CASE tx.kind = "register"
  <2> DEFINE first == [creator |-> tx.from, owner |-> Nobody, royalty |-> tx.royalty]
  <2>1. first \in Record /\ first.owner = Nobody /\ OwnerOf(first) = tx.from
    BY <1>1, <1>2 DEF Record, OwnerOf
  <2>2. new = Saved(backend, r, first) /\ OwnerAfter(owner, tx) = tx.from
    BY <1>2 DEF Recorded, OwnerAfter
  <2> HIDE DEF first, new
  <2> QED
    BY <1>1, <2>1, <2>2, SavedProperties DEF Agrees, new
<1>3. CASE MovesContent(tx) /\ r # NoRecord
  <2> DEFINE moved == [r EXCEPT !.owner = tx.to]
  <2>1. moved \in Record /\ OwnerOf(moved) = tx.to /\ moved.owner = tx.to
    BY <1>1, <1>3 DEF Record, OwnerOf
  <2>2. new = Saved(backend, r, moved)
    BY <1>3 DEF Recorded, MovesContent
  <2>3. Agrees(owner, r) => OwnerAfter(owner, tx) = tx.to
    BY <1>3 DEF Agrees, OwnerAfter, MovesContent
  <2> HIDE DEF moved, new
  <2> QED
    BY <1>1, <1>3, <2>1, <2>2, <2>3, SavedProperties DEF Agrees, new
<1>4. CASE tx.kind # "register" /\ ~(MovesContent(tx) /\ r # NoRecord)
  <2>1. new = r
    BY <1>4 DEF Recorded
  <2>2. Agrees(owner, r) => OwnerAfter(owner, tx) = owner
    BY <1>4 DEF Agrees, OwnerAfter
  <2> HIDE DEF new
  <2> QED
    BY <2>1, <2>2 DEF new
<1> QED
  BY <1>2, <1>3, <1>4

\* What a node has seen is a number.
LEMMA SeenType ==
    ASSUME TypeOK, NEW b \in Node, NEW c \in Cid
    PROVE  Seen(b, c) \in Nat
<1>1. applied[b] \in Nat
  BY LenProperties DEF TypeOK
<1>2. IsFiniteSet({k \in 1..applied[b] : log[k].cid = c})
  <2>1. IsFiniteSet(1..applied[b])
    BY <1>1, FS_Interval
  <2> QED
    BY <2>1, FS_Subset
<1> QED
  BY <1>2, FS_CardinalityType DEF Seen

\* The transactions a call makes are transactions.
LEMMA MadeType ==
    ASSUME TypeOK, NEW b \in Node, NEW c \in Cid, NEW from \in Wallet, NEW to \in Wallet,
           NEW n \in 1..MaxTx,
           NEW kind \in {"register", "gift", "royalty", "payment", "edition"}
    PROVE  /\ Made(b, kind, c, from, to, n) \in Tx
           /\ Made(b, kind, c, from, to, n).kind = kind
           /\ \A royalty \in Royalty :
                [Made(b, kind, c, from, to, n) EXCEPT !.royalty = royalty] \in Tx
           /\ \A e \in 0..Total, paid \in BOOLEAN :
                [Made(b, kind, c, from, to, n) EXCEPT !.edition = e, !.paid = paid] \in Tx
<1>1. Seen(b, c) \in Nat
  BY SeenType
<1>2. 0 \in 0..Total /\ "none" \in Royalty
  BY RegistryAssumption
<1> QED
  BY <1>1, <1>2 DEF Made, Tx

\* A sale's transactions, with the royalty before the payment that owes it.
LEMMA SaleTxsProperties ==
    ASSUME TypeOK, NEW b \in Node, NEW c \in Cid, NEW e \in 0..Total,
           NEW seller \in Wallet, NEW buyer \in Wallet, NEW n \in 1..MaxTx
    PROVE  LET s == SaleTxs(b, c, e, seller, buyer, n) IN
           /\ s \in Seq(Tx)
           /\ \A k \in 1..Len(s) :
                Owing(s[k]) => \E m \in 1..k - 1 : IsRoyalty(s[m], s[k].call)
           /\ OneKind(s)
<1> DEFINE r == content[b][c]
           due == IF r = NoRecord THEN "none" ELSE r.royalty
           payment == [Bought(b, "payment", c, e, buyer, seller, n) EXCEPT !.royalty = due]
           royalty == Bought(b, "royalty", c, e, buyer, r.creator, n)
           s == SaleTxs(b, c, e, seller, buyer, n)
<1>1. r \in Record \union {NoRecord}
  BY DEF TypeOK
<1>2. /\ due \in Royalty /\ due \in {"none", "part", "all"}
      /\ r # NoRecord => r.creator \in Wallet
      /\ due # "none" => r # NoRecord
  BY <1>1, RegistryAssumption DEF Record
<1>3. Bought(b, "payment", c, e, buyer, seller, n) \in Tx
  BY MadeType DEF Bought
<1>4. payment \in Tx /\ payment.royalty = due
  BY <1>2, <1>3 DEF Tx
<1>5. due # "none" => royalty \in Tx /\ royalty.kind = "royalty"
  <2> SUFFICES ASSUME due # "none"
               PROVE  royalty \in Tx /\ royalty.kind = "royalty"
    OBVIOUS
  <2>1. r.creator \in Wallet
    BY <1>2
  <2>2. royalty \in Tx
    BY <2>1, MadeType DEF Bought
  <2> QED
    BY <2>2 DEF Bought, Made
<1>6. payment.call = n /\ royalty.call = n /\ payment.edition = e /\ royalty.edition = e
  BY DEF Bought, Made
<1>7. s = CASE due = "none" -> <<payment>>
            [] due = "all"  -> <<royalty>>
            [] due = "part" -> <<royalty, payment>>
  BY DEF SaleTxs, Arranged
<1> HIDE DEF due, payment, royalty, s
<1>8. CASE due = "none"
  <2>1. s = <<payment>> /\ ~Owing(payment)
    BY <1>4, <1>7, <1>8 DEF Owing
  <2>2. s \in Seq(Tx) /\ Len(s) = 1 /\ s[1] = payment /\ OneKind(s)
    BY <1>4, <2>1 DEF OneKind
  <2> QED
    BY <2>1, <2>2 DEF s
<1>9. CASE due = "all"
  <2>1. s = <<royalty>> /\ ~Owing(royalty)
    BY <1>5, <1>7, <1>9 DEF Owing
  <2>2. s \in Seq(Tx) /\ Len(s) = 1 /\ s[1] = royalty /\ OneKind(s)
    BY <1>5, <1>9, <2>1 DEF OneKind
  <2> QED
    BY <2>1, <2>2 DEF s
<1>10. CASE due = "part"
  <2>1. s = <<royalty, payment>>
    BY <1>7, <1>10
  <2>2. s \in Seq(Tx) /\ Len(s) = 2 /\ s[1] = royalty /\ s[2] = payment
    BY <1>4, <1>5, <1>10, <2>1
  <2>3. IsRoyalty(royalty, payment.call) /\ ~Owing(royalty)
    BY <1>5, <1>6, <1>10 DEF IsRoyalty, Owing
  <2>4. ASSUME NEW k \in 1..2, Owing(s[k])
        PROVE  \E m \in 1..k - 1 : IsRoyalty(s[m], s[k].call)
    <3>1. k = 2
      BY <2>2, <2>3, <2>4
    <3>2. 1 \in 1..k - 1
      BY <3>1
    <3> QED
      BY <2>2, <2>3, <3>1, <3>2
  <2>5. OneKind(s)
    BY <1>6, <2>2 DEF OneKind
  <2> QED
    BY <2>2, <2>4, <2>5 DEF s
<1> QED
  BY <1>2, <1>8, <1>9, <1>10

-----------------------------------------------------------------------------
(* Frames                                                                  *)

\* What has been stored and applied is left alone.
Rested == UNCHANGED <<content, log, applied, books>> /\ expired \subseteq expired'

LEMMA RestedKeeps ==
    ASSUME Inv, Rested
    PROVE  BooksFollow' /\ OwnersReplay' /\ RoyaltyFirst'
<1>1. BooksFollow' /\ OwnersReplay'
  BY DEF Inv, Rested, BooksFollow, OwnersReplay
<1>2. RoyaltyFirst'
  BY DEF Inv, Rested, RoyaltyFirst
<1> QED
  BY <1>1, <1>2

\* Where the transaction at i comes to stand when one is put in at k.
Place(k, i) == IF i < k THEN i ELSE i + 1

\* A transaction that is no payment joins the pending ones, anywhere.
LEMMA JoinedAhead ==
    ASSUME Inv, NEW tx \in Tx, tx.kind # "payment", NEW k \in 1..Len(pool) + 1,
           pool' = InsertAt(pool, k, tx), UNCHANGED <<rest, log, expired>>,
           \A t \in signed' : t.kind # "payment"
    PROVE  RoyaltyAhead' /\ pool' \in Seq(Tx)
<1>1. pool \in Seq(Tx) /\ Len(pool) \in Nat
  BY LenProperties DEF Inv, TypeOK
<1>2. /\ pool' \in Seq(Tx) /\ Len(pool') = Len(pool) + 1
      /\ \A i \in 1..Len(pool) + 1 :
           pool'[i] = IF i < k THEN pool[i] ELSE IF i = k THEN tx ELSE pool[i - 1]
  <2>1. /\ InsertAt(pool, k, tx) \in Seq(Tx)
        /\ Len(InsertAt(pool, k, tx)) = Len(pool) + 1
        /\ \A i \in 1..Len(pool) + 1 :
             InsertAt(pool, k, tx)[i] =
               IF i < k THEN pool[i] ELSE IF i = k THEN tx ELSE pool[i - 1]
    <3>1. ASSUME NEW s \in Seq(Tx), NEW j \in 1..Len(s) + 1
          PROVE  /\ InsertAt(s, j, tx) \in Seq(Tx)
                 /\ Len(InsertAt(s, j, tx)) = Len(s) + 1
                 /\ \A i \in 1..Len(s) + 1 :
                      InsertAt(s, j, tx)[i] =
                        IF i < j THEN s[i] ELSE IF i = j THEN tx ELSE s[i - 1]
      BY InsertAtPlaces
    <3> QED
      BY <1>1, <3>1
  <2> QED
    BY <2>1
<1>3. ASSUME NEW i \in 1..Len(pool)
      PROVE  Place(k, i) \in 1..Len(pool') /\ pool'[Place(k, i)] = pool[i]
  <2>1. CASE i < k
    <3>1. Place(k, i) = i /\ i \in 1..Len(pool) + 1
      BY <1>1, <2>1 DEF Place
    <3> QED
      BY <1>2, <2>1, <3>1
  <2>2. CASE i >= k
    <3>1. Place(k, i) = i + 1 /\ i + 1 \in 1..Len(pool) + 1 /\ i + 1 > k
      BY <1>1, <2>2 DEF Place
    <3>2. pool'[i + 1] = pool[i + 1 - 1]
      BY <1>2, <3>1
    <3> QED
      BY <1>2, <3>1, <3>2
  <2> QED
    BY <1>1, <2>1, <2>2
<1>4. \A i, j \in 1..Len(pool) : i < j => Place(k, i) < Place(k, j)
  BY <1>1 DEF Place
<1>5. \A j \in 1..Len(pool') : j # k => \E i \in 1..Len(pool) : j = Place(k, i)
  <2> SUFFICES ASSUME NEW j \in 1..Len(pool'), j # k
               PROVE  \E i \in 1..Len(pool) : j = Place(k, i)
    OBVIOUS
  <2>1. CASE j < k
    <3>1. j \in 1..Len(pool) /\ Place(k, j) = j
      BY <1>1, <1>2, <2>1 DEF Place
    <3> QED
      BY <3>1
  <2>2. CASE j > k
    <3>1. j - 1 \in 1..Len(pool) /\ Place(k, j - 1) = j
      BY <1>1, <1>2, <2>2 DEF Place
    <3> QED
      BY <3>1
  <2> QED
    BY <1>1, <1>2, <2>1, <2>2
<1>6. pool'[k] = tx /\ ~Owing(tx)
  BY <1>1, <1>2 DEF Owing
<1>7. ASSUME NEW j \in 1..Len(pool'), Owing(pool'[j])
      PROVE  \/ Settled(log', expired', pool'[j].call)
             \/ \E m \in 1..j - 1 : IsRoyalty(pool'[m], pool'[j].call)
  <2>1. PICK i \in 1..Len(pool) : j = Place(k, i)
    BY <1>5, <1>6, <1>7
  <2>2. pool'[j] = pool[i]
    BY <1>3, <2>1
  <2>3. \/ Settled(log, expired, pool[i].call)
        \/ \E m \in 1..i - 1 : IsRoyalty(pool[m], pool[i].call)
    BY <1>7, <2>2 DEF Inv, RoyaltyAhead
  <2>4. CASE Settled(log, expired, pool[i].call)
    BY <2>2, <2>4
  <2>5. ASSUME NEW m \in 1..i - 1, IsRoyalty(pool[m], pool[i].call)
        PROVE  \E q \in 1..j - 1 : IsRoyalty(pool'[q], pool'[j].call)
    <3>1. m \in 1..Len(pool) /\ m < i
      BY <1>1
    <3>2. Place(k, m) \in 1..Len(pool') /\ Place(k, m) < j /\ pool'[Place(k, m)] = pool[m]
      BY <1>3, <1>4, <2>1, <3>1
    <3>3. Place(k, m) \in 1..j - 1
      BY <1>1, <1>2, <3>2
    <3> QED
      BY <2>2, <2>5, <3>2, <3>3
  <2> QED
    BY <2>3, <2>4, <2>5
<1>8. ASSUME NEW j \in 1..Len(rest), Owing(rest[j])
      PROVE  \/ Settled(log', expired', rest[j].call)
             \/ \E m \in 1..Len(pool') : IsRoyalty(pool'[m], rest[j].call)
             \/ \E m \in 1..j - 1 : IsRoyalty(rest[m], rest[j].call)
  <2>1. \/ Settled(log, expired, rest[j].call)
        \/ \E m \in 1..Len(pool) : IsRoyalty(pool[m], rest[j].call)
        \/ \E m \in 1..j - 1 : IsRoyalty(rest[m], rest[j].call)
    BY <1>8 DEF Inv, RoyaltyAhead
  <2> QED
    BY <1>3, <2>1
<1> QED
  BY <1>2, <1>7, <1>8 DEF Inv, RoyaltyAhead, OneKind

\* A transaction that is no payment joins at the end.
LEMMA AppendedAhead ==
    ASSUME Inv, NEW tx \in Tx, tx.kind # "payment",
           pool' = Append(pool, tx), UNCHANGED <<rest, log, expired, signed>>
    PROVE  RoyaltyAhead' /\ pool' \in Seq(Tx)
<1>1. pool \in Seq(Tx) /\ Len(pool) \in Nat
  BY LenProperties DEF Inv, TypeOK
<1>2. /\ pool' \in Seq(Tx) /\ Len(pool') = Len(pool) + 1
      /\ \A i \in 1..Len(pool) : pool'[i] = pool[i]
      /\ pool'[Len(pool) + 1] = tx
  BY <1>1, AppendProperties
<1>3. ASSUME NEW j \in 1..Len(pool'), Owing(pool'[j])
      PROVE  \/ Settled(log, expired, pool'[j].call)
             \/ \E m \in 1..j - 1 : IsRoyalty(pool'[m], pool'[j].call)
  <2>1. j \in 1..Len(pool)
    BY <1>1, <1>2, <1>3 DEF Owing
  <2>2. \/ Settled(log, expired, pool[j].call)
        \/ \E m \in 1..j - 1 : IsRoyalty(pool[m], pool[j].call)
    BY <1>2, <1>3, <2>1 DEF Inv, RoyaltyAhead
  <2>3. \A m \in 1..j - 1 : pool'[m] = pool[m]
    BY <1>1, <1>2, <2>1
  <2> QED
    BY <1>2, <2>1, <2>2, <2>3
<1>4. ASSUME NEW j \in 1..Len(rest), Owing(rest[j])
      PROVE  \/ Settled(log, expired, rest[j].call)
             \/ \E m \in 1..Len(pool') : IsRoyalty(pool'[m], rest[j].call)
             \/ \E m \in 1..j - 1 : IsRoyalty(rest[m], rest[j].call)
  <2>1. \A m \in 1..Len(pool) : m \in 1..Len(pool') /\ pool'[m] = pool[m]
    BY <1>1, <1>2
  <2> QED
    BY <1>4, <2>1 DEF Inv, RoyaltyAhead
<1> QED
  BY <1>2, <1>3, <1>4 DEF Inv, RoyaltyAhead

\* A call leaves its transactions to be queued.
LEMMA LeftAhead ==
    ASSUME Inv, UNCHANGED <<pool, log, expired, signed>>, OneKind(rest'),
           \A k \in 1..Len(rest') :
             Owing(rest'[k]) => \E m \in 1..k - 1 : IsRoyalty(rest'[m], rest'[k].call)
    PROVE  RoyaltyAhead'
BY DEF Inv, RoyaltyAhead, OneKind

-----------------------------------------------------------------------------
(* The steps                                                               *)

\* The first state.
LEMMA InitInv == Init => Inv
<1> SUFFICES ASSUME Init PROVE Inv
  OBVIOUS
<1>1. /\ pool = <<>> /\ rest = <<>> /\ log = <<>> /\ signed = {} /\ expired = {}
      /\ applied = [b \in Node |-> 0] /\ books = <<[c \in Cid |-> Nobody]>>
      /\ content = [b \in Node |-> [c \in Cid |-> NoRecord]]
  BY DEF Init
<1>2. Len(pool) = 0 /\ Len(rest) = 0 /\ Len(log) = 0
  BY <1>1
<1>3. /\ books \in Seq([Cid -> Wallet \union {Nobody}])
      /\ Len(books) = 1 /\ books[1] = [c \in Cid |-> Nobody]
  <2>1. [c \in Cid |-> Nobody] \in [Cid -> Wallet \union {Nobody}]
    OBVIOUS
  <2> QED
    BY <1>1, <2>1
<1>4. TypeOK
  <2>1. pool \in Seq(Tx) /\ rest \in Seq(Tx) /\ log \in Seq(Tx)
    BY <1>1
  <2>2. applied \in [Node -> 0..Len(log)]
    BY <1>1, <1>2
  <2>3. 0 \in 0..MaxTx /\ 0 \in 0..MaxPosts
    BY RegistryAssumption
  <2>4. edition \in [Node -> [Cid -> [Edition -> Wallet \union {Nobody}]]]
    BY DEF Init
  <2> QED
    BY <1>1, <1>3, <2>1, <2>2, <2>3, <2>4 DEF Init, TypeOK
<1>5. BooksFollow
  BY <1>2, <1>3 DEF BooksFollow
<1>6. OwnersReplay
  BY <1>1, <1>3 DEF OwnersReplay
<1>7. RoyaltyFirst /\ RoyaltyAhead
  BY <1>1, <1>2 DEF RoyaltyFirst, RoyaltyAhead, OneKind
<1> QED
  BY <1>4, <1>5, <1>6, <1>7 DEF Inv

\* A request to a registry.
LEMMA CallInv ==
    ASSUME Inv, NEW b \in Node, NEW c \in Cid, NEW w \in Wallet, Call(b, c, w)
    PROVE  Inv'
<1>1. TypeOK
  BY DEF Inv
<1>2. /\ made < MaxTx /\ made' = made + 1 /\ rest = <<>> /\ sale = NoSale
      /\ UNCHANGED <<content, edition, log, applied, signed, posts, books, expired>>
  BY DEF Call, Register, CreateEditions, Give, Sell, TransferEdition, Idle
<1>3. made' \in 1..MaxTx /\ made + 1 \in 1..MaxTx
  BY <1>2, RegistryAssumption DEF Inv, TypeOK
<1>4. BooksFollow' /\ OwnersReplay' /\ RoyaltyFirst'
  BY <1>2, RestedKeeps DEF Rested
<1>5. ASSUME pool' \in Seq(Tx), rest' \in Seq(Tx), sale' \in Sale \union {NoSale}
      PROVE  TypeOK'
  BY <1>2, <1>3, <1>5 DEF Inv, TypeOK
<1>6. ASSUME NEW royalty \in Royalty, Register(b, c, w, royalty)
      PROVE  Inv'
  <2> DEFINE tx == [Made(b, "register", c, w, w, made + 1) EXCEPT !.royalty = royalty]
  <2>1. tx \in Tx /\ tx.kind # "payment"
    <3>1. tx \in Tx
      BY <1>1, <1>3, MadeType
    <3>2. tx.kind = "register"
      BY DEF Made
    <3> QED
      BY <3>1, <3>2
  <2>2. pool' = Append(pool, tx) /\ rest' = rest /\ sale' = sale
    BY <1>2, <1>6 DEF Register
  <2> HIDE DEF tx
  <2>3. RoyaltyAhead' /\ pool' \in Seq(Tx)
    BY <1>2, <2>1, <2>2, AppendedAhead
  <2> QED
    BY <1>1, <1>4, <1>5, <2>2, <2>3 DEF Inv, TypeOK
<1>7. ASSUME NEW v \in Wallet, Give(b, c, w, v)
      PROVE  Inv'
  <2> DEFINE tx == Made(b, "gift", c, w, v, made + 1)
  <2>1. tx \in Tx /\ tx.kind # "payment"
    <3>1. tx \in Tx
      BY <1>1, <1>3, MadeType
    <3>2. tx.kind = "gift"
      BY DEF Made
    <3> QED
      BY <3>1, <3>2
  <2>2. pool' = Append(pool, tx) /\ rest' = rest /\ sale' = sale
    BY <1>2, <1>7 DEF Give
  <2> HIDE DEF tx
  <2>3. RoyaltyAhead' /\ pool' \in Seq(Tx)
    BY <1>2, <2>1, <2>2, AppendedAhead
  <2> QED
    BY <1>1, <1>4, <1>5, <2>2, <2>3 DEF Inv, TypeOK
<1>8. ASSUME NEW v \in Wallet, NEW e \in Edition, NEW paid \in BOOLEAN,
             TransferEdition(b, c, e, w, v, paid)
      PROVE  Inv'
  <2> DEFINE tx == [Made(b, "edition", c, w, v, made + 1) EXCEPT !.edition = e, !.paid = paid]
  <2>1. e \in 0..Total
    BY RegistryAssumption DEF Edition
  <2>2. tx \in Tx /\ tx.kind # "payment"
    <3>1. tx \in Tx
      <4>1. Made(b, "edition", c, w, v, made + 1) \in Tx
        BY <1>1, <1>3, MadeType
      <4> QED
        BY <2>1, <4>1 DEF Tx
    <3>2. tx.kind = "edition"
      BY DEF Made
    <3> QED
      BY <3>1, <3>2
  <2>3. pool' = Append(pool, tx) /\ rest' = rest /\ sale' \in Sale \union {NoSale}
    BY <1>2, <1>3, <1>8 DEF TransferEdition, Sale
  <2> HIDE DEF tx
  <2>4. RoyaltyAhead' /\ pool' \in Seq(Tx)
    BY <1>2, <2>2, <2>3, AppendedAhead
  <2> QED
    BY <1>1, <1>4, <1>5, <2>3, <2>4 DEF Inv, TypeOK
<1>9. ASSUME NEW v \in Wallet, Sell(b, c, w, v)
      PROVE  Inv'
  <2>1. 0 \in 0..Total
    BY RegistryAssumption
  <2>2. rest' = SaleTxs(b, c, 0, w, v, made + 1) /\ pool' = pool /\ sale' = sale
    BY <1>9 DEF Sell
  <2>3. /\ rest' \in Seq(Tx)
        /\ \A k \in 1..Len(rest') :
             Owing(rest'[k]) => \E m \in 1..k - 1 : IsRoyalty(rest'[m], rest'[k].call)
        /\ OneKind(rest')
    BY <1>1, <1>3, <2>1, <2>2, SaleTxsProperties
  <2>4. RoyaltyAhead'
    BY <1>2, <2>2, <2>3, LeftAhead
  <2> QED
    BY <1>1, <1>4, <1>5, <2>2, <2>3, <2>4 DEF Inv, TypeOK
<1>10. CASE CreateEditions(b, c, w)
  <2> DEFINE tx(e) == [Made(b, "edition", c, w, w, made + 1) EXCEPT !.edition = e]
  <2>1. rest' = [e \in 1..Total |-> tx(e)] /\ pool' = pool /\ sale' = sale
    BY <1>10 DEF CreateEditions, Edition
  <2>2. ASSUME NEW e \in 1..Total
        PROVE  tx(e) \in Tx /\ ~Owing(tx(e)) /\ tx(e).edition # 0
    <3>1. Made(b, "edition", c, w, w, made + 1) \in Tx /\ e \in 0..Total
      <4>1. e \in 0..Total
        BY RegistryAssumption
      <4> QED
        BY <1>1, <1>3, <4>1, MadeType
    <3>2. tx(e) \in Tx
      BY <3>1 DEF Tx
    <3>3. tx(e).kind = "edition" /\ tx(e).edition = e
      BY DEF Made
    <3> QED
      BY <3>2, <3>3 DEF Owing
  <2> HIDE DEF tx
  <2>3. /\ rest' \in Seq(Tx) /\ Len(rest') = Total
        /\ \A e \in 1..Total : rest'[e] = tx(e)
    BY <2>1, <2>2, RegistryAssumption
  <2>4. RoyaltyAhead'
    BY <1>2, <2>1, <2>2, <2>3, LeftAhead DEF OneKind
  <2> QED
    BY <1>1, <1>4, <1>5, <2>1, <2>3, <2>4 DEF Inv, TypeOK
<1> QED
  BY <1>6, <1>7, <1>8, <1>9, <1>10 DEF Call

\* The rest of a call.
LEMMA QueueInv ==
    ASSUME Inv, Split \/ Queue \/ Refuse
    PROVE  Inv'
<1>1. TypeOK
  BY DEF Inv
<1>2. UNCHANGED <<content, edition, log, applied, signed, made, posts, books, expired>>
  BY DEF Split, Queue, Refuse
<1>3. BooksFollow' /\ OwnersReplay' /\ RoyaltyFirst'
  BY <1>2, RestedKeeps DEF Rested
<1>4. ASSUME pool' \in Seq(Tx), rest' \in Seq(Tx), sale' \in Sale \union {NoSale}
      PROVE  TypeOK'
  BY <1>1, <1>2, <1>4 DEF TypeOK
<1>5. ASSUME rest # <<>>
      PROVE  /\ Head(rest) \in Tx /\ Head(rest) = rest[1]
             /\ Tail(rest) \in Seq(Tx)
             /\ Len(rest) \in Nat \ {0} /\ Len(Tail(rest)) = Len(rest) - 1
             /\ \A k \in 1..Len(Tail(rest)) : Tail(rest)[k] = rest[k + 1]
  BY <1>1, <1>5, HeadTailProperties, EmptySeq DEF TypeOK
<1>6. CASE Split
  <2>1. sale \in Sale /\ pool' = pool /\ sale' = NoSale
    BY <1>1, <1>6 DEF Split, TypeOK
  <2>2. /\ sale.by \in Node /\ sale.cid \in Cid /\ sale.edition \in 0..Total
        /\ sale.seller \in Wallet /\ sale.buyer \in Wallet /\ sale.call \in 1..MaxTx
    BY <2>1, RegistryAssumption DEF Sale, Edition
  <2>3. rest' = SaleTxs(sale.by, sale.cid, sale.edition, sale.seller, sale.buyer, sale.call)
    BY <1>6 DEF Split
  <2>4. /\ rest' \in Seq(Tx)
        /\ \A k \in 1..Len(rest') :
             Owing(rest'[k]) => \E m \in 1..k - 1 : IsRoyalty(rest'[m], rest'[k].call)
        /\ OneKind(rest')
    BY <1>1, <2>2, <2>3, SaleTxsProperties
  <2>5. RoyaltyAhead'
    BY <1>2, <2>1, <2>4, LeftAhead
  <2> QED
    BY <1>1, <1>3, <1>4, <2>1, <2>4, <2>5 DEF Inv, TypeOK
<1>7. CASE Queue
  <2>1. /\ rest # <<>> /\ sale' = sale
        /\ pool' = Append(pool, Head(rest)) /\ rest' = Tail(rest)
    BY <1>7 DEF Queue
  <2>2. pool \in Seq(Tx) /\ Len(pool) \in Nat
    BY <1>1, LenProperties DEF TypeOK
  <2>3. /\ pool' \in Seq(Tx) /\ Len(pool') = Len(pool) + 1
        /\ \A i \in 1..Len(pool) : pool'[i] = pool[i]
        /\ pool'[Len(pool) + 1] = rest[1]
    BY <1>5, <2>1, <2>2, AppendProperties
  <2>4. ASSUME NEW j \in 1..Len(pool'), Owing(pool'[j])
        PROVE  \/ Settled(log, expired, pool'[j].call)
               \/ \E m \in 1..j - 1 : IsRoyalty(pool'[m], pool'[j].call)
    <3>1. CASE j \in 1..Len(pool)
      <4>1. \/ Settled(log, expired, pool[j].call)
            \/ \E m \in 1..j - 1 : IsRoyalty(pool[m], pool[j].call)
        BY <2>3, <2>4, <3>1 DEF Inv, RoyaltyAhead
      <4>2. \A m \in 1..j - 1 : pool'[m] = pool[m]
        BY <2>2, <2>3, <3>1
      <4> QED
        BY <2>3, <3>1, <4>1, <4>2
    <3>2. CASE j = Len(pool) + 1
      <4>1. pool'[j] = rest[1] /\ 1 \in 1..Len(rest)
        BY <1>5, <2>1, <2>3, <3>2
      <4>2. \/ Settled(log, expired, rest[1].call)
            \/ \E m \in 1..Len(pool) : IsRoyalty(pool[m], rest[1].call)
            \/ \E m \in 1..1 - 1 : IsRoyalty(rest[m], rest[1].call)
        BY <2>4, <4>1 DEF Inv, RoyaltyAhead
      <4>3. \A m \in 1..Len(pool) : m \in 1..j - 1 /\ pool'[m] = pool[m]
        BY <2>2, <2>3, <3>2
      <4> QED
        BY <4>1, <4>2, <4>3
    <3> QED
      BY <2>2, <2>3, <3>1, <3>2
  <2>5. ASSUME NEW j \in 1..Len(rest'), Owing(rest'[j])
        PROVE  \/ Settled(log, expired, rest'[j].call)
               \/ \E m \in 1..Len(pool') : IsRoyalty(pool'[m], rest'[j].call)
               \/ \E m \in 1..j - 1 : IsRoyalty(rest'[m], rest'[j].call)
    <3>1. j + 1 \in 1..Len(rest) /\ rest'[j] = rest[j + 1]
      BY <1>5, <2>1
    <3>2. \/ Settled(log, expired, rest[j + 1].call)
          \/ \E m \in 1..Len(pool) : IsRoyalty(pool[m], rest[j + 1].call)
          \/ \E m \in 1..(j + 1) - 1 : IsRoyalty(rest[m], rest[j + 1].call)
      BY <2>5, <3>1 DEF Inv, RoyaltyAhead
    <3>3. \A m \in 1..Len(pool) : m \in 1..Len(pool') /\ pool'[m] = pool[m]
      BY <2>2, <2>3
    <3>4. ASSUME NEW m \in 1..(j + 1) - 1, IsRoyalty(rest[m], rest[j + 1].call)
          PROVE  \/ \E q \in 1..Len(pool') : IsRoyalty(pool'[q], rest'[j].call)
                 \/ \E q \in 1..j - 1 : IsRoyalty(rest'[q], rest'[j].call)
      <4>1. CASE m = 1
        <5>1. Len(pool) + 1 \in 1..Len(pool')
          BY <2>2, <2>3
        <5> QED
          BY <2>3, <3>1, <3>4, <4>1, <5>1
      <4>2. CASE m > 1
        <5>1. m - 1 \in 1..j - 1 /\ m - 1 \in 1..Len(Tail(rest))
          BY <1>5, <2>1, <4>2
        <5>2. rest'[m - 1] = rest[m - 1 + 1] /\ m - 1 + 1 = m
          BY <1>5, <2>1, <5>1
        <5> QED
          BY <3>1, <3>4, <5>1, <5>2
      <4> QED
        BY <4>1, <4>2
    <3> QED
      BY <3>1, <3>2, <3>3, <3>4
  <2>6. OneKind(rest')
    <3>1. OneKind(rest)
      BY DEF Inv, RoyaltyAhead
    <3>2. \A j \in 1..Len(rest') : j + 1 \in 1..Len(rest) /\ rest'[j] = rest[j + 1]
      BY <1>5, <2>1
    <3> QED
      BY <3>1, <3>2 DEF OneKind
  <2>7. RoyaltyAhead'
    BY <1>2, <2>4, <2>5, <2>6 DEF Inv, RoyaltyAhead, OneKind
  <2> QED
    BY <1>1, <1>3, <1>4, <1>5, <2>1, <2>3, <2>7 DEF Inv, TypeOK
<1>8. CASE Refuse
  <2>1. rest # <<>> /\ pool' = pool /\ sale' = sale
    BY <1>8 DEF Refuse
  <2>2. CASE rest' = <<>>
    <3>1. Len(rest') = 0 /\ rest' \in Seq(Tx)
      BY <2>2
    <3>2. RoyaltyAhead'
      BY <1>2, <2>1, <3>1, LeftAhead DEF OneKind
    <3> QED
      BY <1>1, <1>3, <1>4, <2>1, <3>1, <3>2 DEF Inv, TypeOK
  <2>3. CASE Head(rest).edition # 0 /\ rest' = Tail(rest)
    <3>1. \A k \in 1..Len(rest) : rest[k].edition # 0
      BY <1>5, <2>1, <2>3 DEF Inv, RoyaltyAhead, OneKind
    <3>2. \A j \in 1..Len(rest') : j + 1 \in 1..Len(rest) /\ rest'[j] = rest[j + 1]
      BY <1>5, <2>1, <2>3
    <3>3. RoyaltyAhead'
      BY <1>2, <2>1, <3>1, <3>2, LeftAhead DEF OneKind, Owing
    <3> QED
      BY <1>1, <1>3, <1>4, <1>5, <2>1, <2>3, <3>3 DEF Inv, TypeOK
  <2> QED
    BY <1>8, <2>2, <2>3 DEF Refuse
<1> QED
  BY <1>6, <1>7, <1>8

\* A client posts, or posts again.
LEMMA ClientInv ==
    ASSUME Inv,
           \/ \E c \in Cid, from, to \in Wallet : ClientPost(c, from, to)
           \/ \E tx \in signed : Repost(tx)
    PROVE  Inv'
<1>1. TypeOK
  BY DEF Inv
<1>2. ASSUME NEW tx \in Tx, tx.kind # "payment", NEW k \in 1..Len(pool) + 1,
             pool' = InsertAt(pool, k, tx), signed' \subseteq signed \union {tx},
             made < MaxTx, made' = made + 1, posts' \in 0..MaxPosts,
             UNCHANGED <<content, edition, rest, sale, log, applied, books, expired>>
      PROVE  Inv'
  <2>1. BooksFollow' /\ OwnersReplay' /\ RoyaltyFirst'
    BY <1>2, RestedKeeps DEF Rested
  <2>2. \A t \in signed' : t.kind # "payment"
    BY <1>2 DEF Inv, RoyaltyAhead
  <2>3. RoyaltyAhead' /\ pool' \in Seq(Tx)
    BY <1>2, <2>2, JoinedAhead
  <2>4. made' \in 0..MaxTx
    BY <1>1, <1>2, RegistryAssumption DEF TypeOK
  <2>5. TypeOK'
    BY <1>1, <1>2, <2>3, <2>4 DEF TypeOK
  <2> QED
    BY <2>1, <2>3, <2>5 DEF Inv
<1>3. ASSUME NEW c \in Cid, NEW from \in Wallet, NEW to \in Wallet, ClientPost(c, from, to)
      PROVE  Inv'
  <2>1. PICK kind \in {"register", "gift", "edition"}, royalty \in Royalty,
             e \in 0..Total, paid \in BOOLEAN :
          Post(Posted(kind, c, from, to, royalty, e, paid))
    <3>1. "none" \in Royalty /\ 0 \in 0..Total /\ Edition \subseteq 0..Total
      BY RegistryAssumption DEF Edition
    <3> QED
      BY <1>3, <3>1 DEF ClientPost, ClientRegister, ClientGive, ClientTransferEdition
  <2> DEFINE tx == Posted(kind, c, from, to, royalty, e, paid)
  <2>2. made < MaxTx /\ made + 1 \in 1..MaxTx
    BY <1>1, <2>1, RegistryAssumption DEF Post, TypeOK
  <2>3. tx \in Tx
    BY <2>2 DEF Posted, Tx
  <2>4. tx.kind # "payment"
    BY DEF Posted
  <2> HIDE DEF tx
  <2>5. /\ \E k \in 1..Len(pool) + 1 : pool' = InsertAt(pool, k, tx)
        /\ signed' = signed \union {tx} /\ made' = made + 1
        /\ posts < MaxPosts /\ posts' = posts + 1
        /\ UNCHANGED <<content, edition, rest, sale, log, applied, books, expired>>
    BY <2>1 DEF Post, tx
  <2>6. posts' \in 0..MaxPosts
    BY <1>1, <2>5, RegistryAssumption DEF TypeOK
  <2> QED
    BY <1>2, <2>2, <2>3, <2>4, <2>5, <2>6
<1>4. ASSUME NEW tx \in signed, Repost(tx)
      PROVE  Inv'
  <2>1. tx \in Tx /\ tx.kind # "payment"
    BY DEF Inv, TypeOK, RoyaltyAhead
  <2>2. /\ \E k \in 1..Len(pool) + 1 : pool' = InsertAt(pool, k, tx)
        /\ made < MaxTx /\ made' = made + 1
        /\ UNCHANGED <<content, edition, rest, sale, log, applied, signed, posts, books, expired>>
    BY <1>4 DEF Repost
  <2>3. posts' \in 0..MaxPosts
    BY <1>1, <2>2 DEF TypeOK
  <2> QED
    BY <1>2, <2>1, <2>2, <2>3
<1> QED
  BY <1>3, <1>4

\* The oldest pending transaction leaves the mempool: with it goes no royalty that a
\* payment behind it still waits for, unless it is stored or has expired.
LEMMA LeavingAhead ==
    ASSUME Inv, pool # <<>>, pool' = Tail(pool), UNCHANGED <<rest, signed>>,
           Head(pool).kind = "royalty" => Settled(log', expired', Head(pool).call),
           \A call : Settled(log, expired, call) => Settled(log', expired', call)
    PROVE  RoyaltyAhead' /\ pool' \in Seq(Tx)
<1>1. /\ Head(pool) = pool[1]
      /\ Tail(pool) \in Seq(Tx)
      /\ Len(pool) \in Nat \ {0} /\ Len(Tail(pool)) = Len(pool) - 1
      /\ \A k \in 1..Len(Tail(pool)) : Tail(pool)[k] = pool[k + 1]
  BY HeadTailProperties, EmptySeq DEF Inv, TypeOK
<1>2. ASSUME NEW m \in 1..Len(pool), NEW call, IsRoyalty(pool[m], call)
      PROVE  \/ Settled(log', expired', call)
             \/ m - 1 \in 1..Len(pool') /\ IsRoyalty(pool'[m - 1], call)
  <2>1. CASE m = 1
    BY <1>1, <1>2, <2>1 DEF IsRoyalty
  <2>2. CASE m > 1
    <3>1. m - 1 \in 1..Len(pool') /\ m - 1 + 1 = m
      BY <1>1, <2>2
    <3> QED
      BY <1>1, <1>2, <3>1
  <2> QED
    BY <2>1, <2>2
<1>3. ASSUME NEW j \in 1..Len(pool'), Owing(pool'[j])
      PROVE  \/ Settled(log', expired', pool'[j].call)
             \/ \E m \in 1..j - 1 : IsRoyalty(pool'[m], pool'[j].call)
  <2>1. j + 1 \in 1..Len(pool) /\ pool'[j] = pool[j + 1]
    BY <1>1
  <2>2. \/ Settled(log, expired, pool[j + 1].call)
        \/ \E m \in 1..(j + 1) - 1 : IsRoyalty(pool[m], pool[j + 1].call)
    BY <1>3, <2>1 DEF Inv, RoyaltyAhead
  <2>3. ASSUME NEW m \in 1..(j + 1) - 1, IsRoyalty(pool[m], pool[j + 1].call)
        PROVE  \/ Settled(log', expired', pool'[j].call)
               \/ \E q \in 1..j - 1 : IsRoyalty(pool'[q], pool'[j].call)
    <3>1. m \in 1..Len(pool) /\ m <= j
      BY <1>1, <2>1
    <3>2. \/ Settled(log', expired', pool'[j].call)
          \/ m - 1 \in 1..Len(pool') /\ IsRoyalty(pool'[m - 1], pool'[j].call)
      BY <1>2, <2>1, <2>3, <3>1
    <3>3. m - 1 \in 1..Len(pool') => m - 1 \in 1..j - 1
      BY <1>1, <3>1
    <3> QED
      BY <3>2, <3>3
  <2> QED
    BY <2>1, <2>2, <2>3
<1>4. ASSUME NEW j \in 1..Len(rest), Owing(rest[j])
      PROVE  \/ Settled(log', expired', rest[j].call)
             \/ \E m \in 1..Len(pool') : IsRoyalty(pool'[m], rest[j].call)
             \/ \E m \in 1..j - 1 : IsRoyalty(rest[m], rest[j].call)
  <2>1. \/ Settled(log, expired, rest[j].call)
        \/ \E m \in 1..Len(pool) : IsRoyalty(pool[m], rest[j].call)
        \/ \E m \in 1..j - 1 : IsRoyalty(rest[m], rest[j].call)
    BY <1>4 DEF Inv, RoyaltyAhead
  <2> QED
    BY <1>2, <2>1
<1> QED
  BY <1>1, <1>3, <1>4 DEF Inv, RoyaltyAhead, OneKind

\* A transaction is stored.
LEMMA MineInv ==
    ASSUME Inv, Mine
    PROVE  Inv'
<1> DEFINE tx == Head(pool)
           n == Len(log)
<1>1. /\ pool # <<>> /\ pool' = Tail(pool) /\ log' = Append(log, tx)
      /\ books' = Append(books, NextPage(books[n + 1], tx))
      /\ UNCHANGED <<content, edition, rest, sale, applied, signed, made, posts, expired>>
  BY DEF Mine, NextPage
<1>2. /\ pool \in Seq(Tx) /\ log \in Seq(Tx) /\ n \in Nat
      /\ books \in Seq([Cid -> Wallet \union {Nobody}])
      /\ tx \in Tx /\ tx = pool[1] /\ 1 \in 1..Len(pool)
  BY <1>1, HeadTailProperties, EmptySeq, LenProperties DEF Inv, TypeOK
<1>3. books[n + 1] \in [Cid -> Wallet \union {Nobody}] /\ Len(books) = n + 1
  <2>1. Len(books) = n + 1
    BY DEF Inv, BooksFollow
  <2>2. n + 1 \in 1..Len(books)
    BY <1>2, <2>1
  <2> QED
    BY <1>2, <2>1, <2>2, ElementOfSeq
<1> DEFINE page == NextPage(books[n + 1], tx)
<1>4. page \in [Cid -> Wallet \union {Nobody}]
  <2>1. tx.cid \in Cid /\ tx.from \in Wallet /\ tx.to \in Wallet
    BY <1>2 DEF Tx
  <2>2. \A o \in Wallet \union {Nobody} : OwnerAfter(o, tx) \in Wallet \union {Nobody}
    BY <2>1 DEF OwnerAfter
  <2> QED
    BY <1>3, <2>1, <2>2 DEF NextPage
<1> HIDE DEF tx, n, page
<1>5. /\ log' \in Seq(Tx) /\ Len(log') = n + 1 /\ log'[n + 1] = tx
      /\ \A k \in 1..n : log'[k] = log[k]
  BY <1>1, <1>2, AppendProperties DEF n
<1>6. /\ books' \in Seq([Cid -> Wallet \union {Nobody}])
      /\ Len(books') = n + 2 /\ books'[n + 2] = page
      /\ \A k \in 1..n + 1 : books'[k] = books[k]
  <2>1. books' = Append(books, page)
    BY <1>1 DEF page, tx, n
  <2>2. /\ books' \in Seq([Cid -> Wallet \union {Nobody}])
        /\ Len(books') = Len(books) + 1 /\ books'[Len(books) + 1] = page
        /\ \A k \in 1..Len(books) : books'[k] = books[k]
    BY <1>2, <1>4, <2>1, AppendProperties
  <2> QED
    BY <1>2, <1>3, <2>2
<1>7. BooksFollow'
  <2> SUFFICES ASSUME NEW k \in 1..n + 1
               PROVE  books'[k + 1] = NextPage(books'[k], log'[k])
    BY <1>2, <1>5, <1>6 DEF BooksFollow
  <2>1. CASE k = n + 1
    BY <1>2, <1>5, <1>6, <2>1 DEF page
  <2>2. CASE k # n + 1
    <3>1. k \in 1..n /\ k \in 1..n + 1 /\ k + 1 \in 1..n + 1
      BY <1>2, <2>2
    <3>2. books[k + 1] = NextPage(books[k], log[k])
      BY <3>1 DEF Inv, BooksFollow, n
    <3> QED
      BY <1>5, <1>6, <3>1, <3>2
  <2> QED
    BY <2>1, <2>2
<1>8. ASSUME NEW b \in Node
      PROVE  applied[b] \in 0..n + 1 /\ books'[applied[b] + 1] = books[applied[b] + 1]
  <2>1. applied[b] \in 0..n
    BY DEF Inv, TypeOK, n
  <2>2. applied[b] + 1 \in 1..n + 1
    BY <1>2, <2>1
  <2> QED
    BY <1>2, <1>6, <2>1, <2>2
<1>9. OwnersReplay'
  BY <1>1, <1>8 DEF Inv, OwnersReplay
<1>10. \A call : Settled(log, expired, call) => Settled(log', expired', call)
  <2>1. \A k \in 1..Len(log) : k \in 1..Len(log') /\ log'[k] = log[k]
    BY <1>2, <1>5 DEF n
  <2> QED
    BY <1>1, <2>1 DEF Settled
<1>11. tx.kind = "royalty" => Settled(log', expired', tx.call)
  <2>1. n + 1 \in 1..Len(log')
    BY <1>2, <1>5
  <2> QED
    BY <1>5, <2>1 DEF Settled, IsRoyalty
<1>12. RoyaltyAhead' /\ pool' \in Seq(Tx)
  BY <1>1, <1>10, <1>11, LeavingAhead DEF tx
<1>13. RoyaltyFirst'
  <2> SUFFICES ASSUME NEW k \in 1..n + 1, Owing(log'[k])
               PROVE  \/ log'[k].call \in expired
                      \/ \E m \in 1..k - 1 : log'[m].kind = "royalty" /\ log'[m].call = log'[k].call
    <3>1. DOMAIN log' = 1..n + 1
      BY <1>5, LenProperties
    <3> QED
      BY <1>1, <3>1 DEF RoyaltyFirst, Owing
  <2>1. CASE k = n + 1
    <3>1. Owing(pool[1]) /\ log'[k] = pool[1]
      BY <1>2, <1>5, <2>1
    <3>2. Settled(log, expired, pool[1].call) \/ \E m \in 1..1 - 1 : IsRoyalty(pool[m], pool[1].call)
      BY <1>2, <3>1 DEF Inv, RoyaltyAhead
    <3>3. Settled(log, expired, pool[1].call)
      BY <3>2
    <3>4. \A m \in 1..Len(log) : m \in 1..k - 1 /\ log'[m] = log[m]
      BY <1>2, <1>5, <2>1 DEF n
    <3> QED
      BY <3>1, <3>3, <3>4 DEF Settled, IsRoyalty
  <2>2. CASE k # n + 1
    <3>1. k \in 1..n /\ k \in DOMAIN log /\ log'[k] = log[k]
      BY <1>2, <1>5, <2>2, LenProperties DEF n
    <3>2. \/ log[k].call \in expired
          \/ \E m \in 1..k - 1 : log[m].kind = "royalty" /\ log[m].call = log[k].call
      BY <3>1 DEF Inv, RoyaltyFirst, Owing
    <3>3. \A m \in 1..k - 1 : log'[m] = log[m]
      BY <1>2, <1>5, <3>1
    <3> QED
      BY <3>1, <3>2, <3>3
  <2> QED
    BY <2>1, <2>2
<1>14. TypeOK'
  <2>1. applied' \in [Node -> 0..Len(log')]
    BY <1>1, <1>5, <1>8 DEF Inv, TypeOK
  <2> QED
    BY <1>1, <1>5, <1>6, <1>12, <2>1 DEF Inv, TypeOK
<1> QED
  BY <1>7, <1>9, <1>12, <1>13, <1>14 DEF Inv

\* A node applies a stored transaction: its record and the books take the same step.
LEMMA ApplyInv ==
    ASSUME Inv, NEW b \in Node, Apply(b)
    PROVE  Inv'
<1> DEFINE n == applied[b]
           tx == log[n + 1]
           r == content[b][tx.cid]
           new == Recorded(Backend[b], r, tx)
<1>1. /\ n < Len(log)
      /\ content' = [content EXCEPT ![b][tx.cid] = new]
      /\ edition' = IF tx.kind = "edition"
                      THEN [edition EXCEPT ![b][tx.cid][tx.edition] = tx.to] ELSE edition
      /\ applied' = [applied EXCEPT ![b] = @ + 1]
      /\ UNCHANGED <<pool, rest, sale, log, signed, made, posts, books, expired>>
  BY DEF Apply
<1>2. /\ Len(log) \in Nat /\ n \in 0..Len(log) - 1 /\ n + 1 \in 1..Len(log)
      /\ tx \in Tx /\ Backend[b] \in {"sqlite", "supabase", "ram"}
  <2>1. log \in Seq(Tx) /\ Len(log) \in Nat /\ n \in 0..Len(log)
    BY LenProperties DEF Inv, TypeOK
  <2>2. n + 1 \in 1..Len(log)
    BY <1>1, <2>1
  <2> QED
    BY <1>1, <2>1, <2>2, ElementOfSeq, RegistryAssumption
<1>3. tx.cid \in Cid /\ tx.to \in Wallet /\ r \in Record \union {NoRecord}
  <2>1. tx.cid \in Cid /\ tx.to \in Wallet
    BY <1>2 DEF Tx
  <2>2. content \in [Node -> [Cid -> Record \union {NoRecord}]]
    BY DEF Inv, TypeOK
  <2> QED
    BY <2>1, <2>2
<1>4. /\ books[n + 1] \in [Cid -> Wallet \union {Nobody}]
      /\ books[n + 2] = NextPage(books[n + 1], tx)
  <2>1. Len(books) = Len(log) + 1 /\ books \in Seq([Cid -> Wallet \union {Nobody}])
    BY DEF Inv, BooksFollow, TypeOK
  <2>2. n + 1 \in 1..Len(books) /\ n + 1 + 1 = n + 2
    BY <1>2, <2>1
  <2>3. books[n + 1 + 1] = NextPage(books[n + 1], log[n + 1])
    BY <1>2 DEF Inv, BooksFollow
  <2> QED
    BY <2>1, <2>2, <2>3, ElementOfSeq
<1> DEFINE owner == books[n + 1][tx.cid]
<1>5. /\ owner \in Wallet \union {Nobody}
      /\ books[n + 2][tx.cid] = OwnerAfter(owner, tx)
      /\ \A c \in Cid \ {tx.cid} : books[n + 2][c] = books[n + 1][c]
  BY <1>3, <1>4 DEF NextPage
<1> HIDE DEF tx, r, new, owner
<1>6. Agrees(owner, r)
  BY <1>3 DEF Inv, OwnersReplay, Agrees, r, owner
<1>7. /\ new \in Record \union {NoRecord}
      /\ (r # NoRecord /\ r.owner = Nobody => Backend[b] = "ram") =>
           (new # NoRecord /\ new.owner = Nobody => Backend[b] = "ram")
      /\ Agrees(OwnerAfter(owner, tx), new)
  BY <1>2, <1>3, <1>5, <1>6, RecordedProperties DEF new
<1>8. /\ content' \in [Node -> [Cid -> Record \union {NoRecord}]]
      /\ content'[b][tx.cid] = new
      /\ \A c \in Cid \ {tx.cid} : content'[b][c] = content[b][c]
      /\ \A a \in Node \ {b} : content'[a] = content[a]
  BY <1>1, <1>3, <1>7 DEF Inv, TypeOK
<1>9. /\ applied' \in [Node -> 0..Len(log)] /\ applied'[b] = n + 1
      /\ \A a \in Node \ {b} : applied'[a] = applied[a]
  <2>1. applied \in [Node -> 0..Len(log)] /\ n + 1 \in 0..Len(log)
    BY <1>2 DEF Inv, TypeOK
  <2> QED
    BY <1>1, <2>1
<1>10. \A a \in Node, c \in Cid :
         content'[a][c] # NoRecord /\ content'[a][c].owner = Nobody => Backend[a] = "ram"
  <2>1. \A a \in Node, c \in Cid :
          content[a][c] # NoRecord /\ content[a][c].owner = Nobody => Backend[a] = "ram"
    BY DEF Inv, TypeOK
  <2>2. r # NoRecord /\ r.owner = Nobody => Backend[b] = "ram"
    BY <1>3, <2>1 DEF r
  <2> QED
    BY <1>7, <1>8, <2>1, <2>2
<1>11. edition' \in [Node -> [Cid -> [Edition -> Wallet \union {Nobody}]]]
  BY <1>1, <1>3 DEF Inv, TypeOK
<1>12. TypeOK'
  BY <1>1, <1>8, <1>9, <1>10, <1>11 DEF Inv, TypeOK
<1>13. OwnersReplay'
  <2> SUFFICES ASSUME NEW a \in Node, NEW c \in Cid
               PROVE  Agrees(books[applied'[a] + 1][c], content'[a][c])
    BY <1>1 DEF OwnersReplay, Agrees
  <2>1. Agrees(books[applied[a] + 1][c], content[a][c])
    BY DEF Inv, OwnersReplay, Agrees
  <2>2. CASE a # b
    BY <1>8, <1>9, <2>1, <2>2
  <2>3. CASE a = b
    <3>1. applied'[a] + 1 = n + 2
      BY <1>2, <1>9, <2>3
    <3>2. CASE c = tx.cid
      BY <1>5, <1>7, <1>8, <2>3, <3>1, <3>2
    <3>3. CASE c # tx.cid
      BY <1>5, <1>8, <2>1, <2>3, <3>1, <3>3
    <3> QED
      BY <3>2, <3>3
  <2> QED
    BY <2>2, <2>3
<1>14. BooksFollow' /\ RoyaltyFirst' /\ RoyaltyAhead'
  <2>1. BooksFollow'
    BY <1>1 DEF Inv, BooksFollow
  <2>2. RoyaltyFirst'
    BY <1>1 DEF Inv, RoyaltyFirst
  <2>3. RoyaltyAhead'
    BY <1>1 DEF Inv, RoyaltyAhead, OneKind
  <2> QED
    BY <2>1, <2>2, <2>3
<1> QED
  BY <1>12, <1>13, <1>14 DEF Inv

\* Transactions are lost from the mempool.
LEMMA LossInv ==
    ASSUME Inv, Expire \/ Crash
    PROVE  Inv'
<1>1. CASE Expire
  <2>1. /\ pool # <<>> /\ pool' = Tail(pool)
        /\ expired' = IF Head(pool).kind = "royalty" THEN expired \union {Head(pool).call}
                                                    ELSE expired
        /\ UNCHANGED <<content, edition, rest, sale, log, applied, signed, made, posts, books>>
    BY <1>1 DEF Expire
  <2>2. Head(pool) \in Tx
    BY <2>1, HeadTailProperties DEF Inv, TypeOK
  <2>3. BooksFollow' /\ OwnersReplay' /\ RoyaltyFirst'
    BY <2>1, RestedKeeps DEF Rested
  <2>4. RoyaltyAhead' /\ pool' \in Seq(Tx)
    <3>1. \A call : Settled(log, expired, call) => Settled(log', expired', call)
      BY <2>1 DEF Settled
    <3>2. Head(pool).kind = "royalty" => Settled(log', expired', Head(pool).call)
      BY <2>1 DEF Settled
    <3> QED
      BY <2>1, <3>1, <3>2, LeavingAhead
  <2>5. TypeOK'
    BY <2>1, <2>2, <2>4 DEF Inv, TypeOK, Tx
  <2> QED
    BY <2>3, <2>4, <2>5 DEF Inv
<1>2. CASE Crash
  <2>1. /\ pool' = <<>> /\ rest' = <<>> /\ sale' = NoSale
        /\ UNCHANGED <<content, edition, log, applied, signed, made, posts, books, expired>>
    BY <1>2 DEF Crash
  <2>2. /\ pool' \in Seq(Tx) /\ rest' \in Seq(Tx)
        /\ Len(pool') = 0 /\ Len(rest') = 0
    BY <2>1
  <2>3. BooksFollow' /\ OwnersReplay' /\ RoyaltyFirst'
    BY <2>1, RestedKeeps DEF Rested
  <2>4. RoyaltyAhead'
    BY <2>1, <2>2 DEF Inv, RoyaltyAhead, OneKind
  <2>5. TypeOK'
    BY <2>1, <2>2 DEF Inv, TypeOK
  <2> QED
    BY <2>3, <2>4, <2>5 DEF Inv
<1> QED
  BY <1>1, <1>2

\* Every step keeps the invariant.
LEMMA NextInv == Inv /\ [Next]_vars => Inv'
<1> SUFFICES ASSUME Inv, [Next]_vars PROVE Inv'
  OBVIOUS
<1>1. CASE \E b \in Node, c \in Cid, w \in Wallet : Call(b, c, w)
  BY <1>1, CallInv
<1>2. CASE Split \/ Queue \/ Refuse
  BY <1>2, QueueInv
<1>3. CASE \/ \E c \in Cid, from, to \in Wallet : ClientPost(c, from, to)
           \/ \E tx \in signed : Repost(tx)
  BY <1>3, ClientInv
<1>4. CASE Mine
  BY <1>4, MineInv
<1>5. CASE \E b \in Node : Apply(b)
  BY <1>5, ApplyInv
<1>6. CASE Expire \/ Crash
  BY <1>6, LossInv
<1>7. CASE UNCHANGED vars
  <2>1. BooksFollow' /\ OwnersReplay' /\ RoyaltyFirst'
    BY <1>7, RestedKeeps DEF vars, Rested
  <2>2. TypeOK'
    BY <1>7 DEF vars, Inv, TypeOK
  <2>3. RoyaltyAhead'
    BY <1>7 DEF vars, Inv, RoyaltyAhead, OneKind
  <2> QED
    BY <2>1, <2>2, <2>3 DEF Inv
<1> QED
  BY <1>1, <1>2, <1>3, <1>4, <1>5, <1>6, <1>7 DEF Next

-----------------------------------------------------------------------------
(* Theorems                                                                *)

\* The invariant holds in every state of every run.
THEOREM Invariance == Spec => []Inv
BY InitInv, NextInv, PTL DEF Spec

\* The variables have values of the right types; a record without an owner is found
\* on the ram backend only (TypeOK).
THEOREM TypeCorrect == Spec => []TypeOK
<1>1. Inv => TypeOK
  BY DEF Inv
<1> QED
  BY <1>1, Invariance, PTL

\* Every node, on any of the three backends, names the owners that the chain gives
\* after the transactions it has applied (save_content_record,
\* _apply_content_registry).
THEOREM OwnersFromChain == Spec => []OwnersReplay
<1>1. Inv => OwnersReplay
  BY DEF Inv
<1> QED
  BY <1>1, Invariance, PTL

\* No seller is paid for a content before the royalty is, unless that expired,
\* whatever is queued, refused, expired or lost around it (transfer_ownership,
\* create_royalty_transactions).
THEOREM RoyaltyBeforePayment == Spec => []RoyaltyFirst
<1>1. Inv => RoyaltyFirst
  BY DEF Inv
<1> QED
  BY <1>1, Invariance, PTL

\* On a node with the reference backend nothing that is ever stored changes the
\* creator or the royalty of a content (save_content_record of sqlite).
THEOREM CreatorStays == Spec => CreatorFixed
<1>1. ASSUME Inv, Next, NEW b \in Node, NEW c \in Cid,
             Backend[b] = "sqlite", content[b][c] # NoRecord
      PROVE  /\ content'[b][c].creator = content[b][c].creator
             /\ content'[b][c].royalty = content[b][c].royalty
  <2>1. ASSUME NEW a \in Node, Apply(a)
        PROVE  /\ content'[b][c].creator = content[b][c].creator
               /\ content'[b][c].royalty = content[b][c].royalty
    <3> DEFINE tx == log[applied[a] + 1]
               new == Recorded(Backend[a], content[a][tx.cid], tx)
    <3>1. content' = [content EXCEPT ![a][tx.cid] = new]
      BY <2>1 DEF Apply
    <3>2. tx \in Tx /\ tx.cid \in Cid
      <4>1. log \in Seq(Tx) /\ Len(log) \in Nat /\ applied[a] \in 0..Len(log)
        BY <1>1, LenProperties DEF Inv, TypeOK
      <4>2. applied[a] + 1 \in 1..Len(log)
        BY <2>1, <4>1 DEF Apply
      <4>3. tx \in Tx
        BY <4>1, <4>2, ElementOfSeq
      <4> QED
        BY <4>3 DEF Tx
    <3>3. content \in [Node -> [Cid -> Record \union {NoRecord}]]
      BY <1>1 DEF Inv, TypeOK
    <3> HIDE DEF tx, new
    <3>4. CASE a = b /\ tx.cid = c
      <4>1. content'[b][c] = new
        BY <3>1, <3>3, <3>4
      <4>2. Nobody \in Wallet \union {Nobody} /\ content[b][c] \in Record \union {NoRecord}
        BY <3>3
      <4>3. new # NoRecord /\ new.creator = content[b][c].creator
            /\ new.royalty = content[b][c].royalty
        BY <1>1, <3>2, <3>4, <4>2, RecordedProperties DEF new
      <4> QED
        BY <4>1, <4>3
    <3>5. CASE ~(a = b /\ tx.cid = c)
      <4>1. content'[b][c] = content[b][c]
        BY <3>1, <3>2, <3>3, <3>5
      <4> QED
        BY <4>1
    <3> QED
      BY <3>4, <3>5
  <2>2. CASE UNCHANGED content
    BY <2>2
  <2>3. ASSUME NEW a \in Node, NEW e \in Cid, NEW w \in Wallet, Call(a, e, w)
        PROVE  UNCHANGED content
    BY <2>3 DEF Call, Register, CreateEditions, Give, Sell, TransferEdition
  <2>4. ASSUME NEW e \in Cid, NEW from \in Wallet, NEW to \in Wallet, ClientPost(e, from, to)
        PROVE  UNCHANGED content
    BY <2>4 DEF ClientPost, ClientRegister, ClientGive, ClientTransferEdition, Post
  <2>5. Split \/ Queue \/ Refuse \/ Mine \/ Expire \/ Crash => UNCHANGED content
    BY DEF Split, Queue, Refuse, Mine, Expire, Crash
  <2>6. ASSUME NEW tx \in signed, Repost(tx)
        PROVE  UNCHANGED content
    BY <2>6 DEF Repost
  <2> QED
    BY <1>1, <2>1, <2>2, <2>3, <2>4, <2>5, <2>6 DEF Next
<1>2. Inv /\ [Next]_vars =>
        [\A b \in Node, c \in Cid :
           Backend[b] = "sqlite" /\ content[b][c] # NoRecord =>
             /\ content'[b][c].creator = content[b][c].creator
             /\ content'[b][c].royalty = content[b][c].royalty]_vars
  BY <1>1
<1> QED
  BY <1>2, Invariance, PTL DEF Spec, CreatorFixed
-----------------------------------------------------------------------------
(* What a registry checked still holds                                     *)

\* What the registry of b checked for tx is true of its records, unless b has applied
\* a transaction about the content since.
UpToDate(tx) ==
    \A b \in Node : tx.by = b =>
        /\ tx.seen <= Seen(b, tx.cid)
        /\ tx.seen = Seen(b, tx.cid) => Checked(b, tx)

\* tx is queued, about to be queued, or stored.
Held(tx) ==
    \/ \E k \in 1..Len(pool) : pool[k] = tx
    \/ \E k \in 1..Len(rest) : rest[k] = tx
    \/ \E k \in 1..Len(log) : log[k] = tx

CheckedInv ==
    /\ \A tx \in Tx : Held(tx) => UpToDate(tx)
    /\ \A tx \in signed : tx.by = NoSale

\* Every step but Apply keeps what is up to date so.
LEMMA StaysUpToDate ==
    ASSUME TypeOK, UNCHANGED <<content, edition, applied>>,
           \A k \in 1..Len(log) : log'[k] = log[k],
           NEW tx \in Tx, UpToDate(tx)
    PROVE  UpToDate(tx)'
<1>1. ASSUME NEW b \in Node, NEW c \in Cid
      PROVE  Seen(b, c)' = Seen(b, c)
  <2>1. applied[b] \in 0..Len(log) /\ Len(log) \in Nat
    BY LenProperties DEF TypeOK
  <2>2. \A k \in 1..applied[b] : log'[k] = log[k]
    BY <2>1
  <2> QED
    BY <2>2 DEF Seen
<1>2. \A b \in Node : Checked(b, tx)' = Checked(b, tx)
  BY DEF Checked
<1>3. tx.cid \in Cid
  BY DEF Tx
<1> QED
  BY <1>1, <1>2, <1>3 DEF UpToDate

\* A step that applies nothing keeps CheckedInv when the transactions it adds are up
\* to date.
LEMMA StepChecked ==
    ASSUME Inv, CheckedInv, UNCHANGED <<content, edition, applied>>,
           \A k \in 1..Len(log) : log'[k] = log[k],
           \A tx \in Tx : Held(tx)' => Held(tx) \/ UpToDate(tx),
           \A tx \in signed' : tx.by = NoSale
    PROVE  CheckedInv'
<1>1. ASSUME NEW tx \in Tx, Held(tx)'
      PROVE  UpToDate(tx)'
  <2>1. UpToDate(tx)
    BY <1>1 DEF CheckedInv
  <2> QED
    BY <2>1, StaysUpToDate DEF Inv
<1> QED
  BY <1>1 DEF CheckedInv

\* A transaction made now has seen all that b has applied.
LEMMA MadeUpToDate ==
    ASSUME TypeOK, NEW b \in Node, NEW tx \in Tx, tx.by = b, tx.seen = Seen(b, tx.cid), Checked(b, tx)
    PROVE  UpToDate(tx)
<1>1. Seen(b, tx.cid) \in Nat
  BY SeenType DEF Tx
<1> QED
  BY <1>1 DEF UpToDate

\* Nothing is checked for the transactions of a sale.
LEMMA SaleUpToDate ==
    ASSUME TypeOK, NEW b \in Node, NEW c \in Cid, NEW e \in 0..Total,
           NEW seller \in Wallet, NEW buyer \in Wallet, NEW n \in 1..MaxTx,
           NEW k \in 1..Len(SaleTxs(b, c, e, seller, buyer, n)),
           NEW t \in Tx, t = SaleTxs(b, c, e, seller, buyer, n)[k]
    PROVE  UpToDate(t)
<1> DEFINE r == content[b][c]
           due == IF r = NoRecord THEN "none" ELSE r.royalty
           payment == [Bought(b, "payment", c, e, buyer, seller, n) EXCEPT !.royalty = due]
           royalty == Bought(b, "royalty", c, e, buyer, r.creator, n)
           s == SaleTxs(b, c, e, seller, buyer, n)
<1>1. due \in {"none", "part", "all"}
  <2>1. r \in Record \union {NoRecord}
    BY DEF TypeOK
  <2> QED
    BY <2>1, RegistryAssumption DEF Record
<1>2. s = CASE due = "none" -> <<payment>>
            [] due = "all"  -> <<royalty>>
            [] due = "part" -> <<royalty, payment>>
  BY DEF SaleTxs, Arranged
<1>3. /\ payment.kind = "payment" /\ payment.cid = c
      /\ payment.by = b /\ payment.seen = Seen(b, c)
      /\ royalty.kind = "royalty" /\ royalty.cid = c
      /\ royalty.by = b /\ royalty.seen = Seen(b, c)
  BY DEF Bought, Made
<1> HIDE DEF due, payment, royalty
<1>4. s[k] \in {payment, royalty}
  <2>1. k \in 1..Len(s)
    OBVIOUS
  <2> HIDE DEF s
  <2>2. s = <<payment>> \/ s = <<royalty>> \/ s = <<royalty, payment>>
    BY <1>1, <1>2
  <2>3. CASE s = <<royalty, payment>>
    <3>1. k \in 1..2
      BY <2>1, <2>3
    <3> QED
      BY <2>3, <3>1
  <2>4. CASE s = <<payment>> \/ s = <<royalty>>
    <3>1. Len(s) = 1 /\ s[1] \in {payment, royalty}
      BY <2>4
    <3>2. k = 1
      BY <2>1, <3>1
    <3> QED
      BY <3>1, <3>2
  <2> QED
    BY <2>2, <2>3, <2>4
<1>5. Checked(b, t)
  BY <1>3, <1>4 DEF Checked
<1> QED
  BY <1>3, <1>4, <1>5, MadeUpToDate

\* The registry has checked what it queues for a call.
LEMMA CallChecked ==
    ASSUME Inv, CheckedInv, NEW b \in Node, NEW c \in Cid, NEW w \in Wallet, Call(b, c, w)
    PROVE  CheckedInv'
<1>1. TypeOK
  BY DEF Inv
<1>2. /\ made < MaxTx /\ rest = <<>>
      /\ UNCHANGED <<content, edition, log, applied, signed>>
  BY DEF Call, Register, CreateEditions, Give, Sell, TransferEdition, Idle
<1>3. made + 1 \in 1..MaxTx
  BY <1>1, <1>2, RegistryAssumption DEF TypeOK
<1>4. pool \in Seq(Tx) /\ Len(pool) \in Nat
  BY <1>1, LenProperties DEF TypeOK
<1>5. SUFFICES ASSUME NEW t \in Tx, Held(t)', ~Held(t)
               PROVE  UpToDate(t)
  BY <1>2, StepChecked DEF CheckedInv
<1>6. ASSUME NEW e \in Tx, pool' = Append(pool, e), rest' = rest
      PROVE  t = e
  <2>1. /\ Len(pool') = Len(pool) + 1 /\ pool'[Len(pool) + 1] = e
        /\ \A i \in 1..Len(pool) : pool'[i] = pool[i]
    BY <1>4, <1>6, AppendProperties
  <2> QED
    BY <1>2, <1>4, <1>5, <1>6, <2>1 DEF Held
<1>7. ASSUME NEW royalty \in Royalty, Register(b, c, w, royalty)
      PROVE  UpToDate(t)
  <2> DEFINE e == [Made(b, "register", c, w, w, made + 1) EXCEPT !.royalty = royalty]
  <2>1. e \in Tx
    BY <1>1, <1>3, MadeType
  <2>2. pool' = Append(pool, e) /\ rest' = rest /\ content[b][c] = NoRecord
    BY <1>7 DEF Register
  <2>3. e.kind = "register" /\ e.cid = c /\ e.by = b /\ e.seen = Seen(b, c)
    BY DEF Made
  <2> HIDE DEF e
  <2>4. t = e
    BY <1>6, <2>1, <2>2
  <2>5. Checked(b, e)
    BY <2>2, <2>3 DEF Checked
  <2> QED
    BY <1>1, <2>3, <2>4, <2>5, MadeUpToDate
<1>8. ASSUME NEW v \in Wallet, Give(b, c, w, v)
      PROVE  UpToDate(t)
  <2> DEFINE e == Made(b, "gift", c, w, v, made + 1)
  <2>1. e \in Tx
    BY <1>1, <1>3, MadeType
  <2>2. pool' = Append(pool, e) /\ rest' = rest /\ Owns(b, c, w)
    BY <1>8 DEF Give
  <2>3. e.kind = "gift" /\ e.cid = c /\ e.by = b /\ e.seen = Seen(b, c) /\ e.from = w
    BY DEF Made
  <2> HIDE DEF e
  <2>4. t = e
    BY <1>6, <2>1, <2>2
  <2>5. Checked(b, e)
    BY <2>2, <2>3 DEF Checked, Owns
  <2> QED
    BY <1>1, <2>3, <2>4, <2>5, MadeUpToDate
<1>9. ASSUME NEW v \in Wallet, NEW k \in Edition, NEW paid \in BOOLEAN,
             TransferEdition(b, c, k, w, v, paid)
      PROVE  UpToDate(t)
  <2> DEFINE e == [Made(b, "edition", c, w, v, made + 1) EXCEPT !.edition = k, !.paid = paid]
  <2>1. e \in Tx
    <3>1. Made(b, "edition", c, w, v, made + 1) \in Tx
      BY <1>1, <1>3, MadeType
    <3>2. k \in 0..Total
      BY RegistryAssumption DEF Edition
    <3> QED
      BY <3>1, <3>2 DEF Tx
  <2>2. pool' = Append(pool, e) /\ rest' = rest /\ OwnsEdition(b, c, k, w)
    BY <1>2, <1>9 DEF TransferEdition
  <2>3. /\ e.kind = "edition" /\ e.cid = c /\ e.by = b /\ e.seen = Seen(b, c)
        /\ e.from = w /\ e.edition = k
    BY DEF Made
  <2> HIDE DEF e
  <2>4. t = e
    BY <1>6, <2>1, <2>2
  <2>5. Checked(b, e)
    BY <2>2, <2>3 DEF Checked, OwnsEdition, Owns
  <2> QED
    BY <1>1, <2>3, <2>4, <2>5, MadeUpToDate
<1>10. ASSUME NEW v \in Wallet, Sell(b, c, w, v)
       PROVE  UpToDate(t)
  <2>1. rest' = SaleTxs(b, c, 0, w, v, made + 1) /\ pool' = pool
    BY <1>10 DEF Sell
  <2>2. PICK k \in 1..Len(rest') : rest'[k] = t
    BY <1>2, <1>5, <2>1 DEF Held
  <2>3. 0 \in 0..Total
    BY RegistryAssumption
  <2> QED
    BY <1>1, <1>3, <2>1, <2>2, <2>3, SaleUpToDate
<1>11. CASE CreateEditions(b, c, w)
  <2> DEFINE e(k) == [Made(b, "edition", c, w, w, made + 1) EXCEPT !.edition = k]
  <2>1. rest' = [k \in 1..Total |-> e(k)] /\ pool' = pool /\ Owns(b, c, w)
    BY <1>11 DEF CreateEditions, Edition
  <2>2. Total \in Nat /\ Len(rest') = Total
    BY <2>1, RegistryAssumption
  <2>3. PICK k \in 1..Total : t = e(k)
    BY <1>2, <1>5, <2>1, <2>2 DEF Held
  <2>4. t.kind = "edition" /\ t.cid = c /\ t.by = b /\ t.seen = Seen(b, c) /\ t.from = w
    BY <2>3 DEF Made
  <2>5. Checked(b, t)
    BY <2>1, <2>4 DEF Checked, Owns
  <2> QED
    BY <1>1, <2>4, <2>5, MadeUpToDate
<1> QED
  BY <1>7, <1>8, <1>9, <1>10, <1>11 DEF Call

\* No other step but Apply makes a transaction that a registry has checked.
LEMMA OthersChecked ==
    ASSUME Inv, CheckedInv,
           \/ Split \/ Queue \/ Refuse \/ Mine \/ Expire \/ Crash
           \/ \E c \in Cid, from, to \in Wallet : ClientPost(c, from, to)
           \/ \E tx \in signed : Repost(tx)
           \/ UNCHANGED vars
    PROVE  CheckedInv'
<1>1. TypeOK
  BY DEF Inv
<1>2. /\ pool \in Seq(Tx) /\ rest \in Seq(Tx) /\ log \in Seq(Tx)
      /\ Len(pool) \in Nat /\ Len(rest) \in Nat /\ Len(log) \in Nat
  BY <1>1, LenProperties DEF TypeOK
<1>3. ASSUME NEW s \in Seq(Tx), s # <<>>
      PROVE  /\ Head(s) = s[1] /\ Len(s) \in Nat \ {0} /\ Len(Tail(s)) = Len(s) - 1
             /\ \A k \in 1..Len(Tail(s)) : k + 1 \in 1..Len(s) /\ Tail(s)[k] = s[k + 1]
  BY <1>3, HeadTailProperties, EmptySeq
<1>4. ASSUME NEW s \in Seq(Tx), NEW e \in Tx
      PROVE  /\ Len(Append(s, e)) = Len(s) + 1 /\ Append(s, e)[Len(s) + 1] = e
             /\ \A i \in 1..Len(s) : Append(s, e)[i] = s[i]
  BY AppendProperties
<1>5. CASE Split
  <2>1. sale \in Sale /\ UNCHANGED <<pool, content, edition, log, applied, signed>>
    BY <1>1, <1>5 DEF Split, TypeOK
  <2>2. /\ sale.by \in Node /\ sale.cid \in Cid /\ sale.edition \in 0..Total
        /\ sale.seller \in Wallet /\ sale.buyer \in Wallet /\ sale.call \in 1..MaxTx
    BY <2>1, RegistryAssumption DEF Sale, Edition
  <2>3. rest' = SaleTxs(sale.by, sale.cid, sale.edition, sale.seller, sale.buyer, sale.call)
    BY <1>5 DEF Split
  <2>4. ASSUME NEW tx \in Tx, Held(tx)'
        PROVE  Held(tx) \/ UpToDate(tx)
    <3>1. CASE \E k \in 1..Len(rest') : rest'[k] = tx
      BY <1>1, <2>2, <2>3, <3>1, SaleUpToDate
    <3>2. CASE ~\E k \in 1..Len(rest') : rest'[k] = tx
      BY <2>1, <2>4, <3>2 DEF Held
    <3> QED
      BY <3>1, <3>2
  <2> QED
    BY <2>1, <2>4, StepChecked DEF CheckedInv
<1>6. CASE Queue
  <2>1. /\ rest # <<>> /\ pool' = Append(pool, Head(rest)) /\ rest' = Tail(rest)
        /\ UNCHANGED <<content, edition, log, applied, signed>>
    BY <1>6 DEF Queue
  <2>2. /\ Head(rest) \in Tx /\ Head(rest) = rest[1] /\ 1 \in 1..Len(rest)
        /\ \A k \in 1..Len(rest') : k + 1 \in 1..Len(rest) /\ rest'[k] = rest[k + 1]
    BY <1>2, <1>3, <2>1, HeadTailProperties
  <2>3. /\ Len(pool') = Len(pool) + 1 /\ pool'[Len(pool) + 1] = rest[1]
        /\ \A i \in 1..Len(pool) : pool'[i] = pool[i]
    BY <1>2, <1>4, <2>1, <2>2
  <2>4. ASSUME NEW k \in 1..Len(pool')
        PROVE  k \in 1..Len(pool) \/ pool'[k] = rest[1]
    BY <1>2, <2>3
  <2>5. \A tx \in Tx : Held(tx)' => Held(tx)
    BY <2>1, <2>2, <2>3, <2>4 DEF Held
  <2> QED
    BY <2>1, <2>5, StepChecked DEF CheckedInv
<1>7. CASE Refuse \/ Crash
  <2>1. UNCHANGED <<content, edition, log, applied, signed>>
    BY <1>7 DEF Refuse, Crash
  <2>2. Len(<<>>) = 0
    OBVIOUS
  <2>3. pool' = pool \/ pool' = <<>>
    BY <1>7 DEF Refuse, Crash
  <2>4. rest' = <<>> \/ (rest # <<>> /\ rest' = Tail(rest))
    BY <1>7 DEF Refuse, Crash
  <2>5. \A k \in 1..Len(rest') : \E m \in 1..Len(rest) : rest'[k] = rest[m]
    <3>1. CASE rest' = <<>>
      BY <2>2, <3>1
    <3>2. CASE rest # <<>> /\ rest' = Tail(rest)
      <4>1. \A k \in 1..Len(rest') : k + 1 \in 1..Len(rest) /\ rest'[k] = rest[k + 1]
        BY <1>2, <1>3, <3>2
      <4> QED
        BY <4>1
    <3> QED
      BY <2>4, <3>1, <3>2
  <2>6. \A tx \in Tx : Held(tx)' => Held(tx)
    BY <2>1, <2>2, <2>3, <2>5 DEF Held
  <2> QED
    BY <2>1, <2>6, StepChecked DEF CheckedInv
<1>8. CASE Mine \/ Expire
  <2>1. /\ pool # <<>> /\ pool' = Tail(pool)
        /\ log' = Append(log, Head(pool)) \/ log' = log
        /\ UNCHANGED <<content, edition, rest, applied, signed>>
    BY <1>8 DEF Mine, Expire
  <2>2. /\ Head(pool) \in Tx /\ Head(pool) = pool[1] /\ 1 \in 1..Len(pool)
        /\ \A k \in 1..Len(pool') : k + 1 \in 1..Len(pool) /\ pool'[k] = pool[k + 1]
    BY <1>2, <1>3, <2>1, HeadTailProperties
  <2>3. \A k \in 1..Len(log) : log'[k] = log[k]
    BY <1>2, <1>4, <2>1, <2>2
  <2>4. ASSUME NEW k \in 1..Len(log')
        PROVE  k \in 1..Len(log) \/ log'[k] = pool[1]
    BY <1>2, <1>4, <2>1, <2>2
  <2>5. \A tx \in Tx : Held(tx)' => Held(tx)
    BY <2>1, <2>2, <2>3, <2>4 DEF Held
  <2> QED
    BY <2>1, <2>3, <2>5, StepChecked DEF CheckedInv
<1>9. ASSUME NEW tx \in Tx, tx.by = NoSale, NEW k \in 1..Len(pool) + 1,
             pool' = InsertAt(pool, k, tx), signed' \subseteq signed \union {tx},
             UNCHANGED <<content, edition, rest, log, applied>>
      PROVE  CheckedInv'
  <2>1. UpToDate(tx)
    BY <1>9, RegistryAssumption DEF UpToDate
  <2>2. /\ Len(pool') = Len(pool) + 1
        /\ \A i \in 1..Len(pool) + 1 :
             pool'[i] = IF i < k THEN pool[i] ELSE IF i = k THEN tx ELSE pool[i - 1]
    BY <1>2, <1>9, InsertAtPlaces
  <2>3. ASSUME NEW i \in 1..Len(pool')
        PROVE  pool'[i] = tx \/ \E m \in 1..Len(pool) : pool'[i] = pool[m]
    <3>1. i < k => i \in 1..Len(pool)
      BY <1>2, <2>2
    <3>2. i > k => i - 1 \in 1..Len(pool)
      BY <1>2, <2>2
    <3> QED
      BY <1>2, <2>2, <3>1, <3>2
  <2>4. \A t \in Tx : Held(t)' => Held(t) \/ UpToDate(t)
    BY <1>9, <2>1, <2>3 DEF Held
  <2>5. \A t \in signed' : t.by = NoSale
    BY <1>9 DEF CheckedInv
  <2> QED
    BY <1>9, <2>4, <2>5, StepChecked
<1>10. ASSUME NEW c \in Cid, NEW from \in Wallet, NEW to \in Wallet, ClientPost(c, from, to)
       PROVE  CheckedInv'
  <2>1. PICK kind \in {"register", "gift", "edition"}, royalty \in Royalty,
             e \in 0..Total, paid \in BOOLEAN :
          Post(Posted(kind, c, from, to, royalty, e, paid))
    <3>1. "none" \in Royalty /\ 0 \in 0..Total /\ Edition \subseteq 0..Total
      BY RegistryAssumption DEF Edition
    <3> QED
      BY <1>10, <3>1 DEF ClientPost, ClientRegister, ClientGive, ClientTransferEdition
  <2> DEFINE tx == Posted(kind, c, from, to, royalty, e, paid)
  <2>2. made + 1 \in 1..MaxTx
    BY <1>1, <2>1, RegistryAssumption DEF Post, TypeOK
  <2>3. tx \in Tx /\ tx.by = NoSale
    <3>1. tx \in Tx
      BY <2>2 DEF Posted, Tx
    <3> QED
      BY <3>1 DEF Posted
  <2> HIDE DEF tx
  <2>4. /\ \E k \in 1..Len(pool) + 1 : pool' = InsertAt(pool, k, tx)
        /\ signed' = signed \union {tx}
        /\ UNCHANGED <<content, edition, rest, log, applied>>
    BY <2>1 DEF Post, tx
  <2> QED
    BY <1>9, <2>3, <2>4
<1>11. ASSUME NEW tx \in signed, Repost(tx)
       PROVE  CheckedInv'
  <2>1. tx \in Tx /\ tx.by = NoSale
    BY <1>1 DEF TypeOK, CheckedInv
  <2>2. /\ \E k \in 1..Len(pool) + 1 : pool' = InsertAt(pool, k, tx)
        /\ UNCHANGED <<content, edition, rest, log, applied, signed>>
    BY <1>11 DEF Repost
  <2> QED
    BY <1>9, <2>1, <2>2
<1>12. CASE UNCHANGED vars
  BY <1>12, StepChecked DEF vars, Held, CheckedInv
<1> QED
  BY <1>5, <1>6, <1>7, <1>8, <1>10, <1>11, <1>12

\* What b applies is about one content: the transactions about it that b has checked
\* before are no longer up to date, those about another still are.
LEMMA ApplyChecked ==
    ASSUME Inv, CheckedInv, NEW b \in Node, Apply(b)
    PROVE  CheckedInv'
<1>1. /\ applied[b] < Len(log) /\ applied' = [applied EXCEPT ![b] = @ + 1]
      /\ UNCHANGED <<pool, rest, log, signed>>
  BY DEF Apply
<1>2. PICK n \in Nat, c \in Cid :
         /\ n = applied[b] /\ n + 1 \in 1..Len(log) /\ c = log[n + 1].cid
         /\ applied \in [Node -> 0..Len(log)] /\ Len(log) \in Nat
  <2>1. /\ log \in Seq(Tx) /\ Len(log) \in Nat /\ applied[b] \in 0..Len(log)
        /\ applied \in [Node -> 0..Len(log)]
    BY LenProperties DEF Inv, TypeOK
  <2>2. applied[b] + 1 \in 1..Len(log)
    BY <1>1, <2>1
  <2>3. log[applied[b] + 1].cid \in Cid /\ applied[b] \in Nat
    <3>1. log[applied[b] + 1] \in Tx
      BY <2>1, <2>2, ElementOfSeq
    <3> QED
      BY <2>1, <3>1 DEF Tx
  <2> QED
    BY <2>1, <2>2, <2>3
<1>3. ASSUME NEW a \in Node, NEW d \in Cid, a # b \/ d # c
      PROVE  /\ content'[a][d] = content[a][d] /\ edition'[a][d] = edition[a][d]
             /\ Seen(a, d)' = Seen(a, d)
  <2>1. /\ content \in [Node -> [Cid -> Record \union {NoRecord}]]
        /\ edition \in [Node -> [Cid -> [Edition -> Wallet \union {Nobody}]]]
    BY DEF Inv, TypeOK
  <2>2. content'[a][d] = content[a][d] /\ edition'[a][d] = edition[a][d]
    BY <1>2, <1>3, <2>1 DEF Apply
  <2>3. CASE a # b
    BY <1>1, <1>2, <2>2, <2>3 DEF Seen
  <2>4. CASE a = b /\ d # c
    <3>1. applied'[a] = n + 1
      BY <1>1, <1>2, <2>4
    <3>2. {k \in 1..n + 1 : log[k].cid = d} = {k \in 1..n : log[k].cid = d}
      <4>1. 1..n + 1 = (1..n) \union {n + 1}
        BY <1>2
      <4> QED
        BY <1>2, <2>4, <4>1
    <3> QED
      BY <1>1, <1>2, <2>2, <2>4, <3>1, <3>2 DEF Seen
  <2> QED
    BY <1>3, <2>3, <2>4
<1>4. Seen(b, c)' = Seen(b, c) + 1 /\ Seen(b, c) \in Nat
  <2> DEFINE old == {k \in 1..n : log[k].cid = c}
  <2>1. IsFiniteSet(old)
    <3>1. IsFiniteSet(1..n)
      BY <1>2, FS_Interval
    <3> QED
      BY <3>1, FS_Subset
  <2>2. {k \in 1..n + 1 : log[k].cid = c} = old \union {n + 1} /\ n + 1 \notin old
    <3>1. 1..n + 1 = (1..n) \union {n + 1} /\ n + 1 \notin 1..n
      BY <1>2
    <3> QED
      BY <1>2, <3>1
  <2>3. Cardinality(old \union {n + 1}) = Cardinality(old) + 1 /\ Cardinality(old) \in Nat
    <3> HIDE DEF old
    <3> QED
      BY <2>1, <2>2, FS_AddElement, FS_CardinalityType
  <2>4. applied'[b] = n + 1
    BY <1>1, <1>2
  <2> QED
    BY <1>1, <1>2, <2>2, <2>3, <2>4 DEF Seen
<1>5. ASSUME NEW tx \in Tx, UpToDate(tx)
      PROVE  UpToDate(tx)'
  <2> SUFFICES ASSUME NEW a \in Node, tx.by = a
               PROVE  /\ tx.seen <= Seen(a, tx.cid)'
                      /\ tx.seen = Seen(a, tx.cid)' => Checked(a, tx)'
    BY DEF UpToDate
  <2>1. tx.cid \in Cid /\ tx.seen \in Nat /\ tx.seen <= Seen(a, tx.cid)
    BY <1>5 DEF UpToDate, Tx
  <2>2. CASE a = b /\ tx.cid = c
    BY <1>4, <2>1, <2>2
  <2>3. CASE a # b \/ tx.cid # c
    <3>1. Checked(a, tx)' = Checked(a, tx)
      BY <1>3, <2>1, <2>3 DEF Checked
    <3> QED
      BY <1>3, <1>5, <2>1, <2>3, <3>1 DEF UpToDate
  <2> QED
    BY <2>2, <2>3
<1>6. \A tx \in Tx : Held(tx)' => Held(tx)
  BY <1>1 DEF Held
<1> QED
  BY <1>1, <1>5, <1>6 DEF CheckedInv

\* A registration, gift or edition transfer that a registry queued still meets its
\* check when the same node applies it, unless the node has applied another
\* transaction about the content in between (verify_ownership, _apply_content_registry).
THEOREM CheckStaysTrue == Spec => CheckedHolds
<1> DEFINE Still == \A b \in Node : applied'[b] > applied[b] =>
                      LET tx == log[applied[b] + 1] IN
                        tx.by = b /\ tx.seen = Seen(b, tx.cid) => Checked(b, tx)
<1>1. Init => CheckedInv
  <2>1. Init => Len(pool) = 0 /\ Len(rest) = 0 /\ Len(log) = 0 /\ signed = {}
    BY DEF Init
  <2> QED
    BY <2>1 DEF CheckedInv, Held
<1>2. Inv /\ CheckedInv /\ [Next]_vars => CheckedInv'
  BY CallChecked, OthersChecked, ApplyChecked DEF Next
<1>3. Inv /\ CheckedInv /\ [Next]_vars => [Still]_vars
  <2> SUFFICES ASSUME Inv, CheckedInv, Next, NEW b \in Node, applied'[b] > applied[b],
                      log[applied[b] + 1].by = b,
                      log[applied[b] + 1].seen = Seen(b, log[applied[b] + 1].cid)
               PROVE  Checked(b, log[applied[b] + 1])
    BY DEF vars
  <2>1. /\ log \in Seq(Tx) /\ Len(log) \in Nat
        /\ applied \in [Node -> 0..Len(log)]
    BY LenProperties DEF Inv, TypeOK
  <2>2. applied' # applied
    BY <2>1
  <2>3. PICK a \in Node : Apply(a)
    <3>1. ASSUME NEW a \in Node, NEW c \in Cid, NEW w \in Wallet, Call(a, c, w)
          PROVE  UNCHANGED applied
      BY <3>1 DEF Call, Register, CreateEditions, Give, Sell, TransferEdition
    <3>2. ASSUME NEW c \in Cid, NEW from \in Wallet, NEW to \in Wallet, ClientPost(c, from, to)
          PROVE  UNCHANGED applied
      BY <3>2 DEF ClientPost, ClientRegister, ClientGive, ClientTransferEdition, Post
    <3>3. ASSUME NEW tx \in signed, Repost(tx)
          PROVE  UNCHANGED applied
      BY <3>3 DEF Repost
    <3>4. Split \/ Queue \/ Refuse \/ Mine \/ Expire \/ Crash => UNCHANGED applied
      BY DEF Split, Queue, Refuse, Mine, Expire, Crash
    <3> QED
      BY <2>2, <3>1, <3>2, <3>3, <3>4 DEF Next
  <2>4. a = b /\ applied[b] < Len(log)
    BY <2>1, <2>3 DEF Apply
  <2>5. applied[b] + 1 \in 1..Len(log) /\ log[applied[b] + 1] \in Tx
    <3>1. applied[b] + 1 \in 1..Len(log)
      BY <2>1, <2>4
    <3> QED
      BY <2>1, <3>1, ElementOfSeq
  <2>6. UpToDate(log[applied[b] + 1])
    BY <2>5 DEF CheckedInv, Held
  <2> QED
    BY <2>6 DEF UpToDate
<1>4. CheckedHolds <=> [][Still]_vars
  BY DEF CheckedHolds
<1> QED
  BY <1>1, <1>2, <1>3, <1>4, Invariance, PTL DEF Spec
================================================================================
