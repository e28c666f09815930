------------------------------ MODULE Registry ------------------------------
(***************************************************************************)
(* Ownership of contents and editions: the registries that check a request *)
(* and queue its transactions, the client SDK that posts them unchecked,   *)
(* the royalty split, and what each storage backend keeps when the stored  *)
(* transactions are applied to it.                                         *)
(*                                                                         *)
(* The chain is a log of transactions; every node applies it at its own    *)
(* pace and checks requests against its own records.  Balances are not     *)
(* kept: a transaction with an amount may be refused for want of funds.    *)
(* Signatures are taken as accepted.                                       *)
(***************************************************************************)
EXTENDS Integers, FiniteSets, SequencesExt

CONSTANTS
    Node,       \* nodes
    Backend,    \* Backend[b]: "sqlite", "supabase" or "ram"
    Wallet, Cid,
    Royalty,    \* royalty_pct: no royalty, a part of the price, all of it
    Total,      \* editions that create_editions makes
    Nobody,     \* no wallet
    NoRecord, NoSale,
    MaxTx,      \* bound: calls and posts
    MaxPosts,   \* bound: first posts among them
    MaxLog      \* bound: transactions stored

Record == [creator: Wallet, owner: Wallet \union {Nobody}, royalty: Royalty]

ASSUME RegistryAssumption ==
    /\ Backend \in [Node -> {"sqlite", "supabase", "ram"}]
    /\ Nobody \notin Wallet /\ NoRecord \notin Record /\ NoSale \notin Node
    /\ "none" \in Royalty /\ Royalty \subseteq {"none", "part", "all"}
    /\ {Total, MaxTx, MaxPosts, MaxLog} \subseteq Nat

VARIABLES
    content,  \* content[b][c]: the content record of c at b, or NoRecord
    edition,  \* edition[b][c][e]: the recorded holder of edition e, or Nobody
    pool,     \* pending transactions, in the order of their time stamps
    rest,     \* transactions a registry call has made and not yet queued
    sale,     \* an edition sale whose split is still to be computed, or NoSale
    log,      \* stored transactions
    applied,  \* applied[b]: how many of them b has applied
    signed,   \* transactions the client SDK has posted
    made,     \* calls and posts so far
    posts,    \* first posts among them
    books,    \* history: books[k + 1] are the owners after k stored transactions
    expired   \* history: the calls of which the royalty expired

vars == <<content, edition, pool, rest, sale, log, applied, signed, made, posts, books, expired>>

Edition == 1..Total

\* edition is the edition moved or, in a royalty or payment, sold.  call numbers
\* the call or post that made the transaction, by is the node that checked it, or
\* NoSale, and seen how many changes of cid that node had recorded.
Tx == [kind: {"register", "gift", "royalty", "payment", "edition"},
       cid: Cid, from: Wallet, to: Wallet, royalty: Royalty, edition: 0..Total,
       paid: BOOLEAN, call: 1..MaxTx, by: Node \union {NoSale}, seen: Nat]

Sale == [cid: Cid, edition: Edition, seller: Wallet, buyer: Wallet, by: Node, call: 1..MaxTx]

TypeOK ==
    /\ content \in [Node -> [Cid -> Record \union {NoRecord}]]
    /\ \A b \in Node : \A c \in Cid :
         content[b][c] # NoRecord /\ content[b][c].owner = Nobody => Backend[b] = "ram"
    /\ edition \in [Node -> [Cid -> [Edition -> Wallet \union {Nobody}]]]
    /\ pool \in Seq(Tx)
    /\ rest \in Seq(Tx)
    /\ sale \in Sale \union {NoSale}
    /\ log \in Seq(Tx)
    /\ applied \in [Node -> 0..Len(log)]
    /\ signed \subseteq Tx
    /\ made \in 0..MaxTx
    /\ posts \in 0..MaxPosts
    /\ books \in Seq([Cid -> Wallet \union {Nobody}])
    /\ expired \subseteq 1..MaxTx

-----------------------------------------------------------------------------
(* Records                                                                 *)

\* Mutation of OwnerOf: no default.
OwnerOfNoDefault(r) == r.owner

\* current_owner defaults to the first owner, who is the creator.
OwnerOf(r) == IF r.owner = Nobody THEN r.creator ELSE r.owner

\* save_content_record of Supabase replaces the row.
SavedOnSupabase(new) == [new EXCEPT !.owner = OwnerOf(new)]

\* Mutation of SavedOnSqlite: the whole row is updated.
SavedWhole(old, new) == [new EXCEPT !.owner = OwnerOf(new)]

\* Mutation of SavedOnSqlite: an existing row is left alone.
SavedOnce(old, new) == IF old = NoRecord THEN [new EXCEPT !.owner = OwnerOf(new)] ELSE old

\* save_content_record of SQLite keeps all but the owner of an existing row.
SavedOnSqlite(old, new) ==
    IF old = NoRecord THEN [new EXCEPT !.owner = OwnerOf(new)]
                      ELSE [old EXCEPT !.owner = OwnerOf(new)]

\* The third backend keeps what it is given.
Saved(backend, old, new) ==
    CASE backend = "ram"      -> new
      [] backend = "supabase" -> SavedOnSupabase(new)
      [] backend = "sqlite"   -> SavedOnSqlite(old, new)

MovesContent(tx) == tx.kind \in {"gift", "royalty", "payment"}

\* _apply_content_registry for a transaction tx, and r its content's record.
Recorded(backend, r, tx) ==
    IF tx.kind = "register"
      THEN Saved(backend, r, [creator |-> tx.from, owner |-> Nobody, royalty |-> tx.royalty])
    ELSE IF MovesContent(tx) /\ r # NoRecord
      THEN Saved(backend, r, [r EXCEPT !.owner = tx.to])
    ELSE r

\* Mutation of Owns: the creator is looked at.
OwnsAsCreator(b, c, w) == content[b][c] # NoRecord /\ content[b][c].creator = w

\* verify_ownership.
Owns(b, c, w) == content[b][c] # NoRecord /\ content[b][c].owner = w

\* verify_edition_owner: without a record, edition 1 goes with the content.
OwnsEdition(b, c, e, w) ==
    IF edition[b][c][e] # Nobody THEN edition[b][c][e] = w ELSE e = 1 /\ Owns(b, c, w)

\* The stored transactions about c that b has applied.
Seen(b, c) == Cardinality({k \in 1..applied[b] : log[k].cid = c})

-----------------------------------------------------------------------------
(* The registries of node b                                                *)

Idle == rest = <<>> /\ sale = NoSale /\ made < MaxTx

\* A transaction that b makes for call n.
Made(b, kind, c, from, to, n) ==
    [kind |-> kind, cid |-> c, from |-> from, to |-> to, royalty |-> "none",
     edition |-> 0, paid |-> FALSE, call |-> n, by |-> b, seen |-> Seen(b, c)]

Bought(b, kind, c, e, buyer, to, n) ==
    [Made(b, kind, c, buyer, to, n) EXCEPT !.edition = e, !.paid = TRUE]

\* Mutation of Arranged: the seller is paid first.
ArrangedPaymentFirst(royalty, payment) == <<payment, royalty>>

Arranged(royalty, payment) == <<royalty, payment>>

\* create_royalty_transactions: the royalty to the creator and what is left to
\* the seller, both as transfers of the content.
SaleTxs(b, c, e, seller, buyer, n) ==
    LET r == content[b][c]
        due == IF r = NoRecord THEN "none" ELSE r.royalty
        payment == [Bought(b, "payment", c, e, buyer, seller, n) EXCEPT !.royalty = due] IN
      CASE due = "none" -> <<payment>>
        [] due = "all"  -> <<Bought(b, "royalty", c, e, buyer, r.creator, n)>>
        [] due = "part" -> Arranged(Bought(b, "royalty", c, e, buyer, r.creator, n), payment)

\* register: a cid without a record at b.
Register(b, c, w, royalty) ==
    /\ Idle
    /\ content[b][c] = NoRecord
    /\ made' = made + 1
    /\ pool' = Append(pool, [Made(b, "register", c, w, w, made') EXCEPT !.royalty = royalty])
    /\ UNCHANGED <<content, edition, rest, sale, log, applied, signed, posts, books, expired>>

\* transfer_ownership without a price.
Give(b, c, from, to) ==
    /\ Idle
    /\ Owns(b, c, from)
    /\ made' = made + 1
    /\ pool' = Append(pool, Made(b, "gift", c, from, to, made'))
    /\ UNCHANGED <<content, edition, rest, sale, log, applied, signed, posts, books, expired>>

\* transfer_ownership with a price: the transactions are queued one by one.
Sell(b, c, seller, buyer) ==
    /\ Idle
    /\ Owns(b, c, seller)
    /\ rest' = SaleTxs(b, c, 0, seller, buyer, made + 1)
    /\ made' = made + 1
    /\ UNCHANGED <<content, edition, pool, sale, log, applied, signed, posts, books, expired>>

\* create_editions.
CreateEditions(b, c, w) ==
    /\ Idle
    /\ Owns(b, c, w)
    /\ rest' = [e \in Edition |-> [Made(b, "edition", c, w, w, made + 1) EXCEPT !.edition = e]]
    /\ made' = made + 1
    /\ UNCHANGED <<content, edition, pool, sale, log, applied, signed, posts, books, expired>>

\* transfer_edition up to the royalties.  The price goes from the holder to the
\* new one.
TransferEdition(b, c, e, from, to, paid) ==
    /\ Idle
    /\ OwnsEdition(b, c, e, from)
    /\ made' = made + 1
    /\ pool' = Append(pool, [Made(b, "edition", c, from, to, made')
                               EXCEPT !.edition = e, !.paid = paid])
    /\ sale' = IF paid
                 THEN [cid |-> c, edition |-> e, seller |-> from, buyer |-> to, by |-> b, call |-> made']
                 ELSE NoSale
    /\ UNCHANGED <<content, edition, rest, log, applied, signed, posts, books, expired>>

\* The rest of transfer_edition: the split, from the record as it is now.
Split ==
    /\ sale # NoSale
    /\ rest' = SaleTxs(sale.by, sale.cid, sale.edition, sale.seller, sale.buyer, sale.call)
    /\ sale' = NoSale
    /\ UNCHANGED <<content, edition, pool, log, applied, signed, made, posts, books, expired>>

\* The call queues its next transaction.
Queue ==
    /\ rest # <<>>
    /\ pool' = Append(pool, Head(rest))
    /\ rest' = Tail(rest)
    /\ UNCHANGED <<content, edition, sale, log, applied, signed, made, posts, books, expired>>

\* The balance check refuses it.  A content sale then ends; an edition sale goes
\* on with its next transaction.
Refuse ==
    /\ rest # <<>>
    /\ Head(rest).paid
    /\ rest' = IF Head(rest).edition = 0 THEN <<>> ELSE Tail(rest)
    /\ UNCHANGED <<content, edition, pool, sale, log, applied, signed, made, posts, books, expired>>

-----------------------------------------------------------------------------
(* The client SDK                                                          *)

\* A transaction a client makes, with no check of records.
Posted(kind, c, from, to, royalty, e, paid) ==
    [kind |-> kind, cid |-> c, from |-> from, to |-> to, royalty |-> royalty,
     edition |-> e, paid |-> paid, call |-> made + 1, by |-> NoSale, seen |-> 0]

\* It comes from a client, stamped by it or by this node, or with an older stamp
\* from another node: it can end up anywhere among the pending ones.
Post(tx) ==
    /\ made < MaxTx
    /\ posts < MaxPosts
    /\ \E k \in 1..Len(pool) + 1 : pool' = InsertAt(pool, k, tx)
    /\ signed' = signed \union {tx}
    /\ made' = made + 1
    /\ posts' = posts + 1
    /\ UNCHANGED <<content, edition, rest, sale, log, applied, books, expired>>

\* register_content of the SDK.
ClientRegister(c, w) ==
    \E royalty \in Royalty : Post(Posted("register", c, w, w, royalty, 0, FALSE))

\* transfer_ownership of the SDK.  A sale is one transfer: the amount goes from the
\* holder to the new one.
ClientGive(c, from, to) ==
    \E paid \in BOOLEAN : Post(Posted("gift", c, from, to, "none", 0, paid))

\* transfer_edition of the SDK.
ClientTransferEdition(c, from, to) ==
    \E e \in Edition, paid \in BOOLEAN : Post(Posted("edition", c, from, to, "none", e, paid))

ClientPost(c, from, to) ==
    \/ from = to /\ ClientRegister(c, from)
    \/ ClientGive(c, from, to)
    \/ ClientTransferEdition(c, from, to)

\* The same transaction comes again, by a retry of a client that stamps its own or
\* a late forward.  Only one with an amount is found once it is stored.
Repost(tx) ==
    /\ made < MaxTx
    /\ tx \notin ToSet(pool)
    /\ ~(tx.paid /\ tx \in ToSet(log))
    /\ \E k \in 1..Len(pool) + 1 : pool' = InsertAt(pool, k, tx)
    /\ made' = made + 1
    /\ UNCHANGED <<content, edition, rest, sale, log, applied, signed, posts, books, expired>>

-----------------------------------------------------------------------------
(* Blocks                                                                  *)

\* The owner of a content after tx, by the chain alone.
OwnerAfter(owner, tx) ==
    IF tx.kind = "register" THEN tx.from
    ELSE IF MovesContent(tx) /\ owner # Nobody THEN tx.to
    ELSE owner

\* The oldest pending transaction is stored in a block.
Mine ==
    /\ pool # <<>>
    /\ Len(log) < MaxLog
    /\ log' = Append(log, Head(pool))
    /\ pool' = Tail(pool)
    /\ books' = Append(books, [books[Len(log) + 1] EXCEPT
                                 ![Head(pool).cid] = OwnerAfter(@, Head(pool))])
    /\ UNCHANGED <<content, edition, rest, sale, applied, signed, made, posts, expired>>

\* _apply_content_registry at b, one transaction: requests come in between.
Apply(b) ==
    /\ applied[b] < Len(log)
    /\ LET tx == log[applied[b] + 1] IN
         /\ content' = [content EXCEPT ![b][tx.cid] = Recorded(Backend[b], @, tx)]
         /\ edition' = IF tx.kind = "edition"
                          THEN [edition EXCEPT ![b][tx.cid][tx.edition] = tx.to]
                          ELSE edition
    /\ applied' = [applied EXCEPT ![b] = @ + 1]
    /\ UNCHANGED <<pool, rest, sale, log, signed, made, posts, books, expired>>

\* The oldest pending transaction is older than TX_MAX_AGE.
Expire ==
    /\ pool # <<>>
    /\ pool' = Tail(pool)
    /\ expired' = IF Head(pool).kind = "royalty" THEN expired \union {Head(pool).call}
                                                ELSE expired
    /\ UNCHANGED <<content, edition, rest, sale, log, applied, signed, made, posts, books>>

\* The node that serves the calls stops: its mempool and its calls are gone.
Crash ==
    /\ pool # <<>> \/ rest # <<>> \/ sale # NoSale
    /\ pool' = <<>>
    /\ rest' = <<>>
    /\ sale' = NoSale
    /\ UNCHANGED <<content, edition, log, applied, signed, made, posts, books, expired>>

Init ==
    /\ content = [b \in Node |-> [c \in Cid |-> NoRecord]]
    /\ edition = [b \in Node |-> [c \in Cid |-> [e \in Edition |-> Nobody]]]
    /\ pool = <<>>
    /\ rest = <<>>
    /\ sale = NoSale
    /\ log = <<>>
    /\ applied = [b \in Node |-> 0]
    /\ signed = {}
    /\ made = 0
    /\ posts = 0
    /\ books = <<[c \in Cid |-> Nobody]>>
    /\ expired = {}

Call(b, c, w) ==
    \/ \E royalty \in Royalty : Register(b, c, w, royalty)
    \/ CreateEditions(b, c, w)
    \/ \E v \in Wallet : Give(b, c, w, v) \/ Sell(b, c, w, v)
    \/ \E v \in Wallet, e \in Edition, paid \in BOOLEAN : TransferEdition(b, c, e, w, v, paid)

Next ==
    \/ \E b \in Node, c \in Cid, w \in Wallet : Call(b, c, w)
    \/ Split \/ Queue \/ Refuse
    \/ \E c \in Cid, from, to \in Wallet : ClientPost(c, from, to)
    \/ \E tx \in signed : Repost(tx)
    \/ Mine
    \/ \E b \in Node : Apply(b)
    \/ Expire
    \/ Crash

Spec == Init /\ [][Next]_vars

-----------------------------------------------------------------------------
(* Properties                                                              *)

\* "Creator cannot be changed after minting" (core/royalty_engine.py:166): on the
\* reference backend the creator, and so the receiver of royalties, and the
\* royalty stay those of the first registration, whatever is registered later.
CreatorFixed ==
    [][\A b \in Node, c \in Cid :
         Backend[b] = "sqlite" /\ content[b][c] # NoRecord =>
             /\ content'[b][c].creator = content[b][c].creator
             /\ content'[b][c].royalty = content[b][c].royalty]_vars

\* Whatever its backend and however late it is, a node that has applied k stored
\* transactions names the owners the chain gives after k, where it names one
\* (save_content_record of the three backends).
OwnersReplay ==
    \A b \in Node, c \in Cid :
        LET owner == books[applied[b] + 1][c] IN
          IF owner = Nobody THEN content[b][c] = NoRecord
          ELSE /\ content[b][c] # NoRecord
               /\ content[b][c].owner \in {owner, Nobody}

\* What the registry of b checked for tx.  An edition is transferred by its holder
\* and made by the owner of the content.
Checked(b, tx) ==
    LET r == content[b][tx.cid]
        owned == r # NoRecord /\ r.owner = tx.from IN
      CASE tx.kind = "register" -> r = NoRecord
        [] tx.kind = "gift"     -> owned
        [] tx.kind = "edition"  -> owned \/ edition[b][tx.cid][tx.edition] = tx.from
        [] tx.kind \in {"royalty", "payment"} -> TRUE

\* A registration, gift or edition transfer that a registry queued still meets its
\* check when the same node applies it, unless another transaction about the
\* content was applied in between.
CheckedHolds ==
    [][\A b \in Node : applied'[b] > applied[b] =>
         LET tx == log[applied[b] + 1] IN
           tx.by = b /\ tx.seen = Seen(b, tx.cid) => Checked(b, tx)]_vars

\* A seller is paid for a content only after the creator was paid the royalty, or
\* the royalty expired in the mempool (transfer_ownership with a price).
RoyaltyFirst ==
    \A k \in DOMAIN log :
        log[k].kind = "payment" /\ log[k].edition = 0 /\ log[k].royalty = "part" =>
            \/ log[k].call \in expired
            \/ \E m \in 1..k - 1 : log[m].kind = "royalty" /\ log[m].call = log[k].call
=============================================================================
