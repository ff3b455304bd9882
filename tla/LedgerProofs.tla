---------------------------- MODULE LedgerProofs ----------------------------
(***************************************************************************)
(* What the SDK's ledger (ledger.ts) guarantees of the settlements of any  *)
(* events, requests and histories.                                         *)
(*                                                                         *)
(* First the payout ledger (PayoutLedger). Its inductive invariant says    *)
(* that an event's rows are those of the one transaction it was recorded   *)
(* from, under keys that tell events apart, and that this transaction      *)
(* still reconciles with the request. The sums the properties are about    *)
(* are then compared slot by slot, of at most eight.                       *)
(*                                                                         *)
(* Then the search for the transaction that created a record, through a    *)
(* history that grows meanwhile (RecordHistory). What holds with any       *)
(* provider is proved apart from what takes the whole history.             *)
(***************************************************************************)
EXTENDS PayoutLedger, RecordHistory, ArithmeticProofs, SequenceTheorems, TLAPS

-----------------------------------------------------------------------------
(* The payout ledger: the invariant                                        *)

\* A settlement that the program executed, whoever built it.
Accepted(tx) ==
  /\ tx.event \in Events /\ tx.amount \in Nat /\ tx.bps \in Seq(Nat)
  /\ Len(tx.to) = Len(tx.bps)
  /\ SplitVerdict(tx.amount, tx.bps) = "ok"
  /\ RecipientsOk(tx)

\* Each event was settled once in a namespace.
LandedOk ==
  /\ \A tx \in landed : Accepted(tx)
  /\ \A t, u \in landed : t.namespace = u.namespace /\ t.event = u.event => t = u

RequestsOk ==
  /\ requests = [e \in Events |-> requests[e]]
  /\ \A e \in Events : requests[e] # NoRequest => requests[e] \in Requests[e] /\ Computable(requests[e])

\* What an event was recorded from is its settlement, and reconciles to this day.
PaidOk ==
  /\ settlements = [e \in Events |-> settlements[e]]
  /\ \A e \in Events : \A tx \in settlements[e] :
       /\ tx \in landed /\ requests[e] # NoRequest
       /\ \E s \in Scales : Reconciles(tx, e, requests[e], s)

\* A table has the rows with these keys.
Keeps(table, ids, rows) ==
  /\ ids = {rows[k].key : k \in DOMAIN rows}
  /\ \A id \in ids : \E k \in DOMAIN rows : rows[k].key = id /\ table[id] = rows[k]

EntriesOf(e) == {id \in DOMAIN entries : entries[id].event = e}
PoolsOf(e) == {key \in DOMAIN pools : key[1] = e}

\* The ids and keys tell the rows of one event from those of another.
EntryIdsOk ==
  \A id \in DOMAIN entries :
    entries[id].event \in Events /\ id[1] = <<Namespace, entries[id].event>>
PoolKeysOk ==
  \A key \in DOMAIN pools :
    key[1] \in Events /\ key = <<key[1], key[2]>> /\ pools[key].signature = <<Namespace, key[1]>>

\* The rows of an event are those of the settlement it was recorded from.
RowsOk ==
  \A e \in Events :
    /\ settlements[e] = {} => EntriesOf(e) = {} /\ PoolsOf(e) = {}
    /\ \A tx \in settlements[e] :
         /\ Keeps(entries, EntriesOf(e), DirectEntries(e, requests[e], tx))
         /\ Keeps(pools, PoolsOf(e), PoolPayouts(e, requests[e], tx))

\* What was accrued out of a pool, under ids of that pool.
SharesOf(key) == {id \in DOMAIN accrued : accrued[id].pool = key}
AccruedOk ==
  \A id \in DOMAIN accrued :
    /\ accrued[id].pool \in DOMAIN pools
    /\ id[1] = pools[accrued[id].pool].signature /\ id[2] = accrued[id].pool[2]

Inv == LandedOk /\ RequestsOk /\ PaidOk /\ EntryIdsOk /\ PoolKeysOk /\ RowsOk /\ AccruedOk

-----------------------------------------------------------------------------
(* What a settlement moved                                                 *)

\* The sums of the properties are those of ArithmeticProofs.
LEMMA SumOverIsSum ==
  ASSUME NEW f
  PROVE  SumOver(f) = SumOf(f)
  BY Zenon DEF SumOver, F!FoldFunction, F!FoldFunctionOnSet, F!MapThenFoldSet, SumOf, Sums, AddsUp, First

\* The sum over the keys of some slots of what is at the slots.
LEMMA SumOverKeys ==
  ASSUME NEW K \in SUBSET (1..8), NEW key, NEW D, D = {key[k] : k \in K},
         \A j, k \in K : key[j] = key[k] => j = k,
         NEW f \in [D -> Int], NEW a \in [1..8 -> Int],
         \A k \in 1..8 : a[k] = IF k \in K THEN f[key[k]] ELSE 0
  PROVE  SumOver(f) = Total(a)
  BY SumOfKeyed, SumOverIsSum

\* The keys may be the slots themselves.
LEMMA SumOverSlots ==
  ASSUME NEW K \in SUBSET (1..8), NEW f \in [K -> Int], NEW a \in [1..8 -> Int],
         \A k \in 1..8 : a[k] = IF k \in K THEN f[k] ELSE 0
  PROVE  SumOver(f) = Total(a)
  BY SumOfSlots, SumOverIsSum, Zenon

\* A column of the shares, entry by entry.
LEMMA ColumnFacts ==
  ASSUME NEW shares, Len(shares) \in Nat
  PROVE  /\ Len(Column(shares, "bps")) = Len(shares) /\ Len(Column(shares, "recipient")) = Len(shares)
         /\ \A k \in 1..Len(shares) : /\ Column(shares, "bps")[k] = shares[k].bps
                                      /\ Column(shares, "recipient")[k] = shares[k].recipient
  BY DEF Column

\* What is assumed of requests.
LEMMA RequestFacts ==
  ASSUME NEW e \in Events, NEW r \in Requests[e]
  PROVE  /\ r.amount \in Nat /\ Len(r.shares) \in Nat
         /\ Column(r.shares, "bps") \in Seq(Nat)
<1>1. r.amount \in Nat /\ Len(r.shares) \in Nat /\ \A k \in 1..Len(r.shares) : r.shares[k].bps \in Nat
  BY LedgerAssumption
<1>2. PICK c : c = Column(r.shares, "bps")
  OBVIOUS
<1>3. PICK n \in Nat : n = Len(r.shares)
  BY <1>1
<1>4. c = [k \in 1..n |-> r.shares[k].bps]
  BY <1>2, <1>3 DEF Column
<1>5. \A k \in 1..n : r.shares[k].bps \in Nat
  BY <1>1, <1>3
<1>6. c \in Seq(Nat)
  BY <1>4, <1>5
<1> QED
  BY <1>1, <1>2, <1>6

\* What the program accepted, it paid in at most eight payouts.
LEMMA PaysTyped ==
  ASSUME NEW tx, Accepted(tx)
  PROVE  /\ Len(tx.to) \in 1..8
         /\ Payouts(tx.amount, tx.bps) \in [1..8 -> Nat]
<1>1. tx.amount \in Nat /\ tx.bps \in Seq(Nat) /\ SplitVerdict(tx.amount, tx.bps) = "ok"
      /\ Len(tx.to) = Len(tx.bps)
  BY DEF Accepted
<1>2. Len(tx.bps) \in 1..8 /\ Payouts(tx.amount, tx.bps) \in [1..8 -> Nat]
  BY <1>1, PayoutsWellFormed
<1> QED
  BY <1>1, <1>2

\* The transfers of a settlement: the record's rent, and those of something.
LEMMA InnerFacts ==
  ASSUME NEW tx, Len(tx.to) \in Nat
  PROVE  /\ DOMAIN InnerTransfers(tx) \ {0} = {k \in 1..Len(tx.to) : Payouts(tx.amount, tx.bps)[k] > 0}
         /\ \A k \in DOMAIN InnerTransfers(tx) \ {0} :
              InnerTransfers(tx)[k] = Transfer(tx.payer, tx.to[k], Payouts(tx.amount, tx.bps)[k])
         /\ 0 \in DOMAIN InnerTransfers(tx) => InnerTransfers(tx)[0].to = Record
<1>1. PICK n \in Nat : n = Len(tx.to)
  OBVIOUS
<1>2. PICK pays : pays = Payouts(tx.amount, tx.bps)
  OBVIOUS
<1>3. PICK all : all = [k \in 0..n |-> IF k = 0 THEN TopUp(tx) ELSE Transfer(tx.payer, tx.to[k], pays[k])]
  OBVIOUS
<1>4. PICK inner : inner = InnerTransfers(tx)
  OBVIOUS
<1>5. inner = [k \in {k \in 0..n : all[k].amount > 0} |-> all[k]]
  BY <1>1, <1>2, <1>3, <1>4 DEF InnerTransfers, NonZero, F!Restrict
<1>6. \A k \in 1..n : k # 0 /\ all[k] = Transfer(tx.payer, tx.to[k], pays[k]) /\ all[k].amount = pays[k]
  BY <1>3 DEF Transfer
<1>7. all[0].to = Record
  BY <1>3 DEF TopUp, Transfer
<1>8. DOMAIN inner \ {0} = {k \in 1..n : pays[k] > 0}
  BY <1>5, <1>6
<1>9. \A k \in DOMAIN inner \ {0} : inner[k] = Transfer(tx.payer, tx.to[k], pays[k])
  BY <1>5, <1>6
<1>10. 0 \in DOMAIN inner => inner[0].to = Record
  BY <1>5, <1>7
<1> QED
  BY <1>1, <1>2, <1>4, <1>8, <1>9, <1>10

\* What a settlement pays a wallet at each slot.
To(pays, to, w) == [k \in 1..8 |-> IF k <= Len(to) /\ to[k] = w THEN pays[k] ELSE 0]

\* The transfers of something into a wallet are all that is paid there.
LEMMA ReceivedTotal ==
  ASSUME NEW tx, Accepted(tx), NEW w
  PROVE  Received(tx, w) = Total(To(Payouts(tx.amount, tx.bps), tx.to, w))
<1>1. PICK n \in 1..8 : n = Len(tx.to)
  BY PaysTyped
<1>2. PICK pays \in [1..8 -> Nat] : pays = Payouts(tx.amount, tx.bps)
  BY PaysTyped
<1>3. PICK inner : inner = InnerTransfers(tx)
  OBVIOUS
<1>4. /\ DOMAIN inner \ {0} = {k \in 1..n : pays[k] > 0}
      /\ \A k \in DOMAIN inner \ {0} : inner[k] = Transfer(tx.payer, tx.to[k], pays[k])
  <2>1. Len(tx.to) \in Nat
    BY <1>1
  <2> QED
    BY <1>1, <1>2, <1>3, <2>1, InnerFacts
<1>5. \A k \in DOMAIN inner \ {0} : inner[k].to = tx.to[k] /\ inner[k].amount = pays[k]
  BY <1>4 DEF Transfer
<1>6. PICK K : K = {k \in DOMAIN inner \ {0} : inner[k].to = w}
  OBVIOUS
<1>7. K = {k \in 1..n : pays[k] > 0 /\ tx.to[k] = w}
  BY <1>4, <1>5, <1>6
<1>8. K \in SUBSET (1..8)
  BY <1>7
<1>9. PICK f : f = [k \in K |-> inner[k].amount]
  OBVIOUS
<1>10. f \in [K -> Int] /\ \A k \in K : f[k] = pays[k]
  <2>1. \A k \in K : inner[k].amount = pays[k] /\ pays[k] \in Int
    BY <1>5, <1>6, <1>8
  <2> QED
    BY <1>9, <2>1
<1>11. PICK a : a = To(pays, tx.to, w)
  OBVIOUS
<1>12. a \in [1..8 -> Int] /\ \A k \in 1..8 : a[k] = IF k <= n /\ tx.to[k] = w THEN pays[k] ELSE 0
  BY <1>1, <1>11 DEF To
<1>13. \A k \in 1..8 : a[k] = IF k \in K THEN f[k] ELSE 0
  <2>1. \A k \in 1..8 : pays[k] \in Nat /\ (k \in K <=> k <= n /\ pays[k] > 0 /\ tx.to[k] = w)
    BY <1>7
  <2> QED
    BY <1>10, <1>12, <2>1
<1>14. SumOver(f) = Total(a)
  BY <1>8, <1>10, <1>12, <1>13, SumOverSlots
<1>15. Received(tx, w) = SumOver(f)
  BY <1>3, <1>6, <1>9 DEF Received
<1> QED
  BY <1>2, <1>11, <1>14, <1>15

\* The recipients are those of the shares.
ToShares(n, to, shares) ==
  /\ Len(to) = n /\ Len(shares) = n
  /\ \A k \in 1..n : to[k] = shares[k].recipient

\* What the shares of a request are to pay a wallet.
Asked(shares, pays, w) ==
  SumOver([k \in {k \in 1..Len(shares) : shares[k].recipient = w} |-> pays[k]])

\* The sum PaidAsAsked compares with, by slots.
LEMMA AskedTotal ==
  ASSUME NEW n \in 1..8, NEW shares, NEW to, ToShares(n, to, shares),
         NEW pays \in [1..8 -> Nat], NEW w
  PROVE  Asked(shares, pays, w) = Total(To(pays, to, w))
<1>1. PICK K : K = {k \in 1..n : shares[k].recipient = w}
  OBVIOUS
<1>2. K \in SUBSET (1..8)
  BY <1>1
<1>3. PICK f : f = [k \in K |-> pays[k]]
  OBVIOUS
<1>4. f \in [K -> Int] /\ \A k \in K : f[k] = pays[k]
  BY <1>2, <1>3
<1>5. PICK a : a = To(pays, to, w)
  OBVIOUS
<1>6. a \in [1..8 -> Int] /\ \A k \in 1..8 : a[k] = IF k <= n /\ to[k] = w THEN pays[k] ELSE 0
  BY <1>5 DEF To, ToShares
<1>7. \A k \in 1..8 : k \in K <=> k <= n /\ to[k] = w
  BY <1>1 DEF ToShares
<1>8. \A k \in 1..8 : a[k] = IF k \in K THEN f[k] ELSE 0
  BY <1>4, <1>6, <1>7
<1>9. SumOver(f) = Total(a)
  BY <1>2, <1>4, <1>6, <1>8, SumOverSlots
<1>10. Len(shares) = n
  BY DEF ToShares
<1> QED
  BY <1>1, <1>3, <1>5, <1>9, <1>10 DEF Asked

LEMMA ColumnOfShares ==
  ASSUME NEW shares, Len(shares) \in Nat
  PROVE  ToShares(Len(shares), Column(shares, "recipient"), shares)
  BY ColumnFacts DEF ToShares

\* The transaction an event was recorded from pays what its request asks for.
LEMMA PaidOfInv ==
  ASSUME Inv
  PROVE  PaidAsAsked
<1> SUFFICES ASSUME NEW e \in Events, NEW tx \in settlements[e]
             PROVE  /\ tx.event = e /\ tx.namespace = Namespace
                    /\ \A account \in tx.accounts : account.mint = Mint
                    /\ \E s \in Scales : \A w \in Wallets :
                         LET r == requests[e]
                             pays == Payouts(r.amount * s, Column(r.shares, "bps"))
                         IN Received(tx, w) =
                              SumOver([k \in {k \in 1..Len(r.shares) : r.shares[k].recipient = w} |-> pays[k]])
  BY DEF PaidAsAsked
<1>1. tx \in landed /\ requests[e] # NoRequest
  BY DEF Inv, PaidOk
<1>2. PICK s \in Scales : Reconciles(tx, e, requests[e], s)
  BY DEF Inv, PaidOk
<1>3. PICK r : r = requests[e]
  OBVIOUS
<1>4. r \in Requests[e] /\ Accepted(tx)
  BY <1>1, <1>3 DEF Inv, RequestsOk, LandedOk
<1>5. FieldsMatch(tx, e, r, s)
  BY <1>2, <1>3 DEF Reconciles
<1>6. /\ tx.event = e /\ tx.namespace = Namespace /\ tx.amount = r.amount * s
      /\ tx.bps = Column(r.shares, "bps") /\ tx.to = Column(r.shares, "recipient")
  BY <1>5 DEF FieldsMatch
<1>7. \A account \in tx.accounts : account.mint = Mint
  <2>1. \A account \in tx.accounts :
          account = [mint |-> Mint, decimals |-> Decimals, associated |-> TRUE]
    BY <1>5 DEF FieldsMatch, AssetMatches
  <2> QED
    BY <2>1
<1>8. ASSUME NEW w
      PROVE  Received(tx, w) =
               SumOver([k \in {k \in 1..Len(r.shares) : r.shares[k].recipient = w} |->
                          Payouts(r.amount * s, Column(r.shares, "bps"))[k]])
  <2>1. PICK pays : pays = Payouts(r.amount * s, Column(r.shares, "bps"))
    OBVIOUS
  <2>2. pays \in [1..8 -> Nat] /\ Len(tx.to) \in 1..8 /\ pays = Payouts(tx.amount, tx.bps)
    BY <1>4, <1>6, <2>1, PaysTyped
  <2>3. Received(tx, w) = Total(To(pays, tx.to, w))
    BY <1>4, <2>2, ReceivedTotal
  <2>4. ToShares(Len(r.shares), tx.to, r.shares)
    <3>1. Len(r.shares) \in Nat
      BY <1>4, RequestFacts
    <3> QED
      BY <1>6, <3>1, ColumnOfShares
  <2>5. PICK n \in 1..8 : n = Len(r.shares)
    BY <2>2, <2>4 DEF ToShares
  <2>6. PICK shares, to : shares = r.shares /\ to = tx.to
    OBVIOUS
  <2>7. ToShares(n, to, shares)
    BY <2>4, <2>5, <2>6
  <2>8. Asked(shares, pays, w) = Total(To(pays, to, w))
    BY <2>2, <2>7, AskedTotal
  <2> QED
    BY <2>1, <2>3, <2>6, <2>8 DEF Asked
<1> QED
  BY <1>3, <1>6, <1>7, <1>8

\* ledger.ts:437-454: a settlement of the request shows the transfers that are
\* expected, in place, once the record's rent is left out.
LEMMA ExpectedObserved ==
  ASSUME NEW tx, Accepted(tx), NEW r, NEW s, Len(r.shares) \in Nat,
         tx.amount = r.amount * s, tx.bps = Column(r.shares, "bps"),
         tx.to = Column(r.shares, "recipient")
  PROVE  ExpectedTransfers(tx.payer, r, s) = ObservedTransfers(tx)
<1>1. PICK n \in 1..8 : n = Len(tx.to)
  BY PaysTyped
<1>2. PICK pays \in [1..8 -> Nat] : pays = Payouts(tx.amount, tx.bps)
  BY PaysTyped
<1>3. PICK inner : inner = InnerTransfers(tx)
  OBVIOUS
<1>4. /\ DOMAIN inner \ {0} = {k \in 1..n : pays[k] > 0}
      /\ \A k \in DOMAIN inner \ {0} : inner[k] = Transfer(tx.payer, tx.to[k], pays[k])
      /\ 0 \in DOMAIN inner => inner[0].to = Record
  <2>1. Len(tx.to) \in Nat
    BY <1>1
  <2> QED
    BY <1>1, <1>2, <1>3, <2>1, InnerFacts
<1>5. n = Len(r.shares) /\ \A k \in 1..n : tx.to[k] = r.shares[k].recipient
  <2>1. ToShares(Len(r.shares), tx.to, r.shares)
    BY ColumnOfShares
  <2> QED
    BY <1>1, <2>1 DEF ToShares
<1>6. \A k \in 1..n : tx.to[k] # Record
  BY <1>1 DEF Accepted, RecipientsOk
<1>7. {k \in DOMAIN inner : inner[k].to # Record} = {k \in 1..n : pays[k] > 0}
  <2>1. ASSUME NEW k \in DOMAIN inner, inner[k].to # Record PROVE k \in 1..n /\ pays[k] > 0
    BY <1>4, <2>1
  <2>2. ASSUME NEW k \in 1..n, pays[k] > 0 PROVE k \in DOMAIN inner /\ inner[k].to # Record
    <3>1. k \in DOMAIN inner \ {0}
      BY <1>4, <2>2
    <3>2. inner[k] = Transfer(tx.payer, tx.to[k], pays[k])
      BY <1>4, <3>1
    <3> QED
      BY <1>6, <3>1, <3>2 DEF Transfer
  <2> QED
    BY <2>1, <2>2
<1>8. ObservedTransfers(tx) = [k \in {k \in DOMAIN inner : inner[k].to # Record} |-> inner[k]]
  BY <1>3 DEF ObservedTransfers, InnerGroup, F!Restrict
<1>9. ObservedTransfers(tx) = [k \in {k \in 1..n : pays[k] > 0} |-> Transfer(tx.payer, tx.to[k], pays[k])]
  <2>1. \A k \in {k \in 1..n : pays[k] > 0} : inner[k] = Transfer(tx.payer, tx.to[k], pays[k])
    BY <1>4
  <2> QED
    BY <1>7, <1>8, <2>1
<1>10. PICK all : all = [k \in 1..n |-> Transfer(tx.payer, r.shares[k].recipient, pays[k])]
  OBVIOUS
<1>11. ExpectedTransfers(tx.payer, r, s) = [k \in {k \in 1..n : all[k].amount > 0} |-> all[k]]
  BY <1>2, <1>5, <1>10 DEF ExpectedTransfers, NonZero, F!Restrict
<1>12. \A k \in 1..n : all[k] = Transfer(tx.payer, tx.to[k], pays[k]) /\ all[k].amount = pays[k]
  BY <1>5, <1>10 DEF Transfer
<1>13. {k \in 1..n : all[k].amount > 0} = {k \in 1..n : pays[k] > 0}
  BY <1>12
<1> QED
  BY <1>9, <1>11, <1>12, <1>13

\* ... so that it reconciles.
LEMMA OwnOfInv ==
  ASSUME Inv
  PROVE  OwnReconciles
<1> SUFFICES ASSUME NEW tx \in landed, NEW s \in Scales,
                    requests[tx.event] # NoRequest, Readable(tx),
                    FieldsMatch(tx, tx.event, requests[tx.event], s)
             PROVE  Reconciles(tx, tx.event, requests[tx.event], s)
  BY DEF OwnReconciles
<1>1. Accepted(tx) /\ tx.event \in Events
  BY DEF Inv, LandedOk, Accepted
<1>2. PICK r : r = requests[tx.event]
  OBVIOUS
<1>3. r \in Requests[tx.event] /\ Computable(r)
  BY <1>1, <1>2 DEF Inv, RequestsOk
<1>4. Len(r.shares) \in Nat
  BY <1>1, <1>3, RequestFacts
<1>5. /\ tx.amount = r.amount * s /\ tx.bps = Column(r.shares, "bps")
      /\ tx.to = Column(r.shares, "recipient")
  BY <1>2 DEF FieldsMatch
<1>6. PICK t : t = ObservedTransfers(tx)
  OBVIOUS
<1>7. ExpectedTransfers(tx.payer, r, s) = t
  BY <1>1, <1>4, <1>5, <1>6, ExpectedObserved
<1>8. SameTransfers(t, t)
  BY DEF SameTransfers
<1> QED
  BY <1>2, <1>3, <1>6, <1>7, <1>8 DEF Reconciles

-----------------------------------------------------------------------------
(* The rows of a settlement                                                *)

\* The rows of the direct shares and those of the pooled ones.
AreDirect(rows, e, r, tx) ==
  /\ DOMAIN rows = {k \in 1..Len(r.shares) : ~Pooled(r.shares[k])}
  /\ \A k \in DOMAIN rows :
       /\ rows[k].key = <<Signature(tx), CanonicalRole(r.shares[k].label), Beneficiary(r.shares[k])>>
       /\ rows[k].event = e /\ rows[k].wallet = r.shares[k].recipient
       /\ rows[k].amount = Payouts(tx.amount, tx.bps)[k]

ArePooled(rows, e, r, tx) ==
  /\ DOMAIN rows = {k \in 1..Len(r.shares) : Pooled(r.shares[k])}
  /\ \A k \in DOMAIN rows :
       /\ rows[k].key = <<e, CanonicalRole(r.shares[k].label)>>
       /\ rows[k].signature = Signature(tx) /\ rows[k].wallet = r.shares[k].recipient
       /\ rows[k].amount = Payouts(tx.amount, tx.bps)[k]

\* ledger.ts:495-512: one direct entry per share that is not pooled.
LEMMA DirectRows ==
  ASSUME NEW e, NEW r, NEW tx, Len(r.shares) \in Nat
  PROVE  AreDirect(DirectEntries(e, r, tx), e, r, tx)
<1>r. PICK rows : rows = DirectEntries(e, r, tx)
  OBVIOUS
<1>1. PICK n \in Nat : n = Len(r.shares)
  OBVIOUS
<1>2. PICK lines : lines = PayoutLines(r, tx)
  OBVIOUS
<1>3. /\ DOMAIN lines = 1..n
      /\ \A k \in 1..n : lines[k].share = r.shares[k] /\ lines[k].amount = Payouts(tx.amount, tx.bps)[k]
  BY <1>1, <1>2 DEF PayoutLines
<1>4. rows = [k \in {k \in DOMAIN lines : ~Pooled(lines[k].share)} |->
                [key |-> EntryId(Signature(tx), CanonicalRole(lines[k].share.label),
                                 Beneficiary(lines[k].share)),
                 event |-> e, beneficiary |-> Beneficiary(lines[k].share),
                 wallet |-> lines[k].share.recipient, amount |-> lines[k].amount]]
  BY <1>r, <1>2 DEF DirectEntries
<1>5. DOMAIN rows = {k \in 1..n : ~Pooled(r.shares[k])}
  BY <1>3, <1>4
<1>6. ASSUME NEW k \in DOMAIN rows
      PROVE  /\ rows[k].key = <<Signature(tx), CanonicalRole(r.shares[k].label), Beneficiary(r.shares[k])>>
             /\ rows[k].event = e /\ rows[k].wallet = r.shares[k].recipient
             /\ rows[k].amount = Payouts(tx.amount, tx.bps)[k]
  <2>1. lines[k].share = r.shares[k] /\ lines[k].amount = Payouts(tx.amount, tx.bps)[k]
    BY <1>3, <1>5
  <2> QED
    BY <1>4, <2>1 DEF EntryId
<1>7. AreDirect(rows, e, r, tx)
  BY <1>1, <1>5, <1>6 DEF AreDirect
<1> QED
  BY <1>r, <1>7

\* ledger.ts:520: one pool payout per share that is.
LEMMA PoolRows ==
  ASSUME NEW e, NEW r, NEW tx, Len(r.shares) \in Nat
  PROVE  ArePooled(PoolPayouts(e, r, tx), e, r, tx)
<1>r. PICK rows : rows = PoolPayouts(e, r, tx)
  OBVIOUS
<1>1. PICK n \in Nat : n = Len(r.shares)
  OBVIOUS
<1>2. PICK lines : lines = PayoutLines(r, tx)
  OBVIOUS
<1>3. /\ DOMAIN lines = 1..n
      /\ \A k \in 1..n : lines[k].share = r.shares[k] /\ lines[k].amount = Payouts(tx.amount, tx.bps)[k]
  BY <1>1, <1>2 DEF PayoutLines
<1>4. rows = [k \in {k \in DOMAIN lines : Pooled(lines[k].share)} |->
                [key |-> <<e, CanonicalRole(lines[k].share.label)>>,
                 signature |-> Signature(tx), wallet |-> lines[k].share.recipient,
                 amount |-> lines[k].amount]]
  BY <1>r, <1>2 DEF PoolPayouts
<1>5. DOMAIN rows = {k \in 1..n : Pooled(r.shares[k])}
  BY <1>3, <1>4
<1>6. ASSUME NEW k \in DOMAIN rows
      PROVE  /\ rows[k].key = <<e, CanonicalRole(r.shares[k].label)>>
             /\ rows[k].signature = Signature(tx) /\ rows[k].wallet = r.shares[k].recipient
             /\ rows[k].amount = Payouts(tx.amount, tx.bps)[k]
  <2>1. lines[k].share = r.shares[k] /\ lines[k].amount = Payouts(tx.amount, tx.bps)[k]
    BY <1>3, <1>5
  <2> QED
    BY <1>4, <2>1
<1>7. ArePooled(rows, e, r, tx)
  BY <1>1, <1>5, <1>6 DEF ArePooled
<1> QED
  BY <1>r, <1>7

KeysOf(rows) == {rows[k].key : k \in DOMAIN rows}

\* t keeps what is in the table, and has rows with the keys that are not.
Adds(t, table, rows) ==
  /\ DOMAIN t = DOMAIN table \cup KeysOf(rows)
  /\ \A key \in DOMAIN table : t[key] = table[key]
  /\ \A key \in KeysOf(rows) :
       key \notin DOMAIN table => \E k \in DOMAIN rows : rows[k].key = key /\ t[key] = rows[k]

\* INSERT OR IGNORE, whatever the order of the rows: the first one with a key.
LEMMA InsertedFacts ==
  ASSUME NEW table, NEW rows, DOMAIN rows \in SUBSET Nat
  PROVE  Adds(Inserted(table, rows), table, rows)
<1> DEFINE Leads(k, key) ==
             k \in DOMAIN rows /\ rows[k].key = key /\ \A j \in DOMAIN rows : j < k => rows[j].key # key
<1>1. PICK t : t = Inserted(table, rows)
  OBVIOUS
<1>2. t = [key \in DOMAIN table \cup KeysOf(rows) |->
             IF key \in DOMAIN table THEN table[key]
             ELSE rows[CHOOSE k \in DOMAIN rows :
                         rows[k].key = key /\ \A j \in DOMAIN rows : j < k => rows[j].key # key]]
  BY <1>1 DEF Inserted, KeysOf
<1>3. DOMAIN t = DOMAIN table \cup KeysOf(rows) /\ \A key \in DOMAIN table : t[key] = table[key]
  BY <1>2
<1>4. ASSUME NEW key \in KeysOf(rows), key \notin DOMAIN table
      PROVE  \E k \in DOMAIN rows : rows[k].key = key /\ t[key] = rows[k]
  <2>1. PICK K : K = {k \in DOMAIN rows : rows[k].key = key}
    OBVIOUS
  <2>2. K \in SUBSET Nat /\ K # {}
    BY <2>1 DEF KeysOf
  <2>3. PICK k \in K : \A j \in K : k <= j
    BY <2>2, LeastNatural
  <2>4. k \in DOMAIN rows /\ rows[k].key = key /\ \A j \in DOMAIN rows : j < k => rows[j].key # key
    <3>1. ASSUME NEW j \in DOMAIN rows, j < k PROVE rows[j].key # key
      <4>1. j \in Nat /\ k \in Nat
        BY <2>2
      <4> QED
        BY <2>1, <2>3, <3>1, <4>1
    <3> QED
      BY <2>1, <3>1
  <2>5. PICK c : c = CHOOSE i \in DOMAIN rows :
                       rows[i].key = key /\ \A j \in DOMAIN rows : j < i => rows[j].key # key
    OBVIOUS
  <2>6. c \in DOMAIN rows /\ rows[c].key = key
    BY <2>4, <2>5
  <2>7. t[key] = rows[c]
    BY <1>2, <1>4, <2>5
  <2> QED
    BY <2>6, <2>7
<1>5. Adds(t, table, rows)
  BY <1>3, <1>4 DEF Adds
<1> QED
  BY <1>1, <1>5

\* Rows of which the table has none, or all.
HasAll(t, table, rows, ids) ==
  /\ DOMAIN t = DOMAIN table \cup KeysOf(rows)
  /\ \A id \in DOMAIN table : t[id] = table[id]
  /\ Keeps(t, KeysOf(rows), rows)
  /\ ids \subseteq KeysOf(rows)

\* A table that has all of these rows or none has all of them afterwards.
LEMMA InsertedRows ==
  ASSUME NEW table, NEW rows, DOMAIN rows \in SUBSET Nat, NEW ids \in SUBSET DOMAIN table,
         ids = {} \/ Keeps(table, ids, rows),
         \A id \in KeysOf(rows) : id \in DOMAIN table => id \in ids
  PROVE  HasAll(Inserted(table, rows), table, rows, ids)
<1>1. PICK t : t = Inserted(table, rows) /\ Adds(t, table, rows)
  BY InsertedFacts
<1>2. ids = {} \/ (ids = KeysOf(rows) /\ \A id \in ids : \E k \in DOMAIN rows : rows[k].key = id /\ table[id] = rows[k])
  BY DEF Keeps, KeysOf
<1>3. ASSUME NEW id \in KeysOf(rows)
      PROVE  \E k \in DOMAIN rows : rows[k].key = id /\ t[id] = rows[k]
  <2>1. CASE id \in DOMAIN table
    <3>1. id \in ids
      BY <2>1
    <3>2. PICK k \in DOMAIN rows : rows[k].key = id /\ table[id] = rows[k]
      BY <1>2, <3>1
    <3> QED
      BY <1>1, <2>1, <3>2 DEF Adds
  <2>2. CASE id \notin DOMAIN table
    BY <1>1, <2>2 DEF Adds
  <2> QED
    BY <2>1, <2>2
<1>4. Keeps(t, KeysOf(rows), rows)
  BY <1>3 DEF Keeps, KeysOf
<1> QED
  BY <1>1, <1>2, <1>4 DEF Adds, HasAll

-----------------------------------------------------------------------------
(* The steps of the payout ledger                                          *)

\* The invariant at the start.
LEMMA InitInv == Init => Inv
<1> SUFFICES ASSUME Init PROVE Inv
  OBVIOUS
<1>1. /\ landed = {} /\ requests = [e \in Events |-> NoRequest]
      /\ settlements = [e \in Events |-> {}]
      /\ DOMAIN entries = {} /\ DOMAIN pools = {} /\ DOMAIN accrued = {}
  BY DEF Init
<1>2. LandedOk /\ RequestsOk /\ PaidOk
  BY <1>1 DEF LandedOk, RequestsOk, PaidOk
<1>3. EntryIdsOk /\ PoolKeysOk /\ AccruedOk
  BY <1>1 DEF EntryIdsOk, PoolKeysOk, AccruedOk
<1>4. RowsOk
  BY <1>1 DEF RowsOk, EntriesOf, PoolsOf
<1> QED
  BY <1>2, <1>3, <1>4 DEF Inv

\* A request is stored for an event that has none, nor therefore rows.
LEMMA EnqueueInv ==
  ASSUME Inv, NEW e \in Events, NEW r \in Requests[e], Enqueue(e, r)
  PROVE  Inv'
<1>1. /\ requests[e] = NoRequest /\ Computable(r)
      /\ requests' = [requests EXCEPT ![e] = r]
      /\ UNCHANGED <<landed, settlements, entries, pools, accrued>>
  BY DEF Enqueue
<1>2. LandedOk' /\ EntryIdsOk' /\ PoolKeysOk' /\ AccruedOk'
  BY <1>1 DEF Inv, LandedOk, EntryIdsOk, PoolKeysOk, AccruedOk
<1>3. RequestsOk /\ PaidOk /\ RowsOk
  BY DEF Inv
<1>4. requests'[e] = r /\ \A d \in Events : d # e => requests'[d] = requests[d]
  BY <1>1, <1>3 DEF RequestsOk
<1>5. RequestsOk'
  <2>1. requests' = [d \in Events |-> requests'[d]]
    BY <1>1, <1>3 DEF RequestsOk
  <2>2. ASSUME NEW d \in Events, requests'[d] # NoRequest
        PROVE  requests'[d] \in Requests[d] /\ Computable(requests'[d])
    BY <1>1, <1>3, <1>4, <2>2 DEF RequestsOk
  <2> QED
    BY <2>1, <2>2 DEF RequestsOk
<1>6. \A d \in Events : settlements[d] # {} => requests'[d] = requests[d]
  BY <1>1, <1>3, <1>4 DEF PaidOk
<1>7. PaidOk'
  BY <1>1, <1>3, <1>6 DEF PaidOk
<1>8. RowsOk'
  <2> SUFFICES ASSUME NEW d \in Events
               PROVE  /\ settlements[d] = {} => EntriesOf(d) = {} /\ PoolsOf(d) = {}
                      /\ \A tx \in settlements[d] :
                           /\ Keeps(entries, EntriesOf(d), DirectEntries(d, requests'[d], tx))
                           /\ Keeps(pools, PoolsOf(d), PoolPayouts(d, requests'[d], tx))
    BY <1>1 DEF RowsOk, EntriesOf, PoolsOf
  <2>1. CASE settlements[d] = {}
    BY <1>3, <2>1 DEF RowsOk
  <2>2. CASE settlements[d] # {}
    <3>1. requests'[d] = requests[d]
      BY <1>6, <2>2
    <3> QED
      BY <1>3, <2>2, <3>1 DEF RowsOk
  <2> QED
    BY <2>1, <2>2
<1> QED
  BY <1>2, <1>5, <1>7, <1>8 DEF Inv

\* What the program executes is what it accepted.
LEMMA SettlementAccepted ==
  ASSUME NEW e \in Events, NEW r \in Requests[e], NEW how \in Landings[e],
         NEW tx, tx = Settlement(e, r, how),
         RecipientsOk(tx), SplitVerdict(tx.amount, tx.bps) = "ok"
  PROVE  Accepted(tx) /\ tx.event = e /\ tx.namespace = how.namespace
<1>1. /\ tx.event = e /\ tx.namespace = how.namespace
      /\ tx.amount = r.amount * how.scale
      /\ tx.bps = Column(r.shares, "bps") /\ tx.to = Column(r.shares, "recipient")
  BY DEF Settlement
<1>2. /\ r.amount \in Nat /\ Len(r.shares) \in Nat /\ Column(r.shares, "bps") \in Seq(Nat)
  BY RequestFacts
<1>3. how.scale \in Nat
  BY LedgerAssumption
<1>4. tx.amount \in Nat
  BY <1>1, <1>2, <1>3, MulNat
<1>5. Len(tx.to) = Len(tx.bps)
  <2>1. PICK shares : shares = r.shares
    OBVIOUS
  <2>2. Len(Column(shares, "bps")) = Len(shares) /\ Len(Column(shares, "recipient")) = Len(shares)
    BY <1>2, <2>1, ColumnFacts
  <2> QED
    BY <1>1, <2>1, <2>2
<1> QED
  BY <1>1, <1>2, <1>4, <1>5 DEF Accepted

\* The program executes one settlement per event and namespace.
LEMMA LandInv ==
  ASSUME Inv, NEW e \in Events, NEW r \in Requests[e], NEW how \in Landings[e], Land(e, r, how)
  PROVE  Inv'
<1>1. PICK tx : tx = Settlement(e, r, how)
  OBVIOUS
<1>2. /\ \A t \in landed : <<t.namespace, t.event>> # <<how.namespace, e>>
      /\ RecipientsOk(tx) /\ SplitVerdict(tx.amount, tx.bps) = "ok"
      /\ landed' = landed \cup {tx}
      /\ UNCHANGED <<requests, settlements, entries, pools, accrued>>
  BY <1>1 DEF Land
<1>3. Accepted(tx) /\ tx.event = e /\ tx.namespace = how.namespace
  BY <1>1, <1>2, SettlementAccepted
<1>4. LandedOk'
  <2>1. \A t \in landed' : Accepted(t)
    BY <1>2, <1>3 DEF Inv, LandedOk
  <2>2. ASSUME NEW t \in landed', NEW u \in landed', t.namespace = u.namespace, t.event = u.event
        PROVE  t = u
    <3>1. \A v \in landed : ~(v.namespace = tx.namespace /\ v.event = tx.event)
      BY <1>2, <1>3
    <3> QED
      BY <1>2, <2>2, <3>1 DEF Inv, LandedOk
  <2> QED
    BY <2>1, <2>2 DEF LandedOk
<1>5. RequestsOk' /\ EntryIdsOk' /\ PoolKeysOk' /\ AccruedOk'
  BY <1>2 DEF Inv, RequestsOk, EntryIdsOk, PoolKeysOk, AccruedOk
<1>6. PaidOk'
  BY <1>2 DEF Inv, PaidOk
<1>7. RowsOk'
  BY <1>2 DEF Inv, RowsOk, EntriesOf, PoolsOf
<1> QED
  BY <1>4, <1>5, <1>6, <1>7 DEF Inv

\* What reconciles with the request of an event is its settlement.
LEMMA ReconciledFacts ==
  ASSUME NEW tx, NEW e, NEW r, NEW s, Reconciles(tx, e, r, s)
  PROVE  /\ tx.event = e /\ tx.namespace = Namespace
         /\ Signature(tx) = <<Namespace, e>>
         /\ tx.to = Column(r.shares, "recipient")
         /\ LabelsOk(r.shares)
<1>1. tx.event = e /\ tx.namespace = Namespace /\ tx.to = Column(r.shares, "recipient")
  BY DEF Reconciles, FieldsMatch
<1>2. LabelsOk(r.shares)
  BY DEF Reconciles, Computable
<1> QED
  BY <1>1, <1>2 DEF Signature

\* An event has one transaction that its request can reconcile with.
LEMMA OneSettlement ==
  ASSUME Inv, NEW e \in Events, NEW tx \in landed, NEW s, Reconciles(tx, e, requests[e], s),
         NEW u \in settlements[e]
  PROVE  u = tx
<1>1. u \in landed
  BY DEF Inv, PaidOk
<1>2. u.event = e /\ u.namespace = Namespace
  BY ReconciledFacts DEF Inv, PaidOk
<1>3. tx.event = e /\ tx.namespace = Namespace
  BY ReconciledFacts
<1> QED
  BY <1>1, <1>2, <1>3 DEF Inv, LandedOk

\* store.ts:330-358: the entries of the event are those of this transaction, the
\* first time and again, and those of other events stay.
LEMMA RecordedEntries ==
  ASSUME Inv, NEW e \in Events, NEW tx \in landed, NEW s \in Scales, RecordPaid(e, tx, s)
  PROVE  /\ EntryIdsOk'
         /\ Keeps(entries', EntriesOf(e)', DirectEntries(e, requests[e], tx))
         /\ \A d \in Events : d # e => /\ EntriesOf(d)' = EntriesOf(d)
                                       /\ \A id \in EntriesOf(d) : entries'[id] = entries[id]
<1>1. PICK rows : rows = DirectEntries(e, requests[e], tx)
  OBVIOUS
<1>2. requests[e] # NoRequest /\ Reconciles(tx, e, requests[e], s) /\ entries' = Inserted(entries, rows)
  BY <1>1 DEF RecordPaid
<1>3. requests[e] \in Requests[e]
  BY <1>2 DEF Inv, RequestsOk
<1>4. Len(requests[e].shares) \in Nat /\ Signature(tx) = <<Namespace, e>>
  BY <1>2, <1>3, RequestFacts, ReconciledFacts
<1>5. /\ DOMAIN rows \in SUBSET Nat
      /\ \A k \in DOMAIN rows : rows[k].event = e /\ rows[k].key[1] = <<Namespace, e>>
  <2>1. AreDirect(rows, e, requests[e], tx)
    BY <1>1, <1>4, DirectRows
  <2>2. DOMAIN rows \in SUBSET Nat
    BY <1>4, <2>1 DEF AreDirect
  <2> QED
    BY <1>4, <2>1, <2>2 DEF AreDirect
<1>6. PICK ids : ids = EntriesOf(e)
  OBVIOUS
<1>7. EntryIdsOk
  BY DEF Inv
<1>8. ids \in SUBSET DOMAIN entries
  BY <1>6 DEF EntriesOf
<1>9. ids = {} \/ Keeps(entries, ids, rows)
  <2>1. CASE settlements[e] = {}
    BY <1>6, <2>1 DEF Inv, RowsOk
  <2>2. CASE settlements[e] # {}
    <3>1. PICK u \in settlements[e] : TRUE
      BY <2>2
    <3>2. u = tx
      BY <1>2, OneSettlement
    <3> QED
      BY <1>1, <1>6, <3>2 DEF Inv, RowsOk
  <2> QED
    BY <2>1, <2>2
<1>10. \A id \in KeysOf(rows) : id \in DOMAIN entries => id \in ids
  <2> SUFFICES ASSUME NEW k \in DOMAIN rows, rows[k].key \in DOMAIN entries
               PROVE  rows[k].key \in ids
    BY DEF KeysOf
  <2>1. PICK id : id = rows[k].key
    OBVIOUS
  <2>2. id[1] = <<Namespace, e>> /\ id[1] = <<Namespace, entries[id].event>>
    BY <1>5, <1>7, <2>1 DEF EntryIdsOk
  <2>3. entries[id].event = e
    BY <2>2
  <2> QED
    BY <1>6, <2>1, <2>3 DEF EntriesOf
<1>11. PICK t : t = entries'
  OBVIOUS
<1>12. /\ DOMAIN t = DOMAIN entries \cup KeysOf(rows)
       /\ \A id \in DOMAIN entries : t[id] = entries[id]
       /\ Keeps(t, KeysOf(rows), rows)
       /\ ids \subseteq KeysOf(rows)
  <2>1. HasAll(Inserted(entries, rows), entries, rows, ids)
    BY <1>5, <1>8, <1>9, <1>10, InsertedRows
  <2>2. HasAll(t, entries, rows, ids)
    BY <1>2, <1>11, <2>1
  <2> QED
    BY <2>2 DEF HasAll
<1>13. \A id \in KeysOf(rows) : t[id].event = e /\ id[1] = <<Namespace, e>>
  <2> SUFFICES ASSUME NEW id \in KeysOf(rows) PROVE t[id].event = e /\ id[1] = <<Namespace, e>>
    OBVIOUS
  <2>1. PICK k \in DOMAIN rows : rows[k].key = id /\ t[id] = rows[k]
    BY <1>12 DEF Keeps
  <2> QED
    BY <1>5, <2>1
<1>14. EntryIdsOk'
  <2> SUFFICES ASSUME NEW id \in DOMAIN t
               PROVE  t[id].event \in Events /\ id[1] = <<Namespace, t[id].event>>
    BY <1>11 DEF EntryIdsOk
  <2>1. CASE id \in KeysOf(rows)
    BY <1>13, <2>1
  <2>2. CASE id \in DOMAIN entries
    BY <1>7, <1>12, <2>2 DEF EntryIdsOk
  <2> QED
    BY <1>12, <2>1, <2>2
<1>15. \A d : {id \in DOMAIN t : t[id].event = d}
                = IF d = e THEN KeysOf(rows) ELSE EntriesOf(d)
  <2> SUFFICES ASSUME NEW d
               PROVE  {id \in DOMAIN t : t[id].event = d}
                        = IF d = e THEN KeysOf(rows) ELSE EntriesOf(d)
    OBVIOUS
  <2>1. CASE d = e
    <3>1. ASSUME NEW id \in DOMAIN t, t[id].event = e PROVE id \in KeysOf(rows)
      <4>1. CASE id \in DOMAIN entries
        <5>1. id \in ids
          BY <1>6, <1>12, <3>1, <4>1 DEF EntriesOf
        <5> QED
          BY <1>12, <5>1
      <4> QED
        BY <1>12, <4>1
    <3> QED
      BY <1>12, <1>13, <2>1, <3>1
  <2>2. CASE d # e
    BY <1>12, <1>13, <2>2 DEF EntriesOf
  <2> QED
    BY <2>1, <2>2
<1>16. \A d : EntriesOf(d)' = IF d = e THEN KeysOf(rows) ELSE EntriesOf(d)
  BY <1>11, <1>15 DEF EntriesOf
<1>17. \A d \in Events : d # e => /\ EntriesOf(d)' = EntriesOf(d)
                                  /\ \A id \in EntriesOf(d) : entries'[id] = entries[id]
  BY <1>11, <1>12, <1>16 DEF EntriesOf
<1> QED
  BY <1>1, <1>11, <1>12, <1>14, <1>16, <1>17

\* The same of the pool payouts.
LEMMA RecordedPools ==
  ASSUME Inv, NEW e \in Events, NEW tx \in landed, NEW s \in Scales, RecordPaid(e, tx, s)
  PROVE  /\ PoolKeysOk'
         /\ Keeps(pools', PoolsOf(e)', PoolPayouts(e, requests[e], tx))
         /\ \A d \in Events : d # e => PoolsOf(d)' = PoolsOf(d)
         /\ \A key \in DOMAIN pools : key \in DOMAIN pools' /\ pools'[key] = pools[key]
<1>1. PICK rows : rows = PoolPayouts(e, requests[e], tx)
  OBVIOUS
<1>2. requests[e] # NoRequest /\ Reconciles(tx, e, requests[e], s) /\ pools' = Inserted(pools, rows)
  BY <1>1 DEF RecordPaid
<1>3. requests[e] \in Requests[e]
  BY <1>2 DEF Inv, RequestsOk
<1>4. Len(requests[e].shares) \in Nat /\ Signature(tx) = <<Namespace, e>>
  BY <1>2, <1>3, RequestFacts, ReconciledFacts
<1>5. /\ DOMAIN rows \in SUBSET Nat
      /\ \A k \in DOMAIN rows : /\ rows[k].signature = <<Namespace, e>>
                                /\ \E role : rows[k].key = <<e, role>>
  <2>1. ArePooled(rows, e, requests[e], tx)
    BY <1>1, <1>4, PoolRows
  <2>2. DOMAIN rows \in SUBSET Nat
    BY <1>4, <2>1 DEF ArePooled
  <2> QED
    BY <1>4, <2>1, <2>2 DEF ArePooled
<1>6. PICK ids : ids = PoolsOf(e)
  OBVIOUS
<1>7. PoolKeysOk
  BY DEF Inv
<1>8. ids \in SUBSET DOMAIN pools
  BY <1>6 DEF PoolsOf
<1>9. ids = {} \/ Keeps(pools, ids, rows)
  <2>1. CASE settlements[e] = {}
    BY <1>6, <2>1 DEF Inv, RowsOk
  <2>2. CASE settlements[e] # {}
    <3>1. PICK u \in settlements[e] : TRUE
      BY <2>2
    <3>2. u = tx
      BY <1>2, OneSettlement
    <3> QED
      BY <1>1, <1>6, <3>2 DEF Inv, RowsOk
  <2> QED
    BY <2>1, <2>2
<1>10. \A key \in KeysOf(rows) : key[1] = e /\ key = <<key[1], key[2]>>
  <2> SUFFICES ASSUME NEW k \in DOMAIN rows
               PROVE  rows[k].key[1] = e /\ rows[k].key = <<rows[k].key[1], rows[k].key[2]>>
    BY DEF KeysOf
  <2>1. PICK role : rows[k].key = <<e, role>>
    BY <1>5
  <2> QED
    BY <2>1
<1>11. \A key \in KeysOf(rows) : key \in DOMAIN pools => key \in ids
  BY <1>6, <1>10 DEF PoolsOf
<1>12. PICK t : t = pools'
  OBVIOUS
<1>13. /\ DOMAIN t = DOMAIN pools \cup KeysOf(rows)
       /\ \A key \in DOMAIN pools : t[key] = pools[key]
       /\ Keeps(t, KeysOf(rows), rows)
       /\ ids \subseteq KeysOf(rows)
  <2>1. HasAll(Inserted(pools, rows), pools, rows, ids)
    BY <1>5, <1>8, <1>9, <1>11, InsertedRows
  <2>2. HasAll(t, pools, rows, ids)
    BY <1>2, <1>12, <2>1
  <2> QED
    BY <2>2 DEF HasAll
<1>14. \A key \in KeysOf(rows) : t[key].signature = <<Namespace, e>>
  <2> SUFFICES ASSUME NEW key \in KeysOf(rows) PROVE t[key].signature = <<Namespace, e>>
    OBVIOUS
  <2>1. PICK k \in DOMAIN rows : rows[k].key = key /\ t[key] = rows[k]
    BY <1>13 DEF Keeps
  <2> QED
    BY <1>5, <2>1
<1>15. PoolKeysOk'
  <2> SUFFICES ASSUME NEW key \in DOMAIN t
               PROVE  /\ key[1] \in Events /\ key = <<key[1], key[2]>>
                      /\ t[key].signature = <<Namespace, key[1]>>
    BY <1>12 DEF PoolKeysOk
  <2>1. CASE key \in KeysOf(rows)
    BY <1>10, <1>14, <2>1
  <2>2. CASE key \in DOMAIN pools
    BY <1>7, <1>13, <2>2 DEF PoolKeysOk
  <2> QED
    BY <1>13, <2>1, <2>2
<1>16. \A d : {key \in DOMAIN t : key[1] = d} = IF d = e THEN KeysOf(rows) ELSE PoolsOf(d)
  <2> SUFFICES ASSUME NEW d
               PROVE  {key \in DOMAIN t : key[1] = d} = IF d = e THEN KeysOf(rows) ELSE PoolsOf(d)
    OBVIOUS
  <2>1. CASE d = e
    <3>1. ASSUME NEW key \in DOMAIN t, key[1] = e PROVE key \in KeysOf(rows)
      <4>1. CASE key \in DOMAIN pools
        <5>1. key \in ids
          BY <1>6, <3>1, <4>1 DEF PoolsOf
        <5> QED
          BY <1>13, <5>1
      <4> QED
        BY <1>13, <4>1
    <3> QED
      BY <1>10, <1>13, <2>1, <3>1
  <2>2. CASE d # e
    BY <1>10, <1>13, <2>2 DEF PoolsOf
  <2> QED
    BY <2>1, <2>2
<1>17. \A d : PoolsOf(d)' = IF d = e THEN KeysOf(rows) ELSE PoolsOf(d)
  BY <1>12, <1>16 DEF PoolsOf
<1>18. \A key \in DOMAIN pools : key \in DOMAIN t /\ t[key] = pools[key]
  BY <1>13
<1> QED
  BY <1>1, <1>12, <1>13, <1>15, <1>17, <1>18

\* What is recorded is the event's own settlement.
LEMMA RecordPaidInv ==
  ASSUME Inv, NEW e \in Events, NEW tx \in landed, NEW s \in Scales, RecordPaid(e, tx, s)
  PROVE  Inv'
<1>1. /\ requests[e] # NoRequest /\ Reconciles(tx, e, requests[e], s)
      /\ settlements' = [settlements EXCEPT ![e] = IF @ = {} THEN {tx} ELSE @]
      /\ UNCHANGED <<landed, requests, accrued>>
  BY DEF RecordPaid
<1>2. PaidOk /\ RowsOk /\ AccruedOk
  BY DEF Inv
<1>3. /\ EntryIdsOk'
      /\ Keeps(entries', EntriesOf(e)', DirectEntries(e, requests[e], tx))
      /\ \A d \in Events : d # e => /\ EntriesOf(d)' = EntriesOf(d)
                                    /\ \A id \in EntriesOf(d) : entries'[id] = entries[id]
  BY RecordedEntries
<1>4. /\ PoolKeysOk'
      /\ Keeps(pools', PoolsOf(e)', PoolPayouts(e, requests[e], tx))
      /\ \A d \in Events : d # e => PoolsOf(d)' = PoolsOf(d)
      /\ \A key \in DOMAIN pools : key \in DOMAIN pools' /\ pools'[key] = pools[key]
  BY RecordedPools
<1>5. /\ settlements'[e] = {tx}
      /\ \A d \in Events : d # e => settlements'[d] = settlements[d]
  <2>1. settlements[e] = {} \/ settlements[e] = {tx}
    BY <1>1, OneSettlement
  <2> QED
    BY <1>1, <1>2, <2>1 DEF PaidOk
<1>6. LandedOk' /\ RequestsOk'
  BY <1>1 DEF Inv, LandedOk, RequestsOk
<1>7. PaidOk'
  <2>1. settlements' = [d \in Events |-> settlements'[d]]
    BY <1>1, <1>2 DEF PaidOk
  <2>2. ASSUME NEW d \in Events, NEW u \in settlements'[d]
        PROVE  /\ u \in landed /\ requests[d] # NoRequest
               /\ \E z \in Scales : Reconciles(u, d, requests[d], z)
    <3>1. CASE d = e
      BY <1>1, <1>5, <2>2, <3>1
    <3>2. CASE d # e
      BY <1>2, <1>5, <2>2, <3>2 DEF PaidOk
    <3> QED
      BY <3>1, <3>2
  <2> QED
    BY <1>1, <2>1, <2>2 DEF PaidOk
<1>8. RowsOk'
  <2> SUFFICES ASSUME NEW d \in Events
               PROVE  /\ settlements'[d] = {} => EntriesOf(d)' = {} /\ PoolsOf(d)' = {}
                      /\ \A u \in settlements'[d] :
                           /\ Keeps(entries', EntriesOf(d)', DirectEntries(d, requests[d], u))
                           /\ Keeps(pools', PoolsOf(d)', PoolPayouts(d, requests[d], u))
    BY <1>1 DEF RowsOk
  <2>1. CASE d = e
    BY <1>3, <1>4, <1>5, <2>1
  <2>2. CASE d # e
    <3>1. /\ settlements'[d] = settlements[d] /\ EntriesOf(d)' = EntriesOf(d)
          /\ PoolsOf(d)' = PoolsOf(d)
          /\ \A id \in EntriesOf(d) : entries'[id] = entries[id]
          /\ \A key \in PoolsOf(d) : pools'[key] = pools[key]
      BY <1>3, <1>4, <1>5, <2>2 DEF PoolsOf
    <3>2. ASSUME NEW u \in settlements[d]
          PROVE  /\ Keeps(entries', EntriesOf(d), DirectEntries(d, requests[d], u))
                 /\ Keeps(pools', PoolsOf(d), PoolPayouts(d, requests[d], u))
      <4>1. /\ Keeps(entries, EntriesOf(d), DirectEntries(d, requests[d], u))
            /\ Keeps(pools, PoolsOf(d), PoolPayouts(d, requests[d], u))
        BY <1>2 DEF RowsOk
      <4> QED
        BY <3>1, <4>1 DEF Keeps
    <3> QED
      BY <1>2, <3>1, <3>2 DEF RowsOk
  <2> QED
    BY <2>1, <2>2
<1>9. AccruedOk'
  BY <1>1, <1>2, <1>4 DEF AccruedOk
<1> QED
  BY <1>3, <1>4, <1>6, <1>7, <1>8, <1>9 DEF Inv

\* The rows of an allocation.
AreShares(rows, key, allocation) ==
  /\ DOMAIN rows = 1..Len(allocation)
  /\ \A k \in 1..Len(allocation) :
       /\ rows[k].key = <<pools[key].signature, key[2], allocation[k].to>>
       /\ rows[k].pool = key /\ rows[k].amount = allocation[k].amount

\* They are all new.
LEMMA Allocated ==
  ASSUME Inv, NEW key \in DOMAIN pools, NEW allocation \in Allocations, AllocatePool(key, allocation)
  PROVE  /\ SharesOf(key) = {} /\ Allocates(allocation, pools[key].amount)
         /\ \E rows : /\ AreShares(rows, key, allocation)
                      /\ Adds(accrued', accrued, rows)
                      /\ \A id \in KeysOf(rows) : id \notin DOMAIN accrued
         /\ UNCHANGED <<landed, requests, settlements, entries, pools>>
<1>r. PICK rows : rows = [k \in 1..Len(allocation) |->
                           [key |-> EntryId(pools[key].signature, key[2], allocation[k].to),
                            pool |-> key, amount |-> allocation[k].amount]]
  OBVIOUS
<1>1. /\ \A id \in DOMAIN accrued : accrued[id].pool # key
      /\ Allocates(allocation, pools[key].amount)
      /\ accrued' = Inserted(accrued, rows)
      /\ UNCHANGED <<landed, requests, settlements, entries, pools>>
  BY <1>r DEF AllocatePool
<1>2. PICK n \in 1..8 : n = Len(allocation)
  BY <1>1 DEF Allocates, Slots, MAX_SHARES
<1>3. /\ DOMAIN rows = 1..n
      /\ \A k \in 1..n : /\ rows[k].key = <<pools[key].signature, key[2], allocation[k].to>>
                         /\ rows[k].pool = key /\ rows[k].amount = allocation[k].amount
  BY <1>r, <1>2 DEF EntryId
<1>4. SharesOf(key) = {}
  BY <1>1 DEF SharesOf
<1>5. Adds(accrued', accrued, rows)
  <2>1. DOMAIN rows \in SUBSET Nat
    BY <1>3
  <2>2. Adds(Inserted(accrued, rows), accrued, rows)
    BY <2>1, InsertedFacts
  <2> QED
    BY <1>1, <2>2
<1>6. ASSUME NEW id \in KeysOf(rows), id \in DOMAIN accrued PROVE FALSE
  <2>1. id[1] = pools[key].signature /\ id[2] = key[2]
    BY <1>3 DEF KeysOf
  <2>2. PICK other \in DOMAIN pools :
          other = accrued[id].pool /\ id[1] = pools[other].signature /\ id[2] = other[2]
    BY <1>6 DEF Inv, AccruedOk
  <2>3. key = <<key[1], key[2]>> /\ other = <<other[1], other[2]>>
    BY DEF Inv, PoolKeysOk
  <2>4. pools[key].signature = <<Namespace, key[1]>> /\ pools[other].signature = <<Namespace, other[1]>>
    BY DEF Inv, PoolKeysOk
  <2>5. key[1] = other[1] /\ key[2] = other[2]
    <3>1. PICK a, b : a = key[1] /\ b = other[1]
      OBVIOUS
    <3>2. <<Namespace, a>> = <<Namespace, b>>
      BY <2>1, <2>2, <2>4, <3>1, Zenon
    <3>3. a = b
      BY <3>2
    <3>4. key[2] = other[2]
      BY <2>1, <2>2, Zenon
    <3> QED
      BY <3>1, <3>3, <3>4
  <2>6. key = other
    BY <2>3, <2>5
  <2> QED
    BY <1>1, <1>6, <2>2, <2>6
<1>7. AreShares(rows, key, allocation)
  BY <1>2, <1>3 DEF AreShares
<1> QED
  BY <1>1, <1>4, <1>5, <1>6, <1>7

\* What is accrued carries its pool in its id.
LEMMA AllocateInv ==
  ASSUME Inv, NEW key \in DOMAIN pools, NEW allocation \in Allocations, AllocatePool(key, allocation)
  PROVE  Inv'
<1>1. UNCHANGED <<landed, requests, settlements, entries, pools>>
  BY Allocated
<1>2. PICK rows : /\ AreShares(rows, key, allocation) /\ Adds(accrued', accrued, rows)
                  /\ \A id \in KeysOf(rows) : id \notin DOMAIN accrued
  BY Allocated
<1>3. LandedOk' /\ RequestsOk' /\ PaidOk' /\ EntryIdsOk' /\ PoolKeysOk'
  BY <1>1 DEF Inv, LandedOk, RequestsOk, PaidOk, EntryIdsOk, PoolKeysOk
<1>4. RowsOk'
  BY <1>1 DEF Inv, RowsOk, EntriesOf, PoolsOf
<1>5. AccruedOk'
  <2> SUFFICES ASSUME NEW id \in DOMAIN accrued'
               PROVE  /\ accrued'[id].pool \in DOMAIN pools
                      /\ id[1] = pools[accrued'[id].pool].signature /\ id[2] = accrued'[id].pool[2]
    BY <1>1 DEF AccruedOk
  <2>1. CASE id \in DOMAIN accrued
    BY <1>2, <2>1 DEF Adds, Inv, AccruedOk
  <2>2. CASE id \in KeysOf(rows)
    <3>1. PICK k \in DOMAIN rows : rows[k].key = id /\ accrued'[id] = rows[k]
      BY <1>2, <2>2 DEF Adds
    <3> QED
      BY <1>2, <3>1 DEF AreShares
  <2> QED
    BY <1>2, <2>1, <2>2 DEF Adds
<1> QED
  BY <1>3, <1>4, <1>5 DEF Inv

\* Every step keeps the invariant.
LEMMA NextInv ==
  ASSUME Inv, Next \/ UNCHANGED vars
  PROVE  Inv'
<1>1. ASSUME NEW e \in Events, NEW r \in Requests[e], Enqueue(e, r) PROVE Inv'
  BY <1>1, EnqueueInv
<1>2. ASSUME NEW e \in Events, NEW r \in Requests[e], NEW how \in Landings[e], Land(e, r, how)
      PROVE  Inv'
  BY <1>2, LandInv
<1>3. ASSUME NEW e \in Events, NEW tx \in landed, NEW s \in Scales, RecordPaid(e, tx, s)
      PROVE  Inv'
  BY <1>3, RecordPaidInv
<1>4. ASSUME NEW key \in DOMAIN pools, NEW allocation \in Allocations, AllocatePool(key, allocation)
      PROVE  Inv'
  BY <1>4, AllocateInv
<1>5. CASE UNCHANGED vars
  <2>1. UNCHANGED <<landed, requests, settlements, entries, pools, accrued>>
    BY <1>5 DEF vars
  <2>2. LandedOk' /\ RequestsOk' /\ PaidOk' /\ EntryIdsOk' /\ PoolKeysOk' /\ AccruedOk'
    BY <2>1 DEF Inv, LandedOk, RequestsOk, PaidOk, EntryIdsOk, PoolKeysOk, AccruedOk
  <2>3. RowsOk'
    BY <2>1 DEF Inv, RowsOk, EntriesOf, PoolsOf
  <2> QED
    BY <2>2, <2>3 DEF Inv
<1> QED
  BY <1>1, <1>2, <1>3, <1>4, <1>5 DEF Next

\* f is the amounts of the rows at K, by their keys; a is the same, by slots.
Amounts(f, rows, K, a) ==
  /\ K \subseteq 1..8
  /\ \A j, k \in K : rows[j].key = rows[k].key => j = k
  /\ DOMAIN f = {rows[k].key : k \in K} /\ f = [id \in DOMAIN f |-> f[id]]
  /\ \A k \in K : f[rows[k].key] = rows[k].amount
  /\ \A k \in 1..8 : a[k] = IF k \in K THEN rows[k].amount ELSE 0

\* Rows with distinct keys add up to what their slots do.
LEMMA AmountsAddUp ==
  ASSUME NEW f, NEW rows, NEW K, NEW a \in [1..8 -> Int], Amounts(f, rows, K, a)
  PROVE  SumOver(f) = Total(a)
<1>1. PICK key : key = [k \in K |-> rows[k].key]
  OBVIOUS
<1>2. PICK ids : ids = DOMAIN f
  OBVIOUS
<1>3. \A k \in K : key[k] = rows[k].key
  BY <1>1
<1>4. ids = {key[k] : k \in K} /\ K \in SUBSET (1..8)
  BY <1>2, <1>3 DEF Amounts
<1>5. \A j, k \in K : key[j] = key[k] => j = k
  BY <1>3 DEF Amounts
<1>6. \A k \in 1..8 : a[k] = IF k \in K THEN f[key[k]] ELSE 0
  BY <1>3 DEF Amounts
<1>7. f \in [ids -> Int]
  <2>1. ASSUME NEW id \in ids PROVE f[id] \in Int
    <3>1. PICK k \in K : id = key[k]
      BY <1>4
    <3>2. f[id] = a[k] /\ k \in 1..8
      BY <1>4, <1>6, <3>1
    <3> QED
      BY <3>2
  <2> QED
    BY <1>2, <2>1 DEF Amounts
<1> QED
  BY <1>4, <1>5, <1>6, <1>7, SumOverKeys

-----------------------------------------------------------------------------
(* Pools are shared out entirely                                           *)

\* The sum that PoolsConserved is about.
AccruedOf(key) == SumOver([id \in SharesOf(key) |-> accrued[id].amount])

Conserved(key) == SharesOf(key) # {} => AccruedOf(key) = pools[key].amount

\* PoolsConserved, pool by pool.
LEMMA ConservedAll == PoolsConserved <=> \A key \in DOMAIN pools : Conserved(key)
  BY DEF PoolsConserved, Conserved, AccruedOf, SharesOf

\* ledger.ts:834: an allocation is accrued entry by entry, and adds up to the pool.
LEMMA AllocationSum ==
  ASSUME Inv, NEW key \in DOMAIN pools, NEW allocation \in Allocations, AllocatePool(key, allocation)
  PROVE  AccruedOf(key)' = pools[key].amount
<1>1. SharesOf(key) = {} /\ Allocates(allocation, pools[key].amount)
  BY Allocated
<1>2. PICK rows : /\ AreShares(rows, key, allocation) /\ Adds(accrued', accrued, rows)
                  /\ \A id \in KeysOf(rows) : id \notin DOMAIN accrued
  BY Allocated
<1>3. PICK n \in 1..8 : n = Len(allocation)
  BY <1>1 DEF Allocates, Slots, MAX_SHARES
<1>4. /\ DOMAIN rows = 1..n
      /\ \A k \in 1..n : /\ rows[k].key = <<pools[key].signature, key[2], allocation[k].to>>
                         /\ rows[k].pool = key /\ rows[k].amount = allocation[k].amount
  BY <1>2, <1>3 DEF AreShares
<1>5. \A j, k \in 1..n : rows[j].key = rows[k].key => j = k
  <2>1. \A j, k \in 1..n : allocation[j].to = allocation[k].to => j = k
    BY <1>1, <1>3 DEF Allocates
  <2>2. ASSUME NEW j \in 1..n, NEW k \in 1..n, rows[j].key = rows[k].key PROVE j = k
    <3>1. allocation[j].to = allocation[k].to
      BY <1>4, <2>2
    <3> QED
      BY <2>1, <3>1
  <2> QED
    BY <2>2
<1>6. PICK t : t = accrued'
  OBVIOUS
<1>7. /\ DOMAIN t = DOMAIN accrued \cup KeysOf(rows)
      /\ \A id \in DOMAIN accrued : t[id] = accrued[id]
      /\ \A id \in KeysOf(rows) : \E k \in 1..n : rows[k].key = id /\ t[id] = rows[k]
  BY <1>2, <1>4, <1>6 DEF Adds
<1>8. \A k \in 1..n : rows[k].key \in KeysOf(rows) /\ t[rows[k].key] = rows[k]
  <2>1. ASSUME NEW k \in 1..n PROVE rows[k].key \in KeysOf(rows) /\ t[rows[k].key] = rows[k]
    <3>1. rows[k].key \in KeysOf(rows)
      BY <1>4 DEF KeysOf
    <3>2. PICK j \in 1..n : rows[j].key = rows[k].key /\ t[rows[k].key] = rows[j]
      BY <1>7, <3>1
    <3>3. j = k
      BY <1>5, <3>2
    <3> QED
      BY <3>1, <3>2, <3>3
  <2> QED
    BY <2>1
<1>9. {id \in DOMAIN t : t[id].pool = key} = {rows[k].key : k \in 1..n}
  <2>1. ASSUME NEW id \in DOMAIN t, t[id].pool = key PROVE id \in {rows[k].key : k \in 1..n}
    <3>1. id \notin DOMAIN accrued
      BY <1>1, <1>7, <2>1 DEF SharesOf
    <3> QED
      BY <1>4, <1>7, <3>1 DEF KeysOf
  <2>2. ASSUME NEW k \in 1..n PROVE rows[k].key \in DOMAIN t /\ t[rows[k].key].pool = key
    BY <1>4, <1>7, <1>8
  <2> QED
    BY <2>1, <2>2
<1>10. PICK f : f = [id \in {rows[k].key : k \in 1..n} |-> t[id].amount]
  OBVIOUS
<1>11. PICK a : a = Padded(Column(allocation, "amount"))
  OBVIOUS
<1>12. a \in [1..8 -> Int] /\ \A k \in 1..8 : a[k] = IF k \in 1..n THEN rows[k].amount ELSE 0
  <2>1. \A k \in 1..n : allocation[k].amount \in Nat
    BY <1>3, LedgerAssumption
  <2>2. PICK c : c = Column(allocation, "amount")
    OBVIOUS
  <2>3. c = [k \in 1..n |-> allocation[k].amount]
    BY <1>3, <2>2 DEF Column
  <2>4. Len(c) = n /\ \A k \in 1..n : c[k] = allocation[k].amount
    BY <2>3
  <2>5. \A k \in 1..8 : a[k] = IF k <= n THEN c[k] ELSE 0
    BY <1>11, <2>2, <2>4 DEF Padded, Slots, MAX_SHARES
  <2>6. \A k \in 1..8 : a[k] = IF k \in 1..n THEN rows[k].amount ELSE 0
    BY <1>4, <2>4, <2>5
  <2>7. ASSUME NEW k \in 1..8 PROVE a[k] \in Int
    <3>1. CASE k <= n
      <4>1. k \in 1..n
        BY <3>1
      <4>2. a[k] = allocation[k].amount
        BY <2>4, <2>5, <3>1, <4>1
      <4> QED
        BY <2>1, <4>1, <4>2
    <3>2. CASE ~(k <= n)
      BY <2>5, <3>2
    <3> QED
      BY <3>1, <3>2
  <2>8. a = [k \in 1..8 |-> a[k]]
    BY <1>11 DEF Padded, Slots, MAX_SHARES
  <2> QED
    BY <2>6, <2>7, <2>8
<1>13. Amounts(f, rows, 1..n, a)
  <2>1. \A k \in 1..n : f[rows[k].key] = rows[k].amount
    BY <1>8, <1>10
  <2> QED
    BY <1>5, <1>10, <1>12, <2>1 DEF Amounts
<1>14. SumOver(f) = Total(a)
  BY <1>12, <1>13, AmountsAddUp
<1>15. Total(a) = pools[key].amount
  BY <1>1, <1>11 DEF Allocates
<1>16. AccruedOf(key)' = SumOver(f)
  BY <1>6, <1>9, <1>10 DEF AccruedOf, SharesOf
<1> QED
  BY <1>14, <1>15, <1>16

\* An allocation of another pool, or none, changes nothing of this one.
LEMMA ConservedStep ==
  ASSUME Inv, PoolsConserved, Next \/ UNCHANGED vars
  PROVE  PoolsConserved'
<1> SUFFICES ASSUME NEW key \in DOMAIN pools' PROVE Conserved(key)'
  BY ConservedAll DEF PoolsConserved, Conserved, AccruedOf, SharesOf
<1>1. ASSUME UNCHANGED <<pools, accrued>> PROVE Conserved(key)'
  BY <1>1, ConservedAll DEF Conserved, AccruedOf, SharesOf
<1>2. ASSUME NEW e \in Events, NEW tx \in landed, NEW s \in Scales, RecordPaid(e, tx, s)
      PROVE  Conserved(key)'
  <2>1. UNCHANGED accrued
    BY <1>2 DEF RecordPaid
  <2>2. CASE key \in DOMAIN pools
    <3>1. pools'[key] = pools[key]
      BY <1>2, <2>2, RecordedPools
    <3>2. Conserved(key)
      BY <2>2, ConservedAll
    <3> QED
      BY <2>1, <3>1, <3>2 DEF Conserved, AccruedOf, SharesOf
  <2>3. CASE key \notin DOMAIN pools
    <3>1. SharesOf(key) = {}
      BY <2>3 DEF Inv, AccruedOk, SharesOf
    <3> QED
      BY <2>1, <3>1 DEF Conserved, SharesOf
  <2> QED
    BY <2>2, <2>3
<1>3. ASSUME NEW p \in DOMAIN pools, NEW allocation \in Allocations, AllocatePool(p, allocation)
      PROVE  Conserved(key)'
  <2>1. UNCHANGED pools
    BY <1>3, Allocated
  <2>2. CASE key = p
    <3>1. AccruedOf(key)' = pools[key].amount
      BY <1>3, <2>2, AllocationSum
    <3> QED
      BY <2>1, <3>1 DEF Conserved
  <2>3. CASE key # p
    <3>1. PICK rows : /\ AreShares(rows, p, allocation) /\ Adds(accrued', accrued, rows)
                      /\ \A id \in KeysOf(rows) : id \notin DOMAIN accrued
      BY <1>3, Allocated
    <3>2. PICK t : t = accrued'
      OBVIOUS
    <3>3. \A id \in KeysOf(rows) : t[id].pool = p
      <4> SUFFICES ASSUME NEW id \in KeysOf(rows) PROVE t[id].pool = p
        OBVIOUS
      <4>1. PICK k \in DOMAIN rows : rows[k].key = id /\ t[id] = rows[k]
        BY <3>1, <3>2 DEF Adds
      <4> QED
        BY <3>1, <4>1 DEF AreShares
    <3>4. DOMAIN t = DOMAIN accrued \cup KeysOf(rows) /\ \A id \in DOMAIN accrued : t[id] = accrued[id]
      BY <3>1, <3>2 DEF Adds
    <3>5. {id \in DOMAIN t : t[id].pool = key} = SharesOf(key)
      BY <2>3, <3>3, <3>4 DEF SharesOf
    <3>6. SharesOf(key)' = SharesOf(key)
      BY <3>2, <3>5 DEF SharesOf
    <3>7. \A id \in SharesOf(key) : accrued'[id].amount = accrued[id].amount
      BY <3>2, <3>4 DEF SharesOf
    <3>8. AccruedOf(key)' = AccruedOf(key)
      BY <3>6, <3>7 DEF AccruedOf
    <3>9. Conserved(key)
      BY <2>1, ConservedAll
    <3> QED
      BY <2>1, <3>6, <3>8, <3>9 DEF Conserved
  <2> QED
    BY <2>2, <2>3
<1>4. ASSUME NEW e \in Events, NEW r \in Requests[e], Enqueue(e, r) PROVE Conserved(key)'
  BY <1>1, <1>4 DEF Enqueue
<1>5. ASSUME NEW e \in Events, NEW r \in Requests[e], NEW how \in Landings[e], Land(e, r, how)
      PROVE  Conserved(key)'
  BY <1>1, <1>5 DEF Land
<1>6. CASE UNCHANGED vars
  BY <1>1, <1>6 DEF vars
<1> QED
  BY <1>2, <1>3, <1>4, <1>5, <1>6 DEF Next

-----------------------------------------------------------------------------
(* The ledger follows the chain                                            *)

\* Where roles are apart, two shares of one role are one share, unless one is
\* pooled and the other not, or they are of different beneficiaries.
LEMMA OneRoleOneShare ==
  ASSUME NEW shares, LabelsOk(shares), RolesApart(shares),
         NEW j \in 1..Len(shares), NEW k \in 1..Len(shares),
         CanonicalRole(shares[j].label) = CanonicalRole(shares[k].label),
         \/ Pooled(shares[j]) /\ Pooled(shares[k])
         \/ /\ ~Pooled(shares[j]) /\ ~Pooled(shares[k])
            /\ Beneficiary(shares[j]) = Beneficiary(shares[k])
  PROVE  j = k
<1>1. ~(shares[j].label = "synxed" /\ shares[k].label = "platform")
  BY DEF RolesApart
<1>2. ~(shares[k].label = "synxed" /\ shares[j].label = "platform")
  BY DEF RolesApart
<1>3. shares[j].label = shares[k].label
  <2>1. PICK a, b : a = shares[j].label /\ b = shares[k].label
    OBVIOUS
  <2>2. (IF a = "synxed" THEN "platform" ELSE a) = (IF b = "synxed" THEN "platform" ELSE b)
    BY <2>1 DEF CanonicalRole
  <2>3. ~(a = "synxed" /\ b = "platform") /\ ~(b = "synxed" /\ a = "platform")
    BY <1>1, <1>2, <2>1
  <2>4. a = b
    BY <2>2, <2>3
  <2> QED
    BY <2>1, <2>4
<1> QED
  BY <1>3 DEF LabelsOk

\* Each row has a key of its own.
KeyedApart(rows) == \A j, k \in DOMAIN rows : rows[j].key = rows[k].key => j = k

\* Where roles are apart, no direct entry has the id of another.
LEMMA DirectKeysApart ==
  ASSUME NEW e, NEW r, NEW tx, NEW rows, AreDirect(rows, e, r, tx), LabelsOk(r.shares), RolesApart(r.shares)
  PROVE  KeyedApart(rows)
<1>1. PICK shares : shares = r.shares
  OBVIOUS
<1>2. LabelsOk(shares) /\ RolesApart(shares)
  BY <1>1
<1>3. ASSUME NEW j \in DOMAIN rows, NEW k \in DOMAIN rows, rows[j].key = rows[k].key
      PROVE  j = k
  <2>1. j \in 1..Len(shares) /\ k \in 1..Len(shares) /\ ~Pooled(shares[j]) /\ ~Pooled(shares[k])
    BY <1>1 DEF AreDirect
  <2>2. PICK x, y, u, v : /\ x = CanonicalRole(shares[j].label) /\ y = CanonicalRole(shares[k].label)
                          /\ u = Beneficiary(shares[j]) /\ v = Beneficiary(shares[k])
    OBVIOUS
  <2>3. rows[j].key = <<Signature(tx), x, u>> /\ rows[k].key = <<Signature(tx), y, v>>
    BY <1>1, <2>2 DEF AreDirect
  <2>4. x = y /\ u = v
    <3>1. <<Signature(tx), x, u>> = <<Signature(tx), y, v>>
      BY <1>3, <2>3, Zenon
    <3> QED
      BY <3>1
  <2>5. CanonicalRole(shares[j].label) = CanonicalRole(shares[k].label)
        /\ Beneficiary(shares[j]) = Beneficiary(shares[k])
    BY <2>2, <2>4, Zenon
  <2> QED
    BY <1>2, <2>1, <2>5, OneRoleOneShare, Zenon
<1> QED
  BY <1>3 DEF KeyedApart

\* ... nor one pool payout the key of another.
LEMMA PoolKeysApart ==
  ASSUME NEW e, NEW r, NEW tx, NEW rows, ArePooled(rows, e, r, tx), LabelsOk(r.shares), RolesApart(r.shares)
  PROVE  KeyedApart(rows)
<1>1. PICK shares : shares = r.shares
  OBVIOUS
<1>2. LabelsOk(shares) /\ RolesApart(shares)
  BY <1>1
<1>3. ASSUME NEW j \in DOMAIN rows, NEW k \in DOMAIN rows, rows[j].key = rows[k].key
      PROVE  j = k
  <2>1. j \in 1..Len(shares) /\ k \in 1..Len(shares) /\ Pooled(shares[j]) /\ Pooled(shares[k])
    BY <1>1 DEF ArePooled
  <2>2. PICK x, y : x = CanonicalRole(shares[j].label) /\ y = CanonicalRole(shares[k].label)
    OBVIOUS
  <2>3. rows[j].key = <<e, x>> /\ rows[k].key = <<e, y>>
    BY <1>1, <2>2 DEF ArePooled
  <2>4. x = y
    <3>1. <<e, x>> = <<e, y>>
      BY <1>3, <2>3, Zenon
    <3> QED
      BY <3>1
  <2>5. CanonicalRole(shares[j].label) = CanonicalRole(shares[k].label)
    BY <2>2, <2>4, Zenon
  <2> QED
    BY <1>2, <2>1, <2>5, OneRoleOneShare, Zenon
<1> QED
  BY <1>3 DEF KeyedApart

\* What rows credit to a wallet, by slots.
Credited(rows, w) ==
  [k \in 1..8 |-> IF k \in DOMAIN rows /\ rows[k].wallet = w THEN rows[k].amount ELSE 0]

RowsTyped(rows) == DOMAIN rows \subseteq 1..8 /\ \A k \in DOMAIN rows : rows[k].amount \in Int

\* The rows a table keeps credit to a wallet what their slots do.
LEMMA RowsAddUp ==
  ASSUME NEW rows, RowsTyped(rows), KeyedApart(rows), NEW table, NEW ids, Keeps(table, ids, rows), NEW w
  PROVE  /\ Credited(rows, w) \in [1..8 -> Int]
         /\ SumOver([id \in {id \in ids : table[id].wallet = w} |-> table[id].amount])
              = Total(Credited(rows, w))
<1>1. PICK K : K = {k \in DOMAIN rows : rows[k].wallet = w}
  OBVIOUS
<1>2. PICK own : own = {id \in ids : table[id].wallet = w}
  OBVIOUS
<1>3. PICK f : f = [id \in own |-> table[id].amount]
  OBVIOUS
<1>4. PICK a : a = Credited(rows, w)
  OBVIOUS
<1>5. a \in [1..8 -> Int] /\ \A k \in 1..8 : a[k] = IF k \in K THEN rows[k].amount ELSE 0
  BY <1>1, <1>4 DEF Credited, RowsTyped
<1>6. ASSUME NEW k \in DOMAIN rows PROVE rows[k].key \in ids /\ table[rows[k].key] = rows[k]
  <2>1. PICK id : id = rows[k].key
    OBVIOUS
  <2>2. id \in ids
    BY <2>1 DEF Keeps
  <2>3. PICK j \in DOMAIN rows : rows[j].key = id /\ table[id] = rows[j]
    BY <2>2 DEF Keeps
  <2>4. j = k
    BY <2>1, <2>3 DEF KeyedApart
  <2> QED
    BY <2>1, <2>2, <2>3, <2>4
<1>7. own = {rows[k].key : k \in K}
  <2>1. ASSUME NEW id \in own PROVE \E k \in K : id = rows[k].key
    <3>1. PICK k \in DOMAIN rows : rows[k].key = id /\ table[id] = rows[k]
      BY <1>2 DEF Keeps
    <3> QED
      BY <1>1, <1>2, <3>1
  <2>2. ASSUME NEW k \in K PROVE rows[k].key \in own
    BY <1>1, <1>2, <1>6
  <2> QED
    BY <2>1, <2>2
<1>8. \A k \in K : f[rows[k].key] = rows[k].amount
  BY <1>1, <1>3, <1>6, <1>7
<1>9. Amounts(f, rows, K, a)
  <2>1. K \subseteq 1..8 /\ \A j, k \in K : rows[j].key = rows[k].key => j = k
    BY <1>1 DEF RowsTyped, KeyedApart
  <2>2. DOMAIN f = own /\ f = [id \in DOMAIN f |-> f[id]]
    BY <1>3
  <2> QED
    BY <1>5, <1>7, <1>8, <2>1, <2>2 DEF Amounts
<1>10. SumOver(f) = Total(a)
  BY <1>5, <1>9, AmountsAddUp
<1> QED
  BY <1>2, <1>3, <1>4, <1>5, <1>10

\* Slot by slot, c is the sum of a and b.
SlotSums(a, b, c) == \A k \in 1..8 : a[k] \in Int /\ b[k] \in Int /\ c[k] = a[k] + b[k]

\* Totals add up slot by slot.
LEMMA TotalAdds ==
  ASSUME NEW a, NEW b, NEW c, SlotSums(a, b, c)
  PROVE  Total(a) + Total(b) = Total(c)
<1>1. \A k \in 1..8 : a[k] \in Int /\ b[k] \in Int /\ c[k] = a[k] + b[k]
  BY DEF SlotSums
<1>a1. PICK a1 \in Int : a1 = a[1]
  BY <1>1
<1>a2. PICK a2 \in Int : a2 = a[2]
  BY <1>1
<1>a3. PICK a3 \in Int : a3 = a[3]
  BY <1>1
<1>a4. PICK a4 \in Int : a4 = a[4]
  BY <1>1
<1>a5. PICK a5 \in Int : a5 = a[5]
  BY <1>1
<1>a6. PICK a6 \in Int : a6 = a[6]
  BY <1>1
<1>a7. PICK a7 \in Int : a7 = a[7]
  BY <1>1
<1>a8. PICK a8 \in Int : a8 = a[8]
  BY <1>1
<1>b1. PICK b1 \in Int : b1 = b[1]
  BY <1>1
<1>b2. PICK b2 \in Int : b2 = b[2]
  BY <1>1
<1>b3. PICK b3 \in Int : b3 = b[3]
  BY <1>1
<1>b4. PICK b4 \in Int : b4 = b[4]
  BY <1>1
<1>b5. PICK b5 \in Int : b5 = b[5]
  BY <1>1
<1>b6. PICK b6 \in Int : b6 = b[6]
  BY <1>1
<1>b7. PICK b7 \in Int : b7 = b[7]
  BY <1>1
<1>b8. PICK b8 \in Int : b8 = b[8]
  BY <1>1
<1>3. /\ c[1] = a1 + b1 /\ c[2] = a2 + b2 /\ c[3] = a3 + b3 /\ c[4] = a4 + b4
      /\ c[5] = a5 + b5 /\ c[6] = a6 + b6 /\ c[7] = a7 + b7 /\ c[8] = a8 + b8
  BY <1>1, <1>a1, <1>a2, <1>a3, <1>a4, <1>a5, <1>a6, <1>a7, <1>a8,
     <1>b1, <1>b2, <1>b3, <1>b4, <1>b5, <1>b6, <1>b7, <1>b8
<1>4. Total(a) = a1 + a2 + a3 + a4 + a5 + a6 + a7 + a8
  BY <1>a1, <1>a2, <1>a3, <1>a4, <1>a5, <1>a6, <1>a7, <1>a8 DEF Total
<1>5. Total(b) = b1 + b2 + b3 + b4 + b5 + b6 + b7 + b8
  BY <1>b1, <1>b2, <1>b3, <1>b4, <1>b5, <1>b6, <1>b7, <1>b8 DEF Total
<1>6. Total(c) = (a1 + b1) + (a2 + b2) + (a3 + b3) + (a4 + b4) + (a5 + b5) + (a6 + b6) + (a7 + b7) + (a8 + b8)
  BY <1>3 DEF Total
<1> QED
  BY <1>4, <1>5, <1>6

\* Direct and pooled, the shares are all.
LEMMA RowsCoverShares ==
  ASSUME NEW e, NEW r, NEW tx, Accepted(tx), NEW direct, AreDirect(direct, e, r, tx),
         NEW pooled, ArePooled(pooled, e, r, tx), ToShares(Len(r.shares), tx.to, r.shares), NEW w
  PROVE  /\ RowsTyped(direct) /\ RowsTyped(pooled)
         /\ Total(Credited(direct, w)) + Total(Credited(pooled, w)) = Received(tx, w)
<1>1. PICK n \in 1..8 : n = Len(tx.to)
  BY PaysTyped
<1>2. PICK pays \in [1..8 -> Nat] : pays = Payouts(tx.amount, tx.bps)
  BY PaysTyped
<1>3. PICK shares : shares = r.shares
  OBVIOUS
<1>4. Len(shares) = n /\ \A k \in 1..n : tx.to[k] = shares[k].recipient
  BY <1>1, <1>3 DEF ToShares
<1>5. /\ DOMAIN direct = {k \in 1..n : ~Pooled(shares[k])}
      /\ \A k \in DOMAIN direct : direct[k].wallet = tx.to[k] /\ direct[k].amount = pays[k]
  BY <1>2, <1>3, <1>4 DEF AreDirect
<1>6. /\ DOMAIN pooled = {k \in 1..n : Pooled(shares[k])}
      /\ \A k \in DOMAIN pooled : pooled[k].wallet = tx.to[k] /\ pooled[k].amount = pays[k]
  BY <1>2, <1>3, <1>4 DEF ArePooled
<1>7. \A k \in 1..8 : /\ pays[k] \in Int
                      /\ k \in DOMAIN direct <=> k <= n /\ ~Pooled(shares[k])
                      /\ k \in DOMAIN pooled <=> k <= n /\ Pooled(shares[k])
  <2>1. \A k \in 1..8 : pays[k] \in Int /\ (k \in 1..n <=> k <= n)
    OBVIOUS
  <2> QED
    BY <1>5, <1>6, <2>1
<1>8. RowsTyped(direct) /\ RowsTyped(pooled)
  <2>1. \A k \in 1..n : k \in 1..8
    OBVIOUS
  <2> QED
    BY <1>5, <1>6, <1>7, <2>1 DEF RowsTyped
<1>9. PICK a, b, c : a = Credited(direct, w) /\ b = Credited(pooled, w) /\ c = To(pays, tx.to, w)
  OBVIOUS
<1>10. ASSUME NEW k \in 1..8
       PROVE  /\ a[k] = IF k \in DOMAIN direct /\ direct[k].wallet = w THEN direct[k].amount ELSE 0
              /\ b[k] = IF k \in DOMAIN pooled /\ pooled[k].wallet = w THEN pooled[k].amount ELSE 0
              /\ c[k] = IF k <= n /\ tx.to[k] = w THEN pays[k] ELSE 0
  BY <1>1, <1>9 DEF Credited, To
<1>11. ASSUME NEW k \in 1..8
       PROVE  a[k] \in Int /\ b[k] \in Int /\ c[k] = a[k] + b[k]
  <2>1. PICK p \in Int : p = pays[k]
    BY <1>7
  <2>2. CASE k \in DOMAIN direct
    <3>1. k <= n /\ k \notin DOMAIN pooled /\ direct[k].wallet = tx.to[k] /\ direct[k].amount = p
      BY <1>5, <1>7, <2>1, <2>2
    <3>2. b[k] = 0 /\ a[k] = (IF tx.to[k] = w THEN p ELSE 0) /\ c[k] = IF tx.to[k] = w THEN p ELSE 0
      BY <1>10, <2>1, <2>2, <3>1
    <3> QED
      BY <3>2
  <2>3. CASE k \in DOMAIN pooled
    <3>1. k <= n /\ k \notin DOMAIN direct /\ pooled[k].wallet = tx.to[k] /\ pooled[k].amount = p
      BY <1>6, <1>7, <2>1, <2>3
    <3>2. a[k] = 0 /\ b[k] = (IF tx.to[k] = w THEN p ELSE 0) /\ c[k] = IF tx.to[k] = w THEN p ELSE 0
      BY <1>10, <2>1, <2>3, <3>1
    <3> QED
      BY <3>2
  <2>4. CASE k \notin DOMAIN direct /\ k \notin DOMAIN pooled
    <3>1. ~(k <= n)
      BY <1>7, <2>4
    <3>2. a[k] = 0 /\ b[k] = 0 /\ c[k] = 0
      BY <1>10, <2>4, <3>1
    <3> QED
      BY <3>2
  <2> QED
    BY <2>2, <2>3, <2>4
<1>12. Total(a) + Total(b) = Total(c)
  <2>1. SlotSums(a, b, c)
    BY <1>11 DEF SlotSums
  <2> QED
    BY <2>1, TotalAdds
<1>13. Received(tx, w) = Total(c)
  BY <1>2, <1>9, ReceivedTotal
<1> QED
  BY <1>8, <1>9, <1>12, <1>13

\* What one settlement paid.
LEMMA PaidOne ==
  ASSUME NEW tx, NEW w, Received(tx, w) \in Int
  PROVE  PaidInto({tx}, w) = Received(tx, w)
<1>1. PICK v \in Int : v = Received(tx, w)
  OBVIOUS
<1>2. PICK f : f = [t \in {tx} |-> Received(t, w)]
  OBVIOUS
<1>3. IsFiniteSet({tx}) /\ tx \in {tx}
  BY FS_Singleton
<1>4. f \in [{tx} -> Int] /\ \A x \in {tx} : f[x] = IF x = tx THEN v ELSE 0
  BY <1>1, <1>2
<1>6. SumOf(f) = v
  BY <1>3, <1>4, SumPoint
<1>7. SumOver(f) = SumOf(f)
  BY SumOverIsSum
<1> QED
  BY <1>1, <1>2, <1>6, <1>7 DEF PaidInto

\* A sum over nothing.
LEMMA SumOverNothing ==
  ASSUME NEW f \in [{} -> Int]
  PROVE  SumOver(f) = 0
<1>1. IsFiniteSet({}) /\ \A x \in {} : f[x] = 0
  BY FS_EmptySet
<1>2. SumOf(f) = 0
  BY <1>1, SumZero
<1> QED
  BY <1>2, SumOverIsSum

\* The rows of an event credit what its settlement moved.
Follows(e, w) ==
  LET own == {id \in DOMAIN entries : entries[id].event = e /\ entries[id].wallet = w}
      shared == {key \in DOMAIN pools : key[1] = e /\ pools[key].wallet = w}
  IN SumOver([id \in own |-> entries[id].amount]) + SumOver([key \in shared |-> pools[key].amount])
       = PaidInto(settlements[e], w)

\* Nothing was moved for an event that has no settlement, and it has no rows.
LEMMA UnpaidFollows ==
  ASSUME Inv, NEW e \in Events, NEW w, settlements[e] = {}
  PROVE  Follows(e, w)
<1>1. EntriesOf(e) = {} /\ PoolsOf(e) = {}
  BY DEF Inv, RowsOk
<1>2. PICK own, shared : /\ own = {id \in DOMAIN entries : entries[id].event = e /\ entries[id].wallet = w}
                         /\ shared = {key \in DOMAIN pools : key[1] = e /\ pools[key].wallet = w}
  OBVIOUS
<1>3. PICK f, g, h : /\ f = [id \in {} |-> entries[id].amount]
                     /\ g = [key \in {} |-> pools[key].amount]
                     /\ h = [tx \in {} |-> Received(tx, w)]
  OBVIOUS
<1>4. f \in [{} -> Int] /\ g \in [{} -> Int] /\ h \in [{} -> Int]
  BY <1>3
<1>5. SumOver(f) = 0 /\ SumOver(g) = 0 /\ SumOver(h) = 0
  BY <1>4, SumOverNothing
<1>6. PaidInto(settlements[e], w) = 0
  BY <1>3, <1>5 DEF PaidInto
<1>7. own = {} /\ shared = {}
  BY <1>1, <1>2 DEF EntriesOf, PoolsOf
<1>8. /\ [id \in own |-> entries[id].amount] = f
      /\ [key \in shared |-> pools[key].amount] = g
  BY <1>3, <1>7
<1>9. SumOver([id \in own |-> entries[id].amount]) = 0 /\ SumOver([key \in shared |-> pools[key].amount]) = 0
  BY <1>5, <1>8, Zenon
<1> QED
  BY <1>2, <1>6, <1>9 DEF Follows

\* An event that is paid has the rows of its settlement, all of them.
LEMMA PaidFollows ==
  ASSUME Inv, NEW e \in Events, NEW w, NEW tx \in settlements[e], RolesApart(requests[e].shares)
  PROVE  Follows(e, w)
<1>1. PICK r : r = requests[e]
  OBVIOUS
<1>2. PICK direct, pooled : direct = DirectEntries(e, r, tx) /\ pooled = PoolPayouts(e, r, tx)
  OBVIOUS
<1>3. PICK s \in Scales : Reconciles(tx, e, r, s)
  BY <1>1 DEF Inv, PaidOk
<1>4. tx \in landed /\ r \in Requests[e]
  BY <1>1 DEF Inv, PaidOk, RequestsOk
<1>5. Accepted(tx)
  BY <1>4 DEF Inv, LandedOk
<1>6. LabelsOk(r.shares) /\ tx.to = Column(r.shares, "recipient")
  BY <1>3, ReconciledFacts
<1>7. AreDirect(direct, e, r, tx) /\ ArePooled(pooled, e, r, tx) /\ ToShares(Len(r.shares), tx.to, r.shares)
  <2>1. Len(r.shares) \in Nat
    BY <1>4, RequestFacts
  <2>2. AreDirect(direct, e, r, tx) /\ ArePooled(pooled, e, r, tx)
    BY <1>2, <2>1, DirectRows, PoolRows
  <2>3. ToShares(Len(r.shares), tx.to, r.shares)
    BY <1>6, <2>1, ColumnFacts DEF ToShares
  <2> QED
    BY <2>2, <2>3
<1>8. KeyedApart(direct) /\ KeyedApart(pooled)
  BY <1>1, <1>6, <1>7, DirectKeysApart, PoolKeysApart
<1>9. Keeps(entries, EntriesOf(e), direct) /\ Keeps(pools, PoolsOf(e), pooled)
  BY <1>1, <1>2 DEF Inv, RowsOk
<1>10. /\ RowsTyped(direct) /\ RowsTyped(pooled)
       /\ Total(Credited(direct, w)) + Total(Credited(pooled, w)) = Received(tx, w)
  BY <1>5, <1>7, RowsCoverShares
<1>11. PICK own, shared : /\ own = {id \in EntriesOf(e) : entries[id].wallet = w}
                          /\ shared = {key \in PoolsOf(e) : pools[key].wallet = w}
  OBVIOUS
<1>12. /\ Credited(direct, w) \in [1..8 -> Int]
       /\ SumOver([id \in {id \in EntriesOf(e) : entries[id].wallet = w} |-> entries[id].amount])
            = Total(Credited(direct, w))
  BY <1>8, <1>9, <1>10, RowsAddUp
<1>13. /\ Credited(pooled, w) \in [1..8 -> Int]
       /\ SumOver([key \in {key \in PoolsOf(e) : pools[key].wallet = w} |-> pools[key].amount])
            = Total(Credited(pooled, w))
  BY <1>8, <1>9, <1>10, RowsAddUp
<1>14. SumOver([id \in own |-> entries[id].amount]) + SumOver([key \in shared |-> pools[key].amount])
         = Received(tx, w)
  BY <1>10, <1>11, <1>12, <1>13
<1>15. PaidInto(settlements[e], w) = Received(tx, w)
  <2>1. settlements[e] = {tx}
    BY <1>1, <1>3, <1>4, OneSettlement
  <2>2. Received(tx, w) \in Int
    <3>1. \A f \in [1..8 -> Int] : Total(f) \in Int
      BY DEF Total
    <3>2. Total(Credited(direct, w)) \in Int /\ Total(Credited(pooled, w)) \in Int
      BY <1>12, <1>13, <3>1
    <3> QED
      BY <1>10, <3>2
  <2> QED
    BY <2>1, <2>2, PaidOne
<1>16. /\ own = {id \in DOMAIN entries : entries[id].event = e /\ entries[id].wallet = w}
       /\ shared = {key \in DOMAIN pools : key[1] = e /\ pools[key].wallet = w}
  BY <1>11 DEF EntriesOf, PoolsOf
<1> QED
  BY <1>14, <1>15, <1>16 DEF Follows

\* LedgerFollowsChain follows from the invariant.
LEMMA FollowsOfInv == Inv => LedgerFollowsChain
<1> SUFFICES ASSUME Inv, NEW e \in Events, NEW w \in Wallets,
                    settlements[e] # {} => RolesApart(requests[e].shares)
             PROVE  Follows(e, w)
  BY DEF LedgerFollowsChain, Follows
<1>1. CASE settlements[e] = {}
  BY <1>1, UnpaidFollows
<1>2. CASE settlements[e] # {}
  <2>1. PICK tx \in settlements[e] : TRUE
    BY <1>2
  <2> QED
    BY <1>2, <2>1, PaidFollows
<1> QED
  BY <1>1, <1>2

-----------------------------------------------------------------------------
(* The theorems about the payout ledger                                    *)

\* The invariant holds.
LEMMA InvHolds == Spec => []Inv
<1>1. Init => Inv
  BY InitInv
<1>2. Inv /\ [Next]_vars => Inv'
  BY NextInv
<1> QED
  BY <1>1, <1>2, PTL DEF Spec

\* store.ts:329-333, ledger.ts:388-454: an event is recorded as paid only from its own
\* settlement, in the ledger's namespace and tokens, and only when this moved to every
\* wallet what the request asks for.
THEOREM PaysAsAsked == Spec => []PaidAsAsked
<1>1. Inv => PaidAsAsked
  BY PaidOfInv
<1> QED
  BY <1>1, InvHolds, PTL

\* ledger.ts:437-454: a settlement with the fields of the request always reconciles.
\* The comparison of transfers never fails by itself: not by a prefunded record, a
\* share of nothing, a wallet paid twice or a payer that is a recipient.
THEOREM OwnSettlementsReconcile == Spec => []OwnReconciles
<1>1. Inv => OwnReconciles
  BY OwnOfInv
<1> QED
  BY <1>1, InvHolds, PTL

\* docs/payout-ledger.md, "Reconciliation": the rows of a paid event, entries and
\* pools together, credit to every wallet what the chain moved into it, however often
\* and by however many workers it is recorded. (Of two shares that become one role,
\* see RolesApart.)
THEOREM RowsFollowChain == Spec => []LedgerFollowsChain
<1>1. Inv => LedgerFollowsChain
  BY FollowsOfInv
<1> QED
  BY <1>1, InvHolds, PTL

\* ledger.ts:834: what callers accrue out of a pool adds up to the pool.
THEOREM PoolsSharedOut == Spec => []PoolsConserved
<1>1. Init => PoolsConserved
  BY DEF Init, PoolsConserved
<1>2. Inv /\ PoolsConserved /\ [Next]_vars => PoolsConserved'
  BY ConservedStep
<1> QED
  BY <1>1, <1>2, InvHolds, PTL DEF Spec

-----------------------------------------------------------------------------
(* The record's history: the entries of a sequence at some positions       *)

\* The function that Only is the last value of.
Picks(f, s, K) ==
  f = [n \in 0..Len(s) |-> IF n = 0 THEN <<>>
                           ELSE IF n \in K THEN Append(f[n - 1], s[n]) ELSE f[n - 1]]

\* ... up to position m.
PicksTo(m, f, S, s, K) ==
  /\ f \in [0..m -> Seq(S)]
  /\ f[0] = <<>>
  /\ \A n \in 1..m : f[n] = IF n \in K THEN Append(f[n - 1], s[n]) ELSE f[n - 1]

\* One position more.
LEMMA PicksMore ==
  ASSUME NEW S, NEW s \in Seq(S), NEW K, NEW m \in 1..Len(s), NEW g, PicksTo(m - 1, g, S, s, K)
  PROVE  \E f : PicksTo(m, f, S, s, K)
<1>1. m \in Nat /\ Len(s) \in Nat /\ s[m] \in S /\ m - 1 \in 0..(m - 1)
  BY LenProperties, ElementOfSeq
<1>2. /\ g \in [0..(m - 1) -> Seq(S)] /\ g[0] = <<>>
      /\ \A n \in 1..(m - 1) : g[n] = IF n \in K THEN Append(g[n - 1], s[n]) ELSE g[n - 1]
  BY DEF PicksTo
<1>3. PICK last : last = IF m \in K THEN Append(g[m - 1], s[m]) ELSE g[m - 1]
  OBVIOUS
<1>4. g[m - 1] \in Seq(S)
  BY <1>1, <1>2
<1>5. last \in Seq(S)
  BY <1>1, <1>3, <1>4, AppendProperties
<1>6. PICK f : f = [n \in 0..m |-> IF n = m THEN last ELSE g[n]]
  OBVIOUS
<1>7. \A n \in 0..(m - 1) : f[n] = g[n] /\ n # m /\ n \in 0..m
  BY <1>1, <1>6
<1>8. f[m] = last
  BY <1>1, <1>6
<1>9. f \in [0..m -> Seq(S)]
  BY <1>1, <1>2, <1>5, <1>6
<1>10. ASSUME NEW n \in 1..m
       PROVE  f[n] = IF n \in K THEN Append(f[n - 1], s[n]) ELSE f[n - 1]
  <2>1. n - 1 \in 0..(m - 1) /\ f[n - 1] = g[n - 1]
    BY <1>1, <1>7
  <2>2. CASE n = m
    BY <1>3, <1>8, <2>1, <2>2
  <2>3. CASE n # m
    <3>1. n \in 1..(m - 1) /\ n \in 0..(m - 1)
      BY <1>1, <2>3
    <3> QED
      BY <1>2, <1>7, <2>1, <3>1
  <2> QED
    BY <2>2, <2>3
<1>11. f[0] = <<>>
  BY <1>1, <1>2, <1>7
<1> QED
  BY <1>9, <1>10, <1>11 DEF PicksTo

\* There is such a function, of sequences.
LEMMA PicksExist ==
  ASSUME NEW S, NEW s \in Seq(S), NEW K
  PROVE  \E f : PicksTo(Len(s), f, S, s, K)
<1> DEFINE P == {n \in 0..Len(s) : \E f : PicksTo(n, f, S, s, K)}
<1>1. Len(s) \in Nat
  BY LenProperties
<1>2. 0 \in P
  <2>1. PICK f : f = [n \in 0..0 |-> <<>>]
    OBVIOUS
  <2>2. f \in [0..0 -> Seq(S)] /\ f[0] = <<>>
    BY <2>1
  <2>3. PicksTo(0, f, S, s, K)
    BY <2>2 DEF PicksTo
  <2> QED
    BY <1>1, <2>3
<1>3. ASSUME NEW n \in 1..Len(s), n - 1 \in P PROVE n \in P
  <2>1. PICK g : PicksTo(n - 1, g, S, s, K)
    BY <1>3
  <2>2. \E f : PicksTo(n, f, S, s, K)
    BY <2>1, PicksMore
  <2> QED
    BY <1>1, <2>2
<1> HIDE DEF P
<1>4. Len(s) \in P
  <2>1. \A n \in 0..Len(s) : n \in P
    BY <1>1, <1>2, <1>3, CountInduction
  <2> QED
    BY <1>1, <2>1
<1> QED
  BY <1>4 DEF P

\* Only is its last value.
LEMMA OnlyPicks ==
  ASSUME NEW S, NEW s \in Seq(S), NEW K
  PROVE  \E f : PicksTo(Len(s), f, S, s, K) /\ Only(s, K) = f[Len(s)]
<1>1. Len(s) \in Nat
  BY LenProperties
<1>2. PICK g : PicksTo(Len(s), g, S, s, K)
  BY PicksExist
<1>3. Picks(g, s, K)
  <2>1. g = [n \in 0..Len(s) |-> g[n]]
    BY <1>2 DEF PicksTo
  <2>2. \A n \in 0..Len(s) : g[n] = IF n = 0 THEN <<>>
                           ELSE IF n \in K THEN Append(g[n - 1], s[n]) ELSE g[n - 1]
    <3>1. g[0] = <<>> /\ \A n \in 1..Len(s) : g[n] = IF n \in K THEN Append(g[n - 1], s[n]) ELSE g[n - 1]
      BY <1>2 DEF PicksTo
    <3>2. \A n \in 0..Len(s) : n = 0 \/ (n # 0 /\ n \in 1..Len(s))
      BY <1>1
    <3> QED
      BY <3>1, <3>2
  <2> QED
    BY <2>1, <2>2 DEF Picks
<1>4. PICK f : f = CHOOSE h : Picks(h, s, K)
  OBVIOUS
<1>5. Picks(f, s, K)
  BY <1>3, <1>4
<1>6. Only(s, K) = f[Len(s)]
  BY <1>4, Zenon DEF Only, Picks
<1>7. \A n \in 0..Len(s) : f[n] = g[n]
  <2> DEFINE P == {n \in 0..Len(s) : f[n] = g[n]}
  <2>1. f[0] = <<>> /\ \A n \in 1..Len(s) : f[n] = IF n \in K THEN Append(f[n - 1], s[n]) ELSE f[n - 1]
    <3>1. \A n \in 0..Len(s) : f[n] = IF n = 0 THEN <<>>
                           ELSE IF n \in K THEN Append(f[n - 1], s[n]) ELSE f[n - 1]
      BY <1>5 DEF Picks
    <3> QED
      BY <1>1, <3>1
  <2>2. g[0] = <<>> /\ \A n \in 1..Len(s) : g[n] = IF n \in K THEN Append(g[n - 1], s[n]) ELSE g[n - 1]
    BY <1>2 DEF PicksTo
  <2>3. 0 \in P
    BY <1>1, <2>1, <2>2
  <2>4. ASSUME NEW n \in 1..Len(s), n - 1 \in P PROVE n \in P
    BY <1>1, <2>1, <2>2, <2>4
  <2> HIDE DEF P
  <2>5. \A n \in 0..Len(s) : n \in P
    BY <1>1, <2>3, <2>4, CountInduction
  <2> QED
    BY <2>5 DEF P
<1>8. f[Len(s)] = g[Len(s)]
  BY <1>1, <1>7
<1> QED
  BY <1>2, <1>6, <1>8

\* The positions that Only takes entries from, in their order.
Places(e, t, s, n, K) ==
  /\ e \in [1..Len(t) -> {k \in 1..n : k \in K}]
  /\ \A j \in 1..Len(t) : t[j] = s[e[j]]
  /\ \A i, j \in 1..Len(t) : i < j => e[i] < e[j]
  /\ \A k \in 1..n : k \in K => \E j \in 1..Len(t) : e[j] = k

\* The positions taken, one position more.
LEMMA PlacesMore ==
  ASSUME NEW S, NEW s \in Seq(S), NEW K, NEW n \in 1..Len(s), NEW t \in Seq(S), NEW e,
         Places(e, t, s, n - 1, K), n \in K
  PROVE  \E d : Places(d, Append(t, s[n]), s, n, K)
<1>1. /\ Len(s) \in Nat /\ n \in Nat /\ n - 1 \in Nat /\ Len(t) \in Nat /\ s[n] \in S
  BY LenProperties, ElementOfSeq
<1>2. PICK u : u = Append(t, s[n])
  OBVIOUS
<1>3. PICK m \in Nat : m = Len(t)
  BY <1>1
<1>4. Len(u) = m + 1 /\ u[m + 1] = s[n] /\ \A j \in 1..m : u[j] = t[j]
  BY <1>1, <1>2, <1>3, AppendProperties
<1>5. PICK d : d = [j \in 1..(m + 1) |-> IF j = m + 1 THEN n ELSE e[j]]
  OBVIOUS
<1>6. /\ e \in [1..m -> {k \in 1..(n - 1) : k \in K}]
      /\ \A j \in 1..m : t[j] = s[e[j]]
      /\ \A i, j \in 1..m : i < j => e[i] < e[j]
      /\ \A k \in 1..(n - 1) : k \in K => \E j \in 1..m : e[j] = k
  BY <1>3 DEF Places
<1>7. d[m + 1] = n /\ \A j \in 1..m : d[j] = e[j] /\ e[j] \in 1..(n - 1) /\ e[j] \in K
  BY <1>5, <1>6
<1>8. \A j \in 1..(m + 1) : j = m + 1 \/ j \in 1..m
  OBVIOUS
<1>9. \A j \in 1..(m + 1) : d[j] \in {k \in 1..n : k \in K}
  BY <1>1, <1>7, <1>8
<1>10. d \in [1..(m + 1) -> {k \in 1..n : k \in K}]
  BY <1>5, <1>9
<1>11. \A j \in 1..(m + 1) : u[j] = s[d[j]]
  BY <1>4, <1>6, <1>7, <1>8
<1>12. ASSUME NEW i \in 1..(m + 1), NEW j \in 1..(m + 1), i < j PROVE d[i] < d[j]
  <2>1. i \in 1..m
    BY <1>12
  <2>2. d[i] = e[i] /\ e[i] \in 1..(n - 1)
    BY <1>7, <2>1
  <2>3. CASE j = m + 1
    BY <1>1, <1>7, <2>2, <2>3
  <2>4. CASE j \in 1..m
    BY <1>6, <1>7, <1>12, <2>1, <2>4
  <2> QED
    BY <1>8, <2>3, <2>4
<1>13. ASSUME NEW k \in 1..n, k \in K PROVE \E j \in 1..(m + 1) : d[j] = k
  <2>1. CASE k = n
    BY <1>7, <2>1
  <2>2. CASE k # n
    <3>1. k \in 1..(n - 1)
      BY <1>1, <2>2
    <3>2. PICK j \in 1..m : e[j] = k
      BY <1>6, <1>13, <3>1
    <3> QED
      BY <1>7, <3>2
  <2> QED
    BY <2>1, <2>2
<1>14. Places(d, u, s, n, K)
  BY <1>4, <1>10, <1>11, <1>12, <1>13 DEF Places
<1> QED
  BY <1>2, <1>14

\* Only takes every entry at a position of K, once and in order.
LEMMA OnlyInOrder ==
  ASSUME NEW S, NEW s \in Seq(S), NEW K
  PROVE  /\ Only(s, K) \in Seq(S)
         /\ \E e : Places(e, Only(s, K), s, Len(s), K)
<1>1. PICK f : PicksTo(Len(s), f, S, s, K) /\ Only(s, K) = f[Len(s)]
  BY OnlyPicks
<1>2. Len(s) \in Nat /\ f \in [0..Len(s) -> Seq(S)] /\ f[0] = <<>>
      /\ \A n \in 1..Len(s) : f[n] = IF n \in K THEN Append(f[n - 1], s[n]) ELSE f[n - 1]
  BY <1>1, LenProperties DEF PicksTo
<1> DEFINE P == {n \in 0..Len(s) : \E e : Places(e, f[n], s, n, K)}
<1>3. 0 \in P
  <2>1. PICK t : t = f[0]
    OBVIOUS
  <2>2. t = <<>> /\ Len(t) = 0
    BY <1>2, <2>1
  <2>3. PICK e : e = [j \in 1..Len(t) |-> j]
    OBVIOUS
  <2>4. Places(e, t, s, 0, K)
    BY <2>2, <2>3 DEF Places
  <2> QED
    BY <1>2, <2>1, <2>4
<1>4. ASSUME NEW n \in 1..Len(s), n - 1 \in P PROVE n \in P
  <2>1. PICK e : Places(e, f[n - 1], s, n - 1, K)
    BY <1>4
  <2>2. f[n - 1] \in Seq(S) /\ n \in 0..Len(s) /\ n \in Nat
    BY <1>2
  <2>3. CASE n \in K
    <3>1. f[n] = Append(f[n - 1], s[n])
      BY <1>2, <2>3
    <3>2. \E d : Places(d, Append(f[n - 1], s[n]), s, n, K)
      BY <2>1, <2>2, <2>3, PlacesMore
    <3> QED
      BY <2>2, <3>1, <3>2
  <2>4. CASE n \notin K
    <3>1. PICK t \in Seq(S) : t = f[n - 1]
      BY <2>2
    <3>2. f[n] = t
      BY <1>2, <2>4, <3>1
    <3>3. {k \in 1..n : k \in K} = {k \in 1..(n - 1) : k \in K}
      BY <2>2, <2>4
    <3>4. Places(e, t, s, n - 1, K)
      BY <2>1, <3>1
    <3>5. /\ e \in [1..Len(t) -> {k \in 1..n : k \in K}]
          /\ \A j \in 1..Len(t) : t[j] = s[e[j]]
          /\ \A i, j \in 1..Len(t) : i < j => e[i] < e[j]
      BY <3>3, <3>4 DEF Places
    <3>6. ASSUME NEW k \in 1..n, k \in K PROVE \E j \in 1..Len(t) : e[j] = k
      <4>1. k \in 1..(n - 1)
        BY <3>3, <3>6
      <4> QED
        BY <3>4, <3>6, <4>1 DEF Places
    <3>7. Places(e, t, s, n, K)
      BY <3>5, <3>6 DEF Places
    <3> QED
      BY <2>2, <3>2, <3>7
  <2> QED
    BY <2>3, <2>4
<1> HIDE DEF P
<1>5. \A n \in 0..Len(s) : n \in P
  BY <1>2, <1>3, <1>4, CountInduction
<1>6. Len(s) \in P /\ f[Len(s)] \in Seq(S)
  BY <1>2, <1>5
<1> QED
  BY <1>1, <1>6 DEF P
-----------------------------------------------------------------------------
(* What the reader holds                                                   *)

Results == {"none", "found", "ambiguous", "capped", "unreadable"}

Rows(h) == [signature : 1..Len(h), kind : Kinds]

TypeOK ==
  /\ history \in Seq(Kinds) /\ archival \in BOOLEAN /\ kept \in Nat \ {0}
  /\ pc \in {"page", "batch", "done"} /\ result \in Results
  /\ before \in 0..Len(history) /\ snapshot \in 0..Len(history)
  /\ read \in Nat /\ limit \in Nat /\ start \in Nat \ {0}
  /\ page \in Seq(1..Len(history))
  /\ matches \in Seq(Rows(history))

\* A successful settlement.
Candidate(h, p) == Succeeds(h[p]) /\ Settles(h[p])

\* What was listed as a match is one.
MatchesOk ==
  \A i \in 1..Len(matches) :
    /\ matches[i].kind = history[matches[i].signature]
    /\ Candidate(history, matches[i].signature)

\* The reader stays below its cap while it reads.
ReadOk ==
  /\ pc # "done" => read < MaxSignatures /\ result = "none"
  /\ pc = "batch" => limit = Limit /\ Len(page) <= limit
  /\ result = "found" => Len(matches) = 1

\* The constants are positive.
LEMMA Constants ==
  /\ PageSize \in Nat \ {0} /\ BatchSize \in Nat \ {0} /\ MaxSignatures \in Nat \ {0}
  BY HistoryAssumption

\* Least is the smaller one.
LEMMA LeastFacts ==
  ASSUME NEW a \in Nat, NEW b \in Nat
  PROVE  /\ Least(a, b) \in Nat /\ Least(a, b) <= a /\ Least(a, b) <= b
         /\ Least(a, b) = a \/ Least(a, b) = b
  BY DEF Least

\* While the cap is not reached, there is something to ask for.
LEMMA LimitFacts ==
  ASSUME read \in Nat, read < MaxSignatures
  PROVE  Limit \in Nat \ {0} /\ Limit <= MaxSignatures - read
<1>1. MaxSignatures - read \in Nat /\ MaxSignatures - read > 0 /\ PageSize \in Nat \ {0}
  BY Constants
<1> QED
  BY <1>1, LeastFacts DEF Limit, Least

\* A step leaves the history as it is, or adds one entry in front.
LEMMA HistoryGrows ==
  ASSUME history \in Seq(Kinds), HistoryNext \/ UNCHANGED historyVars
  PROVE  /\ history' \in Seq(Kinds)
         /\ Len(history) \in Nat /\ Len(history') \in Nat /\ Len(history) <= Len(history')
         /\ \A p \in 1..Len(history) : history'[p] = history[p]
<1>1. Len(history) \in Nat
  BY LenProperties
<1>2. ASSUME NEW kind \in Kinds, AddEntry(kind)
      PROVE  /\ history' \in Seq(Kinds) /\ Len(history') = Len(history) + 1
             /\ \A p \in 1..Len(history) : history'[p] = history[p]
  <2>1. PICK h : h = Append(history, kind)
    OBVIOUS
  <2>2. h \in Seq(Kinds) /\ Len(h) = Len(history) + 1 /\ \A p \in 1..Len(history) : h[p] = history[p]
    BY <2>1, AppendProperties
  <2>3. history' = h
    BY <1>2, <2>1 DEF AddEntry
  <2> QED
    BY <2>2, <2>3
<1>3. ASSUME ~ \E kind \in Kinds : AddEntry(kind) PROVE history' = history
  BY <1>3 DEF HistoryNext, Prune, ReadPage, ReadBatch, Unreadable, EndPage, historyVars
<1> QED
  BY <1>1, <1>2, <1>3

\* Nothing listed in what was read changes by it.
LEMMA Widened ==
  ASSUME TypeOK, HistoryNext \/ UNCHANGED historyVars
  PROVE  /\ page \in Seq(1..Len(history')) /\ matches \in Seq(Rows(history'))
         /\ before \in 0..Len(history') /\ snapshot \in 0..Len(history')
<1>1. Len(history) \in Nat /\ Len(history') \in Nat /\ Len(history) <= Len(history')
  BY HistoryGrows DEF TypeOK
<1>2. 1..Len(history) \subseteq 1..Len(history')
  BY <1>1
<1>3. page \in Seq(1..Len(history'))
  BY <1>2, SeqMonotonic DEF TypeOK
<1>4. Rows(history) \subseteq Rows(history')
  BY <1>2 DEF Rows
<1>5. matches \in Seq(Rows(history'))
  BY <1>4, SeqMonotonic DEF TypeOK
<1> QED
  BY <1>1, <1>3, <1>5 DEF TypeOK

\* A match of a shorter history is one of a longer.
LEMMA MatchTyped ==
  ASSUME TypeOK, NEW i \in 1..Len(matches)
  PROVE  matches[i].signature \in 1..Len(history)
<1>1. matches \in Seq(Rows(history))
  BY DEF TypeOK
<1>2. matches[i] \in Rows(history)
  BY <1>1, ElementOfSeq
<1> QED
  BY <1>2 DEF Rows

\* Matches stay matches while entries are added.
LEMMA MatchesStay ==
  ASSUME TypeOK, MatchesOk, HistoryNext \/ UNCHANGED historyVars, UNCHANGED matches
  PROVE  MatchesOk'
<1>1. \A p \in 1..Len(history) : history'[p] = history[p]
  BY HistoryGrows DEF TypeOK
<1>2. ASSUME NEW i \in 1..Len(matches) PROVE matches[i].signature \in 1..Len(history)
  BY MatchTyped
<1> QED
  BY <1>1, <1>2 DEF MatchesOk, Candidate

\* A page: consecutive entries, the newest first.
LEMMA PageFacts ==
  ASSUME TypeOK, NEW last \in 0..Len(history), NEW n \in Nat
  PROVE  /\ NewestFrom(last, n) \in Seq(1..Len(history))
         /\ Len(NewestFrom(last, n)) <= n
         /\ kept = 1 => NewestFrom(last, n) = [k \in 1..Least(n, last) |-> last - k + 1]
<1>1. Len(history) \in Nat /\ last \in Nat /\ kept \in Nat \ {0}
  BY LenProperties DEF TypeOK
<1>2. PICK m : m = IF last < kept THEN 0 ELSE Least(n, last - kept + 1)
  OBVIOUS
<1>3. m \in Nat /\ m <= n /\ (m > 0 => m <= last - kept + 1)
  BY <1>1, <1>2 DEF Least
<1>4. PICK s : s = [k \in 1..m |-> last - k + 1]
  OBVIOUS
<1>5. NewestFrom(last, n) = s
  BY <1>2, <1>4 DEF NewestFrom
<1>6. \A k \in 1..m : last - k + 1 \in 1..Len(history)
  BY <1>1, <1>3
<1>7. s \in [1..m -> 1..Len(history)]
  BY <1>4, <1>6
<1>8. s \in Seq(1..Len(history)) /\ Len(s) = m
  BY <1>3, <1>7, SeqDef
<1>9. ASSUME kept = 1 PROVE m = Least(n, last)
  BY <1>1, <1>2, <1>9 DEF Least
<1> QED
  BY <1>3, <1>4, <1>5, <1>8, <1>9

\* The part of a page that succeeded.
LEMMA SucceededFacts ==
  ASSUME TypeOK
  PROVE  /\ Succeeded \in Seq(1..Len(history))
         /\ Len(page) \in Nat /\ Len(Succeeded) \in Nat
         /\ \E e : Places(e, Succeeded, page, Len(page),
                          {k \in 1..Len(page) : Succeeds(history[page[k]])})
<1>1. page \in Seq(1..Len(history))
  BY DEF TypeOK
<1>2. PICK K : K = {k \in 1..Len(page) : Succeeds(history[page[k]])}
  OBVIOUS
<1>3. Succeeded = Only(page, K)
  BY <1>2 DEF Succeeded
<1>4. Only(page, K) \in Seq(1..Len(history)) /\ \E e : Places(e, Only(page, K), page, Len(page), K)
  BY <1>1, OnlyInOrder
<1>5. Len(page) \in Nat /\ Len(Only(page, K)) \in Nat
  BY <1>1, <1>4, LenProperties
<1> QED
  BY <1>2, <1>3, <1>4, <1>5

\* The signatures of a batch.
Batch == SubSeq(Succeeded, start, Least(start + BatchSize - 1, Len(Succeeded)))

\* A batch is a part of what succeeded.
LEMMA BatchFacts ==
  ASSUME TypeOK
  PROVE  /\ Batch \in Seq(1..Len(history)) /\ Len(Batch) \in Nat
         /\ \A k \in 1..Len(Batch) : /\ start + k - 1 \in 1..Len(Succeeded) /\ k <= BatchSize
                                     /\ Batch[k] = Succeeded[start + k - 1]
         /\ \A j \in 1..Len(Succeeded) : j >= start /\ j < start + BatchSize =>
                                           j - start + 1 \in 1..Len(Batch)
<1>1. /\ start \in Nat \ {0} /\ Len(Succeeded) \in Nat /\ BatchSize \in Nat \ {0}
      /\ Succeeded \in Seq(1..Len(history))
  BY SucceededFacts, Constants DEF TypeOK
<1>2. PICK n : n = Least(start + BatchSize - 1, Len(Succeeded))
  OBVIOUS
<1>3. /\ n \in Nat /\ n <= Len(Succeeded) /\ n <= start + BatchSize - 1
      /\ n = Len(Succeeded) \/ n = start + BatchSize - 1
  BY <1>1, <1>2 DEF Least
<1>4. PICK s : s = Succeeded
  OBVIOUS
<1>5. PICK b : b = SubSeq(s, start, n)
  OBVIOUS
<1>6. \A i \in start..n : s[i] \in 1..Len(history)
  BY <1>1, <1>3, <1>4, ElementOfSeq
<1>7. /\ b \in Seq(1..Len(history))
      /\ Len(b) = IF start <= n THEN n - start + 1 ELSE 0
      /\ \A i \in 1..(n - start + 1) : b[i] = s[start + i - 1]
  <2>1. start \in Int /\ n \in Int
    BY <1>1, <1>3
  <2> QED
    BY <1>5, <1>6, <2>1, SubSeqProperties
<1>8. Batch = b
  BY <1>2, <1>4, <1>5 DEF Batch
<1>9. Len(b) \in Nat
  BY <1>7, LenProperties
<1>10. ASSUME NEW k \in 1..Len(b)
       PROVE  start + k - 1 \in 1..Len(s) /\ k <= BatchSize /\ b[k] = s[start + k - 1]
  <2>1. start <= n /\ k \in 1..(n - start + 1)
    BY <1>1, <1>3, <1>7
  <2>2. b[k] = s[start + k - 1]
    BY <1>7, <2>1
  <2>3. start + k - 1 \in 1..n /\ k <= BatchSize
    BY <1>1, <1>3, <2>1
  <2>4. start + k - 1 \in 1..Len(s)
    BY <1>1, <1>3, <1>4, <2>3
  <2> QED
    BY <2>2, <2>3, <2>4
<1>11. ASSUME NEW j \in 1..Len(s), j >= start, j < start + BatchSize PROVE j - start + 1 \in 1..Len(b)
  <2>1. j <= n
    BY <1>1, <1>3, <1>4, <1>11
  <2>2. Len(b) = n - start + 1
    BY <1>1, <1>3, <1>7, <1>11, <2>1
  <2> QED
    BY <1>1, <1>3, <1>11, <2>1, <2>2
<1> QED
  BY <1>4, <1>7, <1>8, <1>9, <1>10, <1>11

\* The matches of a batch are its candidates, in its order, whatever was answered.
LEMMA MatchesFacts ==
  ASSUME history \in Seq(Kinds), NEW s \in Seq(1..Len(history)), NEW answer
  PROVE  /\ MatchesIn(s, answer) \in Seq(Rows(history))
         /\ \E e : /\ e \in [1..Len(MatchesIn(s, answer)) -> 1..Len(s)]
                   /\ \A j \in 1..Len(MatchesIn(s, answer)) :
                        /\ MatchesIn(s, answer)[j] = [signature |-> s[e[j]], kind |-> history[s[e[j]]]]
                        /\ Candidate(history, s[e[j]])
                   /\ \A i, j \in 1..Len(MatchesIn(s, answer)) : i < j => e[i] < e[j]
                   /\ \A k \in 1..Len(s) :
                        Candidate(history, s[k]) => \E j \in 1..Len(MatchesIn(s, answer)) : e[j] = k
<1>1. PICK t : t = [k \in 1..Len(s) |-> [signature |-> s[k], kind |-> history[s[k]]]]
  OBVIOUS
<1>2. PICK K : K = {k \in 1..Len(s) : Succeeds(t[k].kind) /\ Settles(t[k].kind)}
  OBVIOUS
<1>3. MatchesIn(s, answer) = Only(t, K)
  BY <1>1, <1>2, Zenon DEF MatchesIn, TransactionFor
<1>4. Len(s) \in Nat /\ \A k \in 1..Len(s) : s[k] \in 1..Len(history)
  BY LenProperties, ElementOfSeq
<1>5. \A p \in 1..Len(history) : history[p] \in Kinds
  BY ElementOfSeq
<1>6. t \in [1..Len(s) -> Rows(history)]
  BY <1>1, <1>4, <1>5 DEF Rows
<1>7. t \in Seq(Rows(history)) /\ Len(t) = Len(s)
  BY <1>4, <1>6, SeqDef
<1>8. PICK m : m = Only(t, K)
  OBVIOUS
<1>9. m \in Seq(Rows(history)) /\ \E e : Places(e, m, t, Len(t), K)
  BY <1>7, <1>8, OnlyInOrder
<1>10. PICK e : Places(e, m, t, Len(s), K)
  BY <1>7, <1>9
<1>11. \A k \in 1..Len(s) : t[k] = [signature |-> s[k], kind |-> history[s[k]]] /\ t[k].kind = history[s[k]]
  BY <1>1
<1>12. \A k \in 1..Len(s) : k \in K <=> Candidate(history, s[k])
  BY <1>2, <1>11 DEF Candidate
<1>13. /\ e \in [1..Len(m) -> {k \in 1..Len(s) : k \in K}]
       /\ \A j \in 1..Len(m) : m[j] = t[e[j]]
       /\ \A i, j \in 1..Len(m) : i < j => e[i] < e[j]
       /\ \A k \in 1..Len(s) : k \in K => \E j \in 1..Len(m) : e[j] = k
  BY <1>10 DEF Places
<1>14. e \in [1..Len(m) -> 1..Len(s)]
  BY <1>13
<1>15. ASSUME NEW j \in 1..Len(m)
       PROVE  m[j] = [signature |-> s[e[j]], kind |-> history[s[e[j]]]] /\ Candidate(history, s[e[j]])
  <2>1. e[j] \in 1..Len(s) /\ e[j] \in K
    BY <1>13
  <2> QED
    BY <1>11, <1>12, <1>13, <2>1
<1>16. \A k \in 1..Len(s) : Candidate(history, s[k]) => \E j \in 1..Len(m) : e[j] = k
  BY <1>12, <1>13
<1>17. MatchesIn(s, answer) = m
  BY <1>3, <1>8
<1>18. /\ e \in [1..Len(m) -> 1..Len(s)]
       /\ \A j \in 1..Len(m) :
            m[j] = [signature |-> s[e[j]], kind |-> history[s[e[j]]]] /\ Candidate(history, s[e[j]])
       /\ \A i, j \in 1..Len(m) : i < j => e[i] < e[j]
       /\ \A k \in 1..Len(s) : Candidate(history, s[k]) => \E j \in 1..Len(m) : e[j] = k
  BY <1>13, <1>14, <1>15, <1>16
<1> QED
  BY <1>9, <1>17, <1>18
-----------------------------------------------------------------------------
(* Any provider                                                            *)

HistoryInv == TypeOK /\ MatchesOk /\ ReadOk

\* Those who write to the chain, and the provider that prunes, leave the reader alone.
LEMMA OthersKeepInv ==
  ASSUME HistoryInv, HistoryNext \/ UNCHANGED historyVars, UNCHANGED <<archival, reader>>, kept' \in Nat \ {0}
  PROVE  HistoryInv'
<1>1. TypeOK /\ MatchesOk /\ ReadOk
  BY DEF HistoryInv
<1>2. /\ UNCHANGED <<archival, pc, before, read, limit, page, start, matches, result, snapshot>>
  BY DEF reader
<1>3. history' \in Seq(Kinds)
  BY <1>1, HistoryGrows DEF TypeOK
<1>4. TypeOK'
  BY <1>1, <1>2, <1>3, Widened DEF TypeOK
<1>5. MatchesOk'
  BY <1>1, <1>2, MatchesStay
<1>6. ReadOk'
  BY <1>1, <1>2 DEF ReadOk, Limit
<1> QED
  BY <1>4, <1>5, <1>6 DEF HistoryInv

\* A page is read.
LEMMA ReadPageKeepsInv ==
  ASSUME HistoryInv, ReadPage
  PROVE  HistoryInv'
<1>1. TypeOK /\ MatchesOk /\ ReadOk
  BY DEF HistoryInv
<1>2. PICK last : last = IF before = 0 THEN Len(history) ELSE before - 1
  OBVIOUS
<1>3. /\ pc = "page" /\ limit' = Limit /\ page' = NewestFrom(last, Limit) /\ start' = 1
      /\ snapshot' = IF before = 0 THEN Len(history) ELSE snapshot
      /\ pc' = "batch"
      /\ UNCHANGED <<history, archival, kept, before, read, matches, result>>
  BY <1>2, Zenon DEF ReadPage
<1>4. Len(history) \in Nat /\ before \in 0..Len(history) /\ snapshot \in 0..Len(history)
  BY <1>1, LenProperties DEF TypeOK
<1>5. last \in 0..Len(history) /\ snapshot' \in 0..Len(history)
  BY <1>2, <1>3, <1>4
<1>6. Limit \in Nat
  BY <1>1, <1>3, LimitFacts DEF TypeOK, ReadOk
<1>7. page' \in Seq(1..Len(history)) /\ Len(page') <= Limit
  BY <1>1, <1>3, <1>5, <1>6, PageFacts
<1>8. TypeOK'
  BY <1>1, <1>3, <1>5, <1>6, <1>7 DEF TypeOK
<1>9. MatchesOk'
  BY <1>1, <1>3 DEF MatchesOk, Candidate
<1>10. ReadOk'
  BY <1>1, <1>3, <1>7 DEF ReadOk, Limit
<1> QED
  BY <1>8, <1>9, <1>10 DEF HistoryInv

\* What a batch adds to the matches.
LEMMA ReadBatchAdds ==
  ASSUME TypeOK, ReadBatch
  PROVE  \E answer : /\ matches' = matches \o MatchesIn(Batch, answer)
                     /\ MatchesIn(Batch, answer) \in Seq(Rows(history))
<1>1. PICK answer : matches' = matches \o MatchesIn(Batch, answer)
  BY Zenon DEF ReadBatch, Batch
<1>2. history \in Seq(Kinds) /\ Batch \in Seq(1..Len(history))
  BY BatchFacts DEF TypeOK
<1> QED
  BY <1>1, <1>2, MatchesFacts

\* A batch is read.
LEMMA ReadBatchKeepsInv ==
  ASSUME HistoryInv, ReadBatch
  PROVE  HistoryInv'
<1>1. TypeOK /\ MatchesOk /\ ReadOk
  BY DEF HistoryInv
<1>2. PICK answer : matches' = matches \o MatchesIn(Batch, answer)
                    /\ MatchesIn(Batch, answer) \in Seq(Rows(history))
  BY <1>1, ReadBatchAdds
<1>3. PICK new : new = MatchesIn(Batch, answer)
  OBVIOUS
<1>4. /\ pc = "batch" /\ start' = start + BatchSize
      /\ UNCHANGED <<history, archival, kept, pc, before, read, limit, page, result, snapshot>>
  BY DEF ReadBatch
<1>5. matches \in Seq(Rows(history)) /\ new \in Seq(Rows(history)) /\ matches' = matches \o new
  BY <1>1, <1>2, <1>3 DEF TypeOK
<1>6. /\ matches' \in Seq(Rows(history)) /\ Len(matches) \in Nat /\ Len(new) \in Nat
      /\ Len(matches') = Len(matches) + Len(new)
      /\ \A i \in 1..(Len(matches) + Len(new)) :
           matches'[i] = IF i <= Len(matches) THEN matches[i] ELSE new[i - Len(matches)]
  BY <1>5, ConcatProperties, LenProperties
<1>7. start' \in Nat \ {0}
  BY <1>1, <1>4, Constants DEF TypeOK
<1>8. TypeOK'
  BY <1>1, <1>4, <1>6, <1>7 DEF TypeOK
<1>9. history \in Seq(Kinds) /\ Batch \in Seq(1..Len(history))
  BY <1>1, BatchFacts DEF TypeOK
<1>10. PICK e : /\ e \in [1..Len(new) -> 1..Len(Batch)]
                /\ \A j \in 1..Len(new) :
                     /\ new[j] = [signature |-> Batch[e[j]], kind |-> history[Batch[e[j]]]]
                     /\ Candidate(history, Batch[e[j]])
  BY <1>3, <1>9, MatchesFacts
<1>11. ASSUME NEW j \in 1..Len(new)
       PROVE  new[j].kind = history[new[j].signature] /\ Candidate(history, new[j].signature)
  <2>1. PICK p : p = Batch[e[j]]
    OBVIOUS
  <2>2. new[j] = [signature |-> p, kind |-> history[p]] /\ Candidate(history, p)
    BY <1>10, <2>1, Zenon
  <2>3. new[j].signature = p /\ new[j].kind = history[p]
    BY <2>2
  <2> QED
    BY <2>2, <2>3
<1>12. ASSUME NEW i \in 1..Len(matches')
       PROVE  /\ matches'[i].kind = history[matches'[i].signature]
              /\ Candidate(history, matches'[i].signature)
  <2>1. CASE i <= Len(matches)
    <3>1. matches'[i] = matches[i] /\ i \in 1..Len(matches)
      BY <1>6, <2>1
    <3> QED
      BY <1>1, <3>1 DEF MatchesOk
  <2>2. CASE ~(i <= Len(matches))
    <3>1. matches'[i] = new[i - Len(matches)] /\ i - Len(matches) \in 1..Len(new)
      BY <1>6, <2>2
    <3> QED
      BY <1>11, <3>1
  <2> QED
    BY <2>1, <2>2
<1>13. MatchesOk'
  BY <1>4, <1>12 DEF MatchesOk, Candidate
<1>14. ReadOk'
  BY <1>1, <1>4 DEF ReadOk, Limit
<1> QED
  BY <1>8, <1>13, <1>14 DEF HistoryInv

\* Something cannot be read.
LEMMA UnreadableKeepsInv ==
  ASSUME HistoryInv, Unreadable
  PROVE  HistoryInv'
<1>1. TypeOK /\ MatchesOk /\ ReadOk
  BY DEF HistoryInv
<1>2. /\ pc' = "done" /\ result' = "unreadable"
      /\ UNCHANGED <<history, archival, kept, before, read, limit, page, start, matches, snapshot>>
  BY DEF Unreadable, Finish
<1>3. TypeOK'
  BY <1>1, <1>2 DEF TypeOK, Results
<1>4. MatchesOk'
  BY <1>1, <1>2 DEF MatchesOk, Candidate
<1>5. ReadOk'
  BY <1>2 DEF ReadOk
<1> QED
  BY <1>3, <1>4, <1>5 DEF HistoryInv

\* A page that ends the reading, and one that does not.
LEMMA EndPageCases ==
  ASSUME HistoryInv, EndPage
  PROVE  /\ pc = "batch" /\ start > Len(Succeeded)
         /\ read' = read + Len(page) /\ Len(page) \in Nat /\ Limit \in Nat \ {0}
         /\ limit = Limit /\ Len(page) <= limit
         /\ UNCHANGED <<history, archival, kept, limit, page, start, matches, snapshot>>
         /\ \/ /\ Len(page) = limit /\ read' >= MaxSignatures
               /\ pc' = "done" /\ result' = "capped" /\ before' = before
            \/ /\ Len(page) < limit /\ read' < MaxSignatures
               /\ pc' = "done" /\ result' = (IF Len(matches) = 1 THEN "found" ELSE "ambiguous")
               /\ before' = before
            \/ /\ Len(page) = limit /\ read' < MaxSignatures
               /\ pc' = "page" /\ result' = result
               /\ before' = page[Len(page)] /\ page[Len(page)] \in 1..Len(history)
<1>1. TypeOK /\ ReadOk
  BY DEF HistoryInv
<1>2. /\ pc = "batch" /\ start > Len(Succeeded) /\ read' = read + Len(page)
      /\ UNCHANGED <<history, archival, kept, limit, page, start, matches, snapshot>>
      /\ \/ Cap(read + Len(page)) /\ Finish("capped") /\ UNCHANGED before
         \/ LastPage /\ ~Cap(read + Len(page)) /\ UNCHANGED before
              /\ Finish(IF Len(matches) = 1 THEN "found" ELSE "ambiguous")
         \/ ~LastPage /\ ~Cap(read + Len(page))
              /\ before' = Cursor /\ pc' = "page" /\ UNCHANGED result
  BY Zenon DEF EndPage
<1>3. /\ Len(page) \in Nat /\ read \in Nat /\ limit \in Nat /\ page \in Seq(1..Len(history))
      /\ Len(history) \in Nat
  BY <1>1, LenProperties DEF TypeOK
<1>4. read < MaxSignatures /\ limit = Limit /\ Len(page) <= limit
  BY <1>1, <1>2 DEF ReadOk
<1>5. limit \in Nat \ {0} /\ limit <= MaxSignatures - read /\ MaxSignatures \in Nat
  BY <1>3, <1>4, LimitFacts, Constants
<1>6. CASE Cap(read + Len(page)) /\ Finish("capped") /\ UNCHANGED before
  BY <1>2, <1>3, <1>4, <1>5, <1>6 DEF Cap, LastPage, Finish
<1>7. CASE LastPage /\ ~Cap(read + Len(page)) /\ UNCHANGED before
             /\ Finish(IF Len(matches) = 1 THEN "found" ELSE "ambiguous")
  BY <1>2, <1>3, <1>4, <1>5, <1>7 DEF LastPage, Finish
<1>8. CASE ~LastPage /\ ~Cap(read + Len(page)) /\ before' = Cursor /\ pc' = "page" /\ UNCHANGED result
  <2>1. Len(page) = limit /\ Len(page) \in 1..Len(page)
    BY <1>3, <1>4, <1>5, <1>8 DEF LastPage
  <2>2. page[Len(page)] \in 1..Len(history)
    BY <1>3, <2>1, ElementOfSeq
  <2> QED
    BY <1>2, <1>3, <1>4, <1>5, <1>8, <2>1, <2>2 DEF Cap, LastPage, Cursor
<1> QED
  BY <1>2, <1>6, <1>7, <1>8

\* A page ends.
LEMMA EndPageKeepsInv ==
  ASSUME HistoryInv, EndPage
  PROVE  HistoryInv'
<1>1. TypeOK /\ MatchesOk /\ ReadOk
  BY DEF HistoryInv
<1>2. /\ UNCHANGED <<history, archival, kept, limit, page, start, matches, snapshot>>
      /\ read' = read + Len(page) /\ Len(page) \in Nat /\ pc = "batch"
  BY EndPageCases
<1>3. read' \in Nat /\ Len(history) \in Nat
  BY <1>1, <1>2, LenProperties DEF TypeOK
<1>4. before' \in 0..Len(history) /\ pc' \in {"page", "done"} /\ result' \in Results
  BY <1>1, <1>3, EndPageCases DEF TypeOK, Results
<1>5. TypeOK'
  BY <1>1, <1>2, <1>3, <1>4 DEF TypeOK
<1>6. MatchesOk'
  BY <1>1, <1>2 DEF MatchesOk, Candidate
<1>7. ReadOk'
  <2>1. pc = "batch" => result = "none"
    BY <1>1 DEF ReadOk
  <2>2. pc' # "done" => read' < MaxSignatures /\ result' = "none"
    BY <1>2, <2>1, EndPageCases
  <2>3. result' = "found" => Len(matches') = 1
    BY <1>2, <2>1, EndPageCases
  <2> QED
    BY <1>4, <2>2, <2>3 DEF ReadOk
<1> QED
  BY <1>5, <1>6, <1>7 DEF HistoryInv

\* The invariant at the start.
LEMMA HistoryInitInv == HistoryInit => HistoryInv
<1> SUFFICES ASSUME HistoryInit PROVE HistoryInv
  OBVIOUS
<1>1. /\ history = <<>> /\ archival \in BOOLEAN /\ kept = 1
      /\ pc = "page" /\ before = 0 /\ read = 0 /\ limit = 0
      /\ page = <<>> /\ start = 1 /\ matches = <<>> /\ result = "none" /\ snapshot = 0
  BY DEF HistoryInit
<1>2. /\ <<>> \in Seq(Kinds) /\ <<>> \in Seq(1..Len(history)) /\ <<>> \in Seq(Rows(history))
      /\ Len(<<>>) = 0
  BY EmptySeq
<1>3. TypeOK
  BY <1>1, <1>2 DEF TypeOK, Results
<1>4. MatchesOk
  BY <1>1, <1>2 DEF MatchesOk
<1>5. ReadOk
  BY <1>1, Constants DEF ReadOk
<1> QED
  BY <1>3, <1>4, <1>5 DEF HistoryInv

\* Every step keeps the invariant.
LEMMA HistoryNextInv ==
  ASSUME HistoryInv, HistoryNext \/ UNCHANGED historyVars
  PROVE  HistoryInv'
<1>1. kept \in Nat \ {0}
  BY DEF HistoryInv, TypeOK
<1>2. CASE \E kind \in Kinds : AddEntry(kind)
  <2>1. UNCHANGED <<archival, reader>> /\ kept' = kept
    BY <1>2 DEF AddEntry
  <2> QED
    BY <1>1, <2>1, OthersKeepInv
<1>3. CASE Prune
  <2>1. UNCHANGED <<archival, reader>> /\ kept' = kept + 1
    BY <1>3 DEF Prune
  <2>2. kept' \in Nat \ {0}
    BY <1>1, <2>1
  <2> QED
    BY <2>1, <2>2, OthersKeepInv
<1>4. CASE ReadPage
  BY <1>4, ReadPageKeepsInv
<1>5. CASE ReadBatch
  BY <1>5, ReadBatchKeepsInv
<1>6. CASE Unreadable
  BY <1>6, UnreadableKeepsInv
<1>7. CASE EndPage
  BY <1>7, EndPageKeepsInv
<1>8. CASE UNCHANGED historyVars
  <2>1. UNCHANGED <<archival, reader>> /\ kept' = kept
    BY <1>8 DEF historyVars
  <2> QED
    BY <1>1, <2>1, OthersKeepInv
<1> QED
  BY <1>2, <1>3, <1>4, <1>5, <1>6, <1>7, <1>8 DEF HistoryNext

\* ledger.ts:1122-1165: on whichever provider, what was listed as a match is a
\* successful settlement that is still in the history, and the reader never asks for
\* more than its cap.
THEOREM ReaderHoldsMatches == HistorySpec => []HistoryInv
<1>1. HistoryInit => HistoryInv
  BY HistoryInitInv
<1>2. HistoryInv /\ [HistoryNext]_historyVars => HistoryInv'
  BY HistoryNextInv
<1> QED
  BY <1>1, <1>2, PTL DEF HistorySpec
-----------------------------------------------------------------------------
(* A provider with the whole history                                       *)

\* The newest entry of the page that is read, or will be.
Top == IF before = 0 THEN snapshot ELSE before - 1

CandidatesIn(h, lo, hi) == {p \in lo..hi : Candidate(h, p)}

Listed(m) == {m[i].signature : i \in 1..Len(m)}

\* Of the succeeded part s of a page, the candidates in the batches before n.
Fetched(h, s, n) == {s[j] : j \in {k \in 1..Len(s) : k < n /\ Candidate(h, s[k])}}

Descends(m) == \A i, j \in 1..Len(m) : i < j => m[j].signature < m[i].signature

\* Each entry from the snapshot's newest down to the cursor was looked at once.
Scanned ==
  /\ Descends(matches)
  /\ pc # "done" => read = snapshot - Top /\ before <= snapshot
  /\ pc = "page" => Listed(matches) = CandidatesIn(history, Top + 1, snapshot)
  /\ pc = "batch" => /\ page = [k \in 1..Least(limit, Top) |-> Top - k + 1]
                     /\ Listed(matches) = CandidatesIn(history, Top + 1, snapshot)
                                          \cup Fetched(history, Succeeded, start)

\* What an answer says of the snapshot.
Concluded ==
  /\ result \in {"found", "ambiguous"} =>
       Listed(matches) = CandidatesIn(history, 1, snapshot) /\ snapshot < MaxSignatures
  /\ result = "ambiguous" => Len(matches) # 1
  /\ result = "capped" => snapshot >= MaxSignatures

WholeInv == archival => kept = 1 /\ Scanned /\ Concluded

\* The newest entry of a page lies within the snapshot.
LEMMA TopFacts ==
  ASSUME HistoryInv, WholeInv, archival, pc # "done"
  PROVE  /\ Top \in Nat /\ Top <= snapshot /\ snapshot \in Nat /\ Len(history) \in Nat
         /\ snapshot <= Len(history)
         /\ read = snapshot - Top
<1>1. Len(history) \in Nat /\ before \in 0..Len(history) /\ snapshot \in 0..Len(history)
  BY LenProperties DEF HistoryInv, TypeOK
<1>2. read = snapshot - Top /\ before <= snapshot
  BY DEF WholeInv, Scanned
<1> QED
  BY <1>1, <1>2 DEF Top

\* Entries are added in front of what is read, or not at all.
LEMMA OthersKeepWhole ==
  ASSUME HistoryInv, WholeInv, HistoryNext \/ UNCHANGED historyVars, UNCHANGED <<archival, reader>>,
         archival => kept' = kept
  PROVE  WholeInv'
<1> SUFFICES ASSUME archival PROVE (kept = 1 /\ Scanned /\ Concluded)'
  BY DEF WholeInv
<1>1. TypeOK /\ kept = 1 /\ Scanned /\ Concluded
  BY DEF HistoryInv, WholeInv
<1>2. UNCHANGED <<pc, before, read, limit, page, start, matches, result, snapshot>>
  BY DEF reader
<1>3. /\ Len(history) \in Nat /\ \A p \in 1..Len(history) : history'[p] = history[p]
      /\ snapshot \in 0..Len(history) /\ before \in 0..Len(history)
  BY <1>1, HistoryGrows DEF TypeOK
<1>4. \A p \in 1..Len(history) : Candidate(history', p) <=> Candidate(history, p)
  BY <1>3 DEF Candidate
<1>5. ASSUME NEW lo \in Nat \ {0} PROVE CandidatesIn(history', lo, snapshot) = CandidatesIn(history, lo, snapshot)
  <2>1. lo..snapshot \subseteq 1..Len(history)
    BY <1>3
  <2> QED
    BY <1>4, <2>1 DEF CandidatesIn
<1>6. /\ Succeeded \in Seq(1..Len(history)) /\ page \in Seq(1..Len(history))
  BY <1>1, SucceededFacts DEF TypeOK
<1>7. {k \in 1..Len(page) : Succeeds(history'[page[k]])} = {k \in 1..Len(page) : Succeeds(history[page[k]])}
  <2>1. \A k \in 1..Len(page) : page[k] \in 1..Len(history)
    BY <1>6, ElementOfSeq
  <2> QED
    BY <1>3, <2>1
<1>8. Succeeded' = Succeeded
  <2>1. Succeeded' = Only(page', {k \in 1..Len(page') : Succeeds(history'[page'[k]])})
    BY DEF Succeeded
  <2>2. page' = page
    BY <1>2
  <2>3. Succeeded' = Only(page, {k \in 1..Len(page) : Succeeds(history'[page[k]])})
    BY <2>1, <2>2
  <2> QED
    BY <1>7, <2>3 DEF Succeeded
<1>9. PICK s : s = Succeeded
  OBVIOUS
<1>10. Fetched(history', s, start) = Fetched(history, s, start)
  <2>1. \A k \in 1..Len(s) : s[k] \in 1..Len(history)
    BY <1>6, <1>9, ElementOfSeq
  <2> QED
    BY <1>4, <2>1 DEF Fetched
<1>11. Top' = Top
  BY <1>2 DEF Top
<1>12. pc # "done" => Top + 1 \in Nat \ {0}
  BY TopFacts
<1>13. Scanned'
  <2>1. Descends(matches')
    BY <1>1, <1>2 DEF Scanned
  <2>2. pc' # "done" => read' = snapshot' - Top' /\ before' <= snapshot'
    BY <1>1, <1>2, <1>11 DEF Scanned
  <2>3. pc' = "page" => Listed(matches') = CandidatesIn(history', Top' + 1, snapshot')
    BY <1>1, <1>2, <1>5, <1>11, <1>12 DEF Scanned
  <2>4. pc' = "batch" => /\ page' = [k \in 1..Least(limit', Top') |-> Top' - k + 1]
                         /\ Listed(matches') = CandidatesIn(history', Top' + 1, snapshot')
                                               \cup Fetched(history', Succeeded', start')
    BY <1>1, <1>2, <1>5, <1>8, <1>9, <1>10, <1>11, <1>12 DEF Scanned
  <2> QED
    BY <2>1, <2>2, <2>3, <2>4 DEF Scanned
<1>14. Concluded'
  <2>1. CandidatesIn(history', 1, snapshot) = CandidatesIn(history, 1, snapshot)
    BY <1>5
  <2> QED
    BY <1>1, <1>2, <2>1 DEF Concluded
<1> QED
  BY <1>1, <1>13, <1>14

\* A page continues where the last one ended.
LEMMA ReadPageKeepsWhole ==
  ASSUME HistoryInv, WholeInv, ReadPage
  PROVE  WholeInv'
<1>1. PICK last : last = IF before = 0 THEN Len(history) ELSE before - 1
  OBVIOUS
<1>2. /\ pc = "page" /\ limit' = Limit /\ page' = NewestFrom(last, Limit) /\ start' = 1
      /\ snapshot' = IF before = 0 THEN Len(history) ELSE snapshot
      /\ pc' = "batch"
      /\ UNCHANGED <<history, archival, kept, before, read, matches, result>>
  BY <1>1, Zenon DEF ReadPage
<1> SUFFICES ASSUME archival PROVE (kept = 1 /\ Scanned /\ Concluded)'
  BY <1>2 DEF WholeInv
<1>3. TypeOK /\ ReadOk /\ kept = 1 /\ Scanned
  BY DEF HistoryInv, WholeInv
<1>4. /\ Top \in Nat /\ Top <= snapshot /\ snapshot \in Nat /\ Len(history) \in Nat
      /\ snapshot <= Len(history) /\ read = snapshot - Top
  BY <1>2, TopFacts
<1>5. before \in 0..Len(history) /\ before <= snapshot
  BY <1>2, <1>3 DEF TypeOK, Scanned
<1>6. Top' = last /\ last \in 0..Len(history) /\ read' = snapshot' - last /\ before' <= snapshot'
      /\ snapshot' \in Nat
  BY <1>1, <1>2, <1>4, <1>5 DEF Top
<1>7. Limit \in Nat
  BY <1>2, <1>3, LimitFacts DEF TypeOK, ReadOk
<1>8. page' = [k \in 1..Least(limit', last) |-> last - k + 1]
  BY <1>2, <1>3, <1>6, <1>7, PageFacts
<1>9. CandidatesIn(history, last + 1, snapshot') = CandidatesIn(history, Top + 1, snapshot)
  <2>1. CASE before = 0
    <3>1. last = snapshot' /\ Top = snapshot
      BY <1>1, <1>2, <2>1 DEF Top
    <3>2. \A n \in Nat : (n + 1)..n = {}
      OBVIOUS
    <3>3. (last + 1)..snapshot' = {} /\ (Top + 1)..snapshot = {}
      BY <1>4, <1>6, <3>1, <3>2, Zenon
    <3> QED
      BY <3>3 DEF CandidatesIn
  <2>2. CASE before # 0
    BY <1>1, <1>2, <2>2 DEF Top
  <2> QED
    BY <2>1, <2>2
<1>10. \A s : Fetched(history, s, 1) = {}
  BY DEF Fetched
<1>11. Fetched(history', Succeeded', start') = {}
  BY <1>2, <1>10
<1>12. Listed(matches) = CandidatesIn(history, Top + 1, snapshot) /\ Descends(matches)
  BY <1>2, <1>3 DEF Scanned
<1>13. Listed(matches') = CandidatesIn(history', Top' + 1, snapshot') \cup Fetched(history', Succeeded', start')
  BY <1>2, <1>6, <1>9, <1>11, <1>12
<1>14. Scanned'
  BY <1>2, <1>6, <1>8, <1>12, <1>13 DEF Scanned
<1>15. result' = "none"
  BY <1>2, <1>3 DEF ReadOk
<1> QED
  BY <1>2, <1>3, <1>14, <1>15 DEF Concluded

\* What succeeded of a page of consecutive entries, in its order.
LEMMA WholePage ==
  ASSUME TypeOK, NEW top \in Nat, NEW n \in Nat, n <= top, page = [k \in 1..n |-> top - k + 1]
  PROVE  /\ Len(page) = n
         /\ \A j \in 1..Len(Succeeded) : Succeeded[j] \in (top - n + 1)..top
         /\ \A i, j \in 1..Len(Succeeded) : i < j => Succeeded[j] < Succeeded[i]
         /\ \A p \in (top - n + 1)..top :
              Succeeds(history[p]) => \E j \in 1..Len(Succeeded) : Succeeded[j] = p
<1>1. page \in Seq(1..Len(history))
  BY DEF TypeOK
<1>2. Len(page) = n
  <2>1. DOMAIN page = 1..n /\ DOMAIN page = 1..Len(page) /\ Len(page) \in Nat
    BY <1>1, LenProperties
  <2> QED
    BY <2>1
<1>3. PICK s : s = Succeeded
  OBVIOUS
<1>4. PICK K : K = {k \in 1..n : Succeeds(history[page[k]])}
  OBVIOUS
<1>5. PICK e : Places(e, s, page, n, K)
  BY <1>2, <1>3, <1>4, SucceededFacts
<1>6. \A k \in 1..n : page[k] = top - k + 1
  OBVIOUS
<1>7. /\ e \in [1..Len(s) -> {k \in 1..n : k \in K}]
      /\ \A j \in 1..Len(s) : s[j] = page[e[j]]
      /\ \A i, j \in 1..Len(s) : i < j => e[i] < e[j]
      /\ \A k \in 1..n : k \in K => \E j \in 1..Len(s) : e[j] = k
  BY <1>5 DEF Places
<1>8. \A j \in 1..Len(s) : e[j] \in 1..n /\ s[j] = top - e[j] + 1
  BY <1>6, <1>7
<1>9. \A j \in 1..Len(s) : s[j] \in (top - n + 1)..top
  BY <1>8
<1>10. ASSUME NEW i \in 1..Len(s), NEW j \in 1..Len(s), i < j PROVE s[j] < s[i]
  <2>1. e[i] < e[j] /\ e[i] \in 1..n /\ e[j] \in 1..n
    BY <1>7, <1>8, <1>10
  <2> QED
    BY <1>8, <2>1
<1>11. ASSUME NEW p \in (top - n + 1)..top, Succeeds(history[p])
       PROVE  \E j \in 1..Len(s) : s[j] = p
  <2>1. PICK k \in 1..n : k = top - p + 1
    OBVIOUS
  <2>2. page[k] = p
    BY <1>6, <2>1
  <2>3. k \in K
    BY <1>4, <1>11, <2>2
  <2>4. PICK j \in 1..Len(s) : e[j] = k
    BY <1>7, <2>3
  <2> QED
    BY <1>7, <2>2, <2>4
<1> QED
  BY <1>2, <1>3, <1>9, <1>10, <1>11

\* A page is looked at in its order.
LEMMA ScannedPage ==
  ASSUME HistoryInv, WholeInv, archival, pc = "batch"
  PROVE  /\ Len(page) = Least(limit, Top) /\ Len(page) <= Top
         /\ \A j \in 1..Len(Succeeded) : Succeeded[j] \in (Top - Len(page) + 1)..Top
         /\ \A i, j \in 1..Len(Succeeded) : i < j => Succeeded[j] < Succeeded[i]
         /\ \A p \in (Top - Len(page) + 1)..Top :
              Succeeds(history[p]) => \E j \in 1..Len(Succeeded) : Succeeded[j] = p
<1>1. Top \in Nat /\ TypeOK /\ limit \in Nat
  BY TopFacts DEF HistoryInv, TypeOK
<1>2. PICK n \in Nat : n = Least(limit, Top)
  BY <1>1, LeastFacts
<1>3. n <= Top
  BY <1>1, <1>2, LeastFacts
<1>4. page = [k \in 1..n |-> Top - k + 1]
  BY <1>2 DEF WholeInv, Scanned
<1>5. PICK top \in Nat : top = Top
  BY <1>1
<1>6. page = [k \in 1..n |-> top - k + 1] /\ n <= top
  BY <1>3, <1>4, <1>5
<1>7. /\ Len(page) = n
      /\ \A j \in 1..Len(Succeeded) : Succeeded[j] \in (top - n + 1)..top
      /\ \A i, j \in 1..Len(Succeeded) : i < j => Succeeded[j] < Succeeded[i]
      /\ \A p \in (top - n + 1)..top :
           Succeeds(history[p]) => \E j \in 1..Len(Succeeded) : Succeeded[j] = p
  BY <1>1, <1>6, WholePage
<1> QED
  BY <1>2, <1>3, <1>5, <1>7

\* A batch adds its candidates to the matches, in the order of the history.
LEMMA ReadBatchKeepsWhole ==
  ASSUME HistoryInv, WholeInv, ReadBatch
  PROVE  WholeInv'
<1>1. /\ pc = "batch" /\ start' = start + BatchSize
      /\ UNCHANGED <<history, archival, kept, pc, before, read, limit, page, result, snapshot>>
  BY DEF ReadBatch
<1> SUFFICES ASSUME archival PROVE (kept = 1 /\ Scanned /\ Concluded)'
  BY <1>1 DEF WholeInv
<1>2. TypeOK /\ ReadOk /\ kept = 1 /\ Scanned
  BY DEF HistoryInv, WholeInv
<1>3. PICK answer : matches' = matches \o MatchesIn(Batch, answer)
                    /\ MatchesIn(Batch, answer) \in Seq(Rows(history))
  BY <1>2, ReadBatchAdds
<1>4. PICK new : new = MatchesIn(Batch, answer)
  OBVIOUS
<1>5. PICK b : b = Batch
  OBVIOUS
<1>6. PICK s : s = Succeeded
  OBVIOUS
<1>7. matches \in Seq(Rows(history)) /\ new \in Seq(Rows(history)) /\ matches' = matches \o new
  BY <1>2, <1>3, <1>4 DEF TypeOK
<1>8. PICK m : m = matches'
  OBVIOUS
<1>9. /\ Len(matches) \in Nat /\ Len(new) \in Nat /\ Len(m) = Len(matches) + Len(new)
      /\ \A i \in 1..(Len(matches) + Len(new)) :
           m[i] = IF i <= Len(matches) THEN matches[i] ELSE new[i - Len(matches)]
  BY <1>7, <1>8, ConcatProperties, LenProperties
<1>10. /\ b \in Seq(1..Len(history)) /\ Len(b) \in Nat
       /\ \A k \in 1..Len(b) : /\ start + k - 1 \in 1..Len(s) /\ k <= BatchSize
                               /\ b[k] = s[start + k - 1]
       /\ \A j \in 1..Len(s) : j >= start /\ j < start + BatchSize => j - start + 1 \in 1..Len(b)
  BY <1>2, <1>5, <1>6, BatchFacts
<1>11. PICK e : /\ e \in [1..Len(new) -> 1..Len(b)]
                /\ \A j \in 1..Len(new) :
                     /\ new[j] = [signature |-> b[e[j]], kind |-> history[b[e[j]]]]
                     /\ Candidate(history, b[e[j]])
                /\ \A i, j \in 1..Len(new) : i < j => e[i] < e[j]
                /\ \A k \in 1..Len(b) :
                     Candidate(history, b[k]) => \E j \in 1..Len(new) : e[j] = k
  <2>1. history \in Seq(Kinds) /\ b \in Seq(1..Len(history)) /\ new = MatchesIn(b, answer)
    BY <1>2, <1>4, <1>5, <1>10 DEF TypeOK
  <2>2. \E f : /\ f \in [1..Len(MatchesIn(b, answer)) -> 1..Len(b)]
               /\ \A j \in 1..Len(MatchesIn(b, answer)) :
                    /\ MatchesIn(b, answer)[j] = [signature |-> b[f[j]], kind |-> history[b[f[j]]]]
                    /\ Candidate(history, b[f[j]])
               /\ \A i, j \in 1..Len(MatchesIn(b, answer)) : i < j => f[i] < f[j]
               /\ \A k \in 1..Len(b) :
                    Candidate(history, b[k]) => \E j \in 1..Len(MatchesIn(b, answer)) : f[j] = k
    BY <2>1, MatchesFacts
  <2> QED
    BY <2>1, <2>2, Zenon
<1>12. /\ start \in Nat \ {0} /\ BatchSize \in Nat \ {0} /\ Len(s) \in Nat
  BY <1>2, <1>6, SucceededFacts, Constants DEF TypeOK
\* Where each new match stands in the page.
<1>13. PICK at : at = [j \in 1..Len(new) |-> start + e[j] - 1]
  OBVIOUS
<1>14. ASSUME NEW j \in 1..Len(new)
       PROVE  /\ at[j] \in 1..Len(s) /\ start <= at[j] /\ at[j] < start + BatchSize
              /\ new[j].signature = s[at[j]] /\ Candidate(history, s[at[j]])
  <2>1. e[j] \in 1..Len(b) /\ at[j] = start + e[j] - 1
    BY <1>11, <1>13
  <2>2. PICK k \in 1..Len(b) : k = e[j]
    BY <2>1
  <2>3. at[j] \in 1..Len(s) /\ k <= BatchSize /\ b[k] = s[at[j]]
    BY <1>10, <2>1, <2>2
  <2>4. PICK p : p = s[at[j]]
    OBVIOUS
  <2>5. new[j] = [signature |-> p, kind |-> history[p]] /\ Candidate(history, p)
    BY <1>11, <2>2, <2>3, <2>4, Zenon
  <2>6. new[j].signature = p
    BY <2>5
  <2>7. start <= at[j] /\ at[j] < start + BatchSize
    BY <1>12, <2>1, <2>2, <2>3
  <2> QED
    BY <2>3, <2>4, <2>5, <2>6, <2>7
<1>15. ASSUME NEW i \in 1..Len(new), NEW j \in 1..Len(new), i < j PROVE at[i] < at[j]
  <2>1. e[i] < e[j] /\ e[i] \in 1..Len(b) /\ e[j] \in 1..Len(b)
    BY <1>11, <1>15
  <2> QED
    BY <1>12, <1>13, <2>1
<1>16. ASSUME NEW k \in 1..Len(s), k >= start, k < start + BatchSize, Candidate(history, s[k])
       PROVE  \E j \in 1..Len(new) : at[j] = k
  <2>1. PICK q \in 1..Len(b) : q = k - start + 1
    BY <1>10, <1>16
  <2>2. b[q] = s[k]
    <3>1. b[q] = s[start + q - 1]
      BY <1>10
    <3>2. start + q - 1 = k
      BY <1>12, <2>1
    <3> QED
      BY <3>1, <3>2
  <2>3. Candidate(history, b[q])
    BY <1>16, <2>2
  <2>4. PICK j \in 1..Len(new) : e[j] = q
    BY <1>11, <2>3
  <2>5. at[j] = k
    BY <1>12, <1>13, <2>1, <2>4
  <2> QED
    BY <2>5
<1> DEFINE Above == CandidatesIn(history, Top + 1, snapshot)
           Before == Fetched(history, s, start)
<1>17. Listed(matches) = Above \cup Before /\ Descends(matches)
       /\ page = [k \in 1..Least(limit, Top) |-> Top - k + 1]
       /\ read = snapshot - Top /\ before <= snapshot
  BY <1>1, <1>2, <1>6 DEF Scanned
<1>18. Top \in Nat
  BY <1>1, TopFacts
<1>19. /\ \A j \in 1..Len(s) : s[j] \in (Top - Len(page) + 1)..Top
       /\ \A i, j \in 1..Len(s) : i < j => s[j] < s[i]
       /\ Len(page) \in Nat /\ Len(page) <= Top
  BY <1>1, <1>2, <1>6, ScannedPage, SucceededFacts
<1>20. Listed(m) = Listed(matches) \cup Listed(new)
  <2>1. ASSUME NEW i \in 1..Len(m) PROVE m[i].signature \in Listed(matches) \cup Listed(new)
    <3>1. CASE i <= Len(matches)
      BY <1>9, <3>1 DEF Listed
    <3>2. CASE ~(i <= Len(matches))
      <4>1. i - Len(matches) \in 1..Len(new) /\ m[i] = new[i - Len(matches)]
        BY <1>9, <3>2
      <4> QED
        BY <4>1 DEF Listed
    <3> QED
      BY <3>1, <3>2
  <2>2. ASSUME NEW i \in 1..Len(matches) PROVE matches[i].signature \in Listed(m)
    <3>1. i \in 1..Len(m) /\ m[i] = matches[i]
      BY <1>9
    <3> QED
      BY <3>1 DEF Listed
  <2>3. ASSUME NEW i \in 1..Len(new) PROVE new[i].signature \in Listed(m)
    <3>1. PICK q \in 1..Len(m) : q = Len(matches) + i /\ ~(q <= Len(matches)) /\ q - Len(matches) = i
      BY <1>9
    <3>2. m[q] = new[i]
      BY <1>9, <3>1
    <3> QED
      BY <3>2 DEF Listed
  <2> QED
    BY <2>1, <2>2, <2>3 DEF Listed
<1>21. Fetched(history, s, start + BatchSize) = Before \cup Listed(new)
  <2>1. ASSUME NEW k \in 1..Len(s), k < start + BatchSize, Candidate(history, s[k])
        PROVE  s[k] \in Before \cup Listed(new)
    <3>1. CASE k < start
      BY <2>1, <3>1 DEF Fetched
    <3>2. CASE ~(k < start)
      <4>1. PICK j \in 1..Len(new) : at[j] = k
        BY <1>12, <1>16, <2>1, <3>2
      <4>2. new[j].signature = s[k]
        BY <1>14, <4>1
      <4> QED
        BY <4>2 DEF Listed
    <3> QED
      BY <3>1, <3>2
  <2>2. ASSUME NEW k \in 1..Len(s), k < start, Candidate(history, s[k])
        PROVE  s[k] \in Fetched(history, s, start + BatchSize)
    <3>1. k < start + BatchSize
      BY <1>12, <2>2
    <3> QED
      BY <2>2, <3>1 DEF Fetched
  <2>3. ASSUME NEW j \in 1..Len(new)
        PROVE  new[j].signature \in Fetched(history, s, start + BatchSize)
    BY <1>14 DEF Fetched
  <2> QED
    BY <2>1, <2>2, <2>3 DEF Fetched, Listed
<1>22. Listed(m) = Above \cup Fetched(history, s, start + BatchSize)
  BY <1>17, <1>20, <1>21
\* What was listed before is newer than all of the batch.
<1>23. ASSUME NEW i \in 1..Len(matches), NEW j \in 1..Len(new)
       PROVE  new[j].signature < matches[i].signature
  <2>1. PICK q \in 1..Len(s) : q = at[j]
    BY <1>14
  <2>2. new[j].signature = s[q] /\ start <= q /\ s[q] \in (Top - Len(page) + 1)..Top
    BY <1>14, <1>19, <2>1
  <2>3. matches[i].signature \in Above \cup Before
    BY <1>17 DEF Listed
  <2>4. CASE matches[i].signature \in Above
    <3>1. matches[i].signature \in (Top + 1)..snapshot
      BY <2>4 DEF CandidatesIn
    <3>2. snapshot \in Nat
      BY <1>1, TopFacts
    <3> QED
      BY <1>18, <1>19, <2>2, <3>1, <3>2
  <2>5. CASE matches[i].signature \in Before
    <3>1. PICK k \in 1..Len(s) : k < start /\ matches[i].signature = s[k]
      BY <2>5 DEF Fetched
    <3>2. k < q
      BY <1>12, <2>2, <3>1
    <3>3. s[q] < s[k]
      BY <1>19, <3>2
    <3> QED
      BY <2>2, <3>1, <3>3
  <2> QED
    BY <2>3, <2>4, <2>5
<1>24. ASSUME NEW i \in 1..Len(m), NEW j \in 1..Len(m), i < j
       PROVE  m[j].signature < m[i].signature
  <2>1. CASE j <= Len(matches)
    <3>1. i \in 1..Len(matches) /\ j \in 1..Len(matches) /\ m[i] = matches[i] /\ m[j] = matches[j]
      BY <1>9, <1>24, <2>1
    <3> QED
      BY <1>17, <1>24, <3>1 DEF Descends
  <2>2. CASE ~(j <= Len(matches))
    <3>1. PICK l \in 1..Len(new) : l = j - Len(matches) /\ m[j] = new[l]
      BY <1>9, <2>2
    <3>2. CASE i <= Len(matches)
      <4>1. i \in 1..Len(matches) /\ m[i] = matches[i]
        BY <1>9, <3>2
      <4> QED
        BY <1>23, <3>1, <4>1
    <3>3. CASE ~(i <= Len(matches))
      <4>1. PICK k \in 1..Len(new) : k = i - Len(matches) /\ m[i] = new[k]
        BY <1>9, <3>3
      <4>2. k < l
        BY <1>9, <1>24, <3>1, <4>1
      <4>3. at[k] < at[l] /\ at[k] \in 1..Len(s) /\ at[l] \in 1..Len(s)
        BY <1>14, <1>15, <4>2
      <4>4. s[at[l]] < s[at[k]]
        BY <1>19, <4>3
      <4>5. new[l].signature = s[at[l]] /\ new[k].signature = s[at[k]]
        BY <1>14
      <4> QED
        BY <3>1, <4>1, <4>4, <4>5
    <3> QED
      BY <3>2, <3>3
  <2> QED
    BY <2>1, <2>2
<1> HIDE DEF Above, Before
<1>25. Descends(matches')
  BY <1>8, <1>24 DEF Descends
<1>26. Succeeded' = Succeeded /\ Top' = Top
  BY <1>1 DEF Succeeded, Top
<1>27. Listed(matches') = CandidatesIn(history', Top' + 1, snapshot') \cup Fetched(history', Succeeded', start')
  BY <1>1, <1>6, <1>8, <1>22, <1>26 DEF Above
<1>28. Scanned'
  BY <1>1, <1>17, <1>25, <1>26, <1>27 DEF Scanned
<1>29. result' = "none"
  BY <1>1, <1>2 DEF ReadOk
<1> QED
  BY <1>1, <1>2, <1>28, <1>29 DEF Concluded

\* A page that was looked at moves the cursor below it, or ends the reading.
LEMMA EndPageKeepsWhole ==
  ASSUME HistoryInv, WholeInv, EndPage
  PROVE  WholeInv'
<1>1. /\ pc = "batch" /\ start > Len(Succeeded)
      /\ read' = read + Len(page) /\ Len(page) \in Nat /\ Limit \in Nat \ {0}
      /\ limit = Limit /\ Len(page) <= limit
      /\ UNCHANGED <<history, archival, kept, limit, page, start, matches, snapshot>>
  BY EndPageCases
<1> SUFFICES ASSUME archival PROVE (kept = 1 /\ Scanned /\ Concluded)'
  BY <1>1 DEF WholeInv
<1>2. TypeOK /\ ReadOk /\ kept = 1 /\ Scanned /\ result = "none"
  BY <1>1 DEF HistoryInv, WholeInv, ReadOk
<1>3. /\ Top \in Nat /\ Top <= snapshot /\ snapshot \in Nat /\ Len(history) \in Nat
      /\ snapshot <= Len(history) /\ read = snapshot - Top
  BY <1>1, TopFacts
<1>4. Len(page) = Least(limit, Top) /\ Len(page) <= Top
  BY <1>1, ScannedPage
<1>5. PICK n \in Nat : n = Len(page)
  BY <1>1
<1>6. /\ n <= Top /\ n = IF limit <= Top THEN limit ELSE Top
      /\ read' = snapshot - (Top - n) /\ limit \in Nat \ {0}
  BY <1>1, <1>3, <1>4, <1>5 DEF Least
<1>7. PICK s : s = Succeeded
  OBVIOUS
<1>8. /\ \A j \in 1..Len(s) : s[j] \in (Top - n + 1)..Top
      /\ \A p \in (Top - n + 1)..Top : Succeeds(history[p]) => \E j \in 1..Len(s) : s[j] = p
  BY <1>1, <1>5, <1>7, ScannedPage
<1>9. Len(s) \in Nat /\ start \in Nat
  BY <1>2, <1>7, SucceededFacts DEF TypeOK
<1>10. Fetched(history, s, start) = CandidatesIn(history, Top - n + 1, Top)
  <2>1. ASSUME NEW p \in (Top - n + 1)..Top, Candidate(history, p) PROVE p \in Fetched(history, s, start)
    <3>1. PICK j \in 1..Len(s) : s[j] = p
      BY <1>8, <2>1 DEF Candidate
    <3>2. j < start
      BY <1>1, <1>7, <1>9
    <3> QED
      BY <2>1, <3>1, <3>2 DEF Fetched
  <2> QED
    BY <1>8, <2>1 DEF Fetched, CandidatesIn
<1>11. Listed(matches) = CandidatesIn(history, Top - n + 1, snapshot)
  <2>1. Listed(matches) = CandidatesIn(history, Top + 1, snapshot) \cup CandidatesIn(history, Top - n + 1, Top)
    BY <1>1, <1>2, <1>7, <1>10 DEF Scanned
  <2>2. (Top - n + 1)..snapshot = ((Top + 1)..snapshot) \cup ((Top - n + 1)..Top)
    BY <1>3, <1>6
  <2> QED
    BY <2>1, <2>2 DEF CandidatesIn
<1>12. Descends(matches)
  BY <1>2 DEF Scanned
<1>13. CASE n = limit /\ read' >= MaxSignatures /\ pc' = "done" /\ result' = "capped"
  <2>1. snapshot >= MaxSignatures
    BY <1>3, <1>6, <1>13, Constants
  <2>2. Scanned'
    BY <1>1, <1>12, <1>13 DEF Scanned
  <2>3. Concluded'
    BY <1>1, <1>13, <2>1 DEF Concluded
  <2> QED
    BY <1>1, <1>2, <2>2, <2>3
<1>14. CASE n < limit /\ read' < MaxSignatures /\ pc' = "done"
             /\ result' = (IF Len(matches) = 1 THEN "found" ELSE "ambiguous")
  <2>1. n = Top /\ read' = snapshot /\ Top - n + 1 = 1
    BY <1>3, <1>6, <1>14
  <2>2. Listed(matches) = CandidatesIn(history, 1, snapshot) /\ snapshot < MaxSignatures
    BY <1>11, <1>14, <2>1
  <2>3. Scanned'
    BY <1>1, <1>12, <1>14 DEF Scanned
  <2>4. Concluded'
    BY <1>1, <1>14, <2>2 DEF Concluded
  <2> QED
    BY <1>1, <1>2, <2>3, <2>4
<1>15. CASE n = limit /\ pc' = "page" /\ result' = result /\ before' = page[Len(page)]
  <2>1. page = [k \in 1..Least(limit, Top) |-> Top - k + 1]
    BY <1>1, <1>2 DEF Scanned
  <2>2. n \in 1..Least(limit, Top)
    BY <1>4, <1>5, <1>6, <1>15
  <2>3. before' = Top - n + 1
    BY <1>5, <1>15, <2>1, <2>2
  <2>4. Top' = Top - n /\ before' <= snapshot
    BY <1>3, <1>6, <1>15, <2>3 DEF Top
  <2>5. Listed(matches') = CandidatesIn(history', Top' + 1, snapshot')
    BY <1>1, <1>11, <2>4
  <2>6. Scanned'
    BY <1>1, <1>6, <1>12, <1>15, <2>4, <2>5 DEF Scanned
  <2>7. Concluded'
    BY <1>2, <1>15 DEF Concluded
  <2> QED
    BY <1>1, <1>2, <2>6, <2>7
<1> QED
  BY <1>5, <1>13, <1>14, <1>15, EndPageCases

\* Nothing was looked at yet.
LEMMA InitWhole == HistoryInit => WholeInv
<1> SUFFICES ASSUME HistoryInit PROVE WholeInv
  OBVIOUS
<1>1. /\ history = <<>> /\ kept = 1 /\ pc = "page" /\ before = 0 /\ read = 0
      /\ matches = <<>> /\ result = "none" /\ snapshot = 0
  BY DEF HistoryInit
<1>2. PICK m : m = matches
  OBVIOUS
<1>3. Len(m) = 0 /\ Top = 0
  BY <1>1, <1>2 DEF Top
<1>4. Listed(m) = {} /\ Descends(m)
  BY <1>3 DEF Listed, Descends
<1>5. CandidatesIn(history, Top + 1, snapshot) = {}
  BY <1>1, <1>3 DEF CandidatesIn
<1>6. Scanned
  BY <1>1, <1>2, <1>3, <1>4, <1>5 DEF Scanned
<1> QED
  BY <1>1, <1>6 DEF WholeInv, Concluded

\* Every step keeps what holds with the whole history.
LEMMA NextWhole ==
  ASSUME HistoryInv, WholeInv, HistoryNext \/ UNCHANGED historyVars
  PROVE  WholeInv'
<1>1. CASE \E kind \in Kinds : AddEntry(kind)
  <2>1. UNCHANGED <<archival, reader>> /\ kept' = kept
    BY <1>1 DEF AddEntry
  <2> QED
    BY <2>1, OthersKeepWhole
<1>2. CASE Prune
  <2>1. UNCHANGED <<archival, reader>> /\ ~archival
    BY <1>2 DEF Prune
  <2> QED
    BY <2>1, OthersKeepWhole
<1>3. CASE ReadPage
  BY <1>3, ReadPageKeepsWhole
<1>4. CASE ReadBatch
  BY <1>4, ReadBatchKeepsWhole
<1>5. CASE Unreadable
  <2>1. /\ pc' = "done" /\ result' = "unreadable"
        /\ UNCHANGED <<history, archival, kept, before, read, limit, page, start, matches, snapshot>>
    BY <1>5 DEF Unreadable, Finish
  <2> QED
    BY <2>1 DEF WholeInv, Scanned, Concluded
<1>6. CASE EndPage
  BY <1>6, EndPageKeepsWhole
<1>7. CASE UNCHANGED historyVars
  <2>1. UNCHANGED <<archival, reader>> /\ kept' = kept
    BY <1>7 DEF historyVars
  <2> QED
    BY <2>1, OthersKeepWhole
<1> QED
  BY <1>1, <1>2, <1>3, <1>4, <1>5, <1>6, <1>7 DEF HistoryNext

\* Both invariants hold.
LEMMA Reading == HistorySpec => [](HistoryInv /\ WholeInv)
<1>1. HistoryInit => HistoryInv /\ WholeInv
  BY HistoryInitInv, InitWhole
<1>2. HistoryInv /\ WholeInv /\ [HistoryNext]_historyVars => (HistoryInv /\ WholeInv)'
  <2> SUFFICES ASSUME HistoryInv, WholeInv, HistoryNext \/ UNCHANGED historyVars PROVE HistoryInv' /\ WholeInv'
    BY DEF historyVars
  <2> QED
    BY HistoryNextInv, NextWhole
<1> QED
  BY <1>1, <1>2, PTL DEF HistorySpec

\* Two matches are two entries.
LEMMA OneMatch ==
  ASSUME Descends(matches), Len(matches) \in Nat, \A i \in 1..Len(matches) : matches[i].signature \in Nat,
         NEW p, Listed(matches) = {p}
  PROVE  Len(matches) = 1
<1>1. PICK i \in 1..Len(matches) : matches[i].signature = p
  BY DEF Listed
<1>2. \A j \in 1..Len(matches) : matches[j].signature = p
  BY DEF Listed
<1>3. ASSUME Len(matches) > 1 PROVE FALSE
  <2>1. 1 \in 1..Len(matches) /\ 2 \in 1..Len(matches)
    BY <1>3
  <2>2. matches[2].signature < matches[1].signature
    BY <2>1 DEF Descends
  <2> QED
    BY <1>2, <2>1, <2>2
<1>4. PICK n : n = Len(matches)
  OBVIOUS
<1>5. n \in Nat /\ ~(n > 1) /\ i \in 1..n
  BY <1>1, <1>3, <1>4
<1> QED
  BY <1>4, <1>5

\* What the reader concludes of its matches holds of the snapshot.
LEMMA SnapshotOfInv ==
  ASSUME HistoryInv, WholeInv
  PROVE  SnapshotRead
<1> SUFFICES ASSUME archival
             PROVE  /\ result = "found" => Candidates(snapshot) = {matches[1].signature}
                    /\ result = "ambiguous" => Cardinality(Candidates(snapshot)) # 1
                    /\ result \in {"found", "ambiguous"} => snapshot < MaxSignatures
                    /\ result = "capped" => snapshot >= MaxSignatures
  BY DEF SnapshotRead
<1>1. TypeOK /\ ReadOk /\ Scanned /\ Concluded
  BY DEF HistoryInv, WholeInv
<1>2. Candidates(snapshot) = CandidatesIn(history, 1, snapshot)
  BY DEF Candidates, CandidatesIn, Candidate
<1>3. Len(matches) \in Nat /\ \A i \in 1..Len(matches) : matches[i].signature \in Nat
  <2>1. Len(matches) \in Nat /\ Len(history) \in Nat
    BY <1>1, LenProperties DEF TypeOK
  <2> QED
    BY <1>1, <2>1, MatchTyped
<1>4. ASSUME result = "found" PROVE Candidates(snapshot) = {matches[1].signature}
  <2>1. Len(matches) = 1
    BY <1>1, <1>4 DEF ReadOk
  <2>2. Listed(matches) = {matches[1].signature}
    BY <2>1 DEF Listed
  <2> QED
    BY <1>1, <1>2, <1>4, <2>2 DEF Concluded
<1>5. ASSUME result = "ambiguous", Cardinality(Candidates(snapshot)) = 1 PROVE FALSE
  <2>1. IsFiniteSet(Candidates(snapshot))
    <3>1. IsFiniteSet(1..snapshot)
      BY <1>1, FS_Interval DEF TypeOK
    <3> QED
      BY <3>1, FS_Subset DEF Candidates
  <2>2. PICK p : Candidates(snapshot) = {p}
    BY <1>5, <2>1, FS_Singleton
  <2>3. Listed(matches) = {p}
    BY <1>1, <1>2, <1>5, <2>2 DEF Concluded
  <2>4. Len(matches) = 1
    BY <1>1, <1>3, <2>3, OneMatch DEF Scanned
  <2> QED
    BY <1>1, <1>5, <2>4 DEF Concluded
<1> QED
  BY <1>1, <1>4, <1>5 DEF Concluded

\* A top-level match created the record; with the whole history, so did any.
LEMMA CreatorOfInv ==
  ASSUME HistoryInv, WholeInv
  PROVE  FoundIsCreator
<1> SUFFICES ASSUME result = "found",
                    NEW p, p = matches[1].signature
             PROVE  /\ matches[1].kind = history[p]
                    /\ TopLevel(history[p]) => history[p] \in Creators
                    /\ archival /\ (\E q \in 1..snapshot : history[q] \in Creators)
                         => history[p] \in Creators
  BY DEF FoundIsCreator
<1>1. TypeOK /\ MatchesOk /\ ReadOk
  BY DEF HistoryInv
<1>2. Len(matches) = 1
  BY <1>1 DEF ReadOk
<1>3. matches[1].kind = history[p] /\ Candidate(history, p)
  BY <1>1, <1>2 DEF MatchesOk
<1>4. history[p] # "refused" /\ history[p] # "elsewhere"
  BY <1>3 DEF Candidate, Succeeds, Settles, Names
<1>5. TopLevel(history[p]) => history[p] \in Creators
  BY <1>4 DEF TopLevel, Creators
<1>6. ASSUME archival, NEW q \in 1..snapshot, history[q] \in Creators PROVE history[p] \in Creators
  <2>1. Candidate(history, q)
    BY <1>6 DEF Candidate, Succeeds, Settles, Names, Creators
  <2>2. q \in Candidates(snapshot)
    BY <2>1 DEF Candidates, Candidate
  <2>3. Candidates(snapshot) = {p}
    BY <1>6, SnapshotOfInv DEF SnapshotRead
  <2> QED
    BY <1>6, <2>2, <2>3
<1> QED
  BY <1>3, <1>5, <1>6

\* ledger.ts:1122-1165: with the whole history kept, the answer is that of the moment
\* the first page was read, whatever is added while later pages are read, for any page
\* and batch size and in whichever order batches are answered.
THEOREM PagingIsASnapshot == HistorySpec => []SnapshotRead
<1>1. HistoryInv /\ WholeInv => SnapshotRead
  BY SnapshotOfInv
<1> QED
  BY <1>1, Reading, PTL

\* ledger.ts:999-1014: a top-level settlement that is found created the record, on
\* whichever provider; with the whole history kept, any that is found does.
THEOREM CreationsAreFound == HistorySpec => []FoundIsCreator
<1>1. HistoryInv /\ WholeInv => FoundIsCreator
  BY CreatorOfInv
<1> QED
  BY <1>1, Reading, PTL
=============================================================================
