---------------------------- MODULE PayoutLedger ----------------------------
(***************************************************************************)
(* From a settlement on chain to rows of the payout ledger: what the       *)
(* program leaves in a transaction, what the SDK's reconcile functions     *)
(* compare it with (ledger.ts), what Store.recordPaid writes (store.ts),   *)
(* and the allocation of a pooled payout among its beneficiaries.          *)
(*                                                                         *)
(* Transactions are finalized and read in full: RecordHistory and          *)
(* StudioWorker have what can go wrong before. Token accounts stand for    *)
(* the wallets they belong to.                                             *)
(***************************************************************************)
EXTENDS Split, FiniteSets

CONSTANTS
  Events, Namespaces,
  Namespace,    \* the one of the ledger
  Requests,     \* what may be asked for each event: [asset, amount, shares]
  Landings,     \* how each event may be settled, see LedgerAssumption
  Mint, Decimals,  \* those of the ledger's tokens
  Record,       \* the record's address, of whichever event
  RecordRent,
  PooledLabels,
  Allocations   \* how a caller may share a pool out: sequences of [to, amount]

ASSUME LedgerAssumption ==
  /\ Namespace \in Namespaces
  /\ RecordRent \in Nat
  /\ \A e \in Events : \A how \in Landings[e] :
       /\ how.namespace \in Namespaces
       /\ how.scale \in Nat \ {0}   \* on-chain units per atomic unit
       /\ how.prefund \in Nat       \* what somebody sent to the record before
       /\ how.beside \in {"none", "create", "another"}   \* instructions beside it
       /\ \A k \in 1..Len(how.memos) :   \* each names an event, and its amount or not
            how.memos[k] \in [event : Events, exact : BOOLEAN]
       /\ how.decimals \in Nat      \* of how.mint, which matters to tokens,
       /\ how.associated \in BOOLEAN    \* as whether the accounts are the wallets' own
  /\ \A e \in Events : \A r \in Requests[e] :
       /\ r.amount \in Nat
       /\ Len(r.shares) \in Nat
       /\ \A k \in 1..Len(r.shares) : r.shares[k].bps \in Nat
  /\ \A allocation \in Allocations :
       /\ Len(allocation) \in Nat
       /\ \A k \in 1..Len(allocation) : allocation[k].amount \in Nat

Scales == UNION {{how.scale : how \in Landings[e]} : e \in Events}

NoRequest == [asset |-> "none"]

VARIABLES
  landed,       \* the finalized settlements
  requests,     \* events.request and events.beneficiary_ids
  settlements,  \* the transaction each paid event was recorded from, if any
  entries,      \* ledger_entries, by entry id
  pools,        \* pool_payouts, by event and role
  accrued       \* what the caller's ledger owes out of pools, by entry id

vars == <<landed, requests, settlements, entries, pools, accrued>>

Init ==
  /\ landed = {}
  /\ requests = [e \in Events |-> NoRequest]
  /\ settlements = [e \in Events |-> {}]
  /\ entries = <<>> /\ pools = <<>> /\ accrued = <<>>

-----------------------------------------------------------------------------
(* Requests                                                                *)

Column(shares, field) == [k \in 1..Len(shares) |-> shares[k][field]]

LabelsOk(shares) ==
  \A j, k \in 1..Len(shares) : shares[j].label = shares[k].label => j = k

\* computeSettlementN
Computable(r) ==
  /\ LabelsOk(r.shares)
  /\ SplitVerdict(r.amount, Column(r.shares, "bps")) = "ok"

Enqueue(e, r) ==
  /\ requests[e] = NoRequest
  /\ Computable(r)
  /\ requests' = [requests EXCEPT ![e] = r]
  /\ UNCHANGED <<landed, settlements, entries, pools, accrued>>

-----------------------------------------------------------------------------
(* The chain                                                               *)

F == INSTANCE Functions

\* A transfer of nothing is left out. Those that are made keep their places.
NonZero(transfers) == F!Restrict(transfers, {k \in DOMAIN transfers : transfers[k].amount > 0})

Transfer(from, to, amount) == [from |-> from, to |-> to, amount |-> amount]

TopUp(tx) ==
  Transfer(tx.payer, Record, IF tx.prefund < RecordRent THEN RecordRent - tx.prefund ELSE 0)

\* The transfers the program invokes, in order: the record's rent, the payouts.
InnerTransfers(tx) ==
  NonZero([k \in 0..Len(tx.to) |->
             IF k = 0 THEN TopUp(tx)
             ELSE Transfer(tx.payer, tx.to[k], Payouts(tx.amount, tx.bps)[k])])

\* A settlement of the event, built from request r.
Settlement(e, r, how) ==
  LET amount == r.amount * how.scale
  IN [event |-> e, namespace |-> how.namespace, asset |-> r.asset, payer |-> how.payer,
      amount |-> amount, bps |-> Column(r.shares, "bps"),
      to |-> Column(r.shares, "recipient"), prefund |-> how.prefund,
      beside |-> how.beside,
      memos |-> [k \in 1..Len(how.memos) |->
                   [event |-> how.memos[k].event,
                    total |-> IF how.memos[k].exact THEN amount ELSE amount + 1]],
      accounts |-> IF r.asset = "SOL" THEN {}
                   ELSE {[mint |-> how.mint, decimals |-> how.decimals, associated |-> how.associated]}]

\* Nobody is paid at the record's address, nor tokens at the account they come from.
RecipientsOk(tx) ==
  \A k \in 1..Len(tx.to) : tx.to[k] # Record /\ (tx.asset # "SOL" => tx.to[k] # tx.payer)

\* The program executes one per event and namespace.
Land(e, r, how) ==
  LET tx == Settlement(e, r, how)
  IN /\ \A t \in landed : <<t.namespace, t.event>> # <<how.namespace, e>>
     /\ RecipientsOk(tx)
     /\ SplitVerdict(tx.amount, tx.bps) = "ok"
     /\ landed' = landed \cup {tx}
     /\ UNCHANGED <<requests, settlements, entries, pools, accrued>>

-----------------------------------------------------------------------------
(* Evidence: observeProgramSettlement and reconcileObservedSettlementN, and *)
(* their token counterparts                                                *)

\* findSettlementInstruction: alone, or beside the creation of its namespace.
SettlementFound(tx) == tx.beside \in {"none", "create"}

\* extractMemo: exactly one.
MemoFound(tx) == Len(tx.memos) = 1

\* The observation of either kind: what throws otherwise.
Readable(tx) == SettlementFound(tx) /\ MemoFound(tx)

\* Faulty variant of InnerGroup: the first instruction's.
FirstGroup(tx) ==
  IF tx.beside = "create"
  THEN <<Transfer(tx.payer, tx.namespace, RecordRent)>>
  ELSE InnerTransfers(tx)

\* The inner instructions of the settlement, whatever stands before it.
InnerGroup(tx) == InnerTransfers(tx)

\* Native: system transfers, but for the record's rent. Token: token transfers,
\* and the rent is not one.
ObservedTransfers(tx) ==
  F!Restrict(InnerGroup(tx), {k \in DOMAIN InnerGroup(tx) : InnerGroup(tx)[k].to # Record})

ExpectedTransfers(payer, r, s) ==
  NonZero([k \in 1..Len(r.shares) |->
             Transfer(payer, r.shares[k].recipient,
                      Payouts(r.amount * s, Column(r.shares, "bps"))[k])])

Occurrences(t, transfers) == Cardinality({k \in DOMAIN transfers : transfers[k] = t})

\* The same transfers, in whatever order.
SameTransfers(a, b) ==
  /\ Cardinality(DOMAIN a) = Cardinality(DOMAIN b)
  /\ \A k \in DOMAIN a : Occurrences(a[k], a) = Occurrences(a[k], b)

\* assertMemo, assertTokenMemo: the memo repeats the request, of which the event
\* and the scaled amount stand for the rest.
MemoMatches(tx, e, r, s) == tx.memos[1] = [event |-> e, total |-> r.amount * s]

\* Tokens are those of the ledger, between the wallets' associated accounts.
AssetMatches(tx, r) ==
  /\ tx.asset = r.asset
  /\ \A account \in tx.accounts :
       account = [mint |-> Mint, decimals |-> Decimals, associated |-> TRUE]

\* Faulty variant of FieldsMatch: whose event it is, is not compared.
FieldsOfPayout(tx, e, r, s) ==
  /\ tx.amount = r.amount * s /\ AssetMatches(tx, r)
  /\ tx.bps = Column(r.shares, "bps") /\ tx.to = Column(r.shares, "recipient")

FieldsMatch(tx, e, r, s) ==
  /\ tx.namespace = Namespace
  /\ tx.event = e
  /\ tx.amount = r.amount * s
  /\ AssetMatches(tx, r)
  /\ tx.bps = Column(r.shares, "bps")
  /\ tx.to = Column(r.shares, "recipient")
  /\ MemoMatches(tx, e, r, s)

Reconciles(tx, e, r, s) ==
  /\ Computable(r)
  /\ Readable(tx)
  /\ FieldsMatch(tx, e, r, s)
  /\ SameTransfers(ExpectedTransfers(tx.payer, r, s), ObservedTransfers(tx))

-----------------------------------------------------------------------------
(* Ledger rows                                                             *)

CanonicalRole(label) == IF label = "synxed" THEN "platform" ELSE label

Pooled(share) == share.label \in PooledLabels

\* Without an id of the caller's, the wallet is the beneficiary.
Beneficiary(share) ==
  IF share.beneficiary = <<>> THEN <<"wallet", share.recipient>> ELSE share.beneficiary

\* One transaction creates the record of one event in one namespace.
Signature(tx) == <<tx.namespace, tx.event>>

\* Faulty variant of EntryId: without the role.
EntryIdOfBeneficiary(signature, role, beneficiary) == <<signature, beneficiary>>

\* ledgerEntryId: a hash of these, taken to be without collisions.
EntryId(signature, role, beneficiary) == <<signature, role, beneficiary>>

PayoutLines(r, tx) ==
  [k \in 1..Len(r.shares) |->
     [share |-> r.shares[k], amount |-> Payouts(tx.amount, tx.bps)[k]]]

DirectEntries(e, r, tx) ==
  LET lines == PayoutLines(r, tx)
  IN [k \in {k \in DOMAIN lines : ~Pooled(lines[k].share)} |->
       [key |-> EntryId(Signature(tx), CanonicalRole(lines[k].share.label),
                        Beneficiary(lines[k].share)),
        event |-> e, beneficiary |-> Beneficiary(lines[k].share),
        wallet |-> lines[k].share.recipient, amount |-> lines[k].amount]]

PoolPayouts(e, r, tx) ==
  LET lines == PayoutLines(r, tx)
  IN [k \in {k \in DOMAIN lines : Pooled(lines[k].share)} |->
       [key |-> <<e, CanonicalRole(lines[k].share.label)>>,
        signature |-> Signature(tx), wallet |-> lines[k].share.recipient,
        amount |-> lines[k].amount]]

\* INSERT OR IGNORE, row after row: the first one with a key stays.
Inserted(table, rows) ==
  [key \in DOMAIN table \cup {rows[k].key : k \in DOMAIN rows} |->
     IF key \in DOMAIN table THEN table[key]
     ELSE rows[CHOOSE k \in DOMAIN rows :
                 rows[k].key = key /\ \A j \in DOMAIN rows : j < k => rows[j].key # key]]

\* The worker reconciles the transaction with the request as an attempt stored
\* it, at scale s; a second worker may do so again.
RecordPaid(e, tx, s) ==
  /\ requests[e] # NoRequest
  /\ Reconciles(tx, e, requests[e], s)
  /\ settlements' = [settlements EXCEPT ![e] = IF @ = {} THEN {tx} ELSE @]
  /\ entries' = Inserted(entries, DirectEntries(e, requests[e], tx))
  /\ pools' = Inserted(pools, PoolPayouts(e, requests[e], tx))
  /\ UNCHANGED <<landed, requests, accrued>>

\* Faulty variant of Allocates: a beneficiary may be named twice.
AllocatesRepeatedly(allocation, amount) ==
  /\ Len(allocation) \in Slots
  /\ \A k \in 1..Len(allocation) : allocation[k].amount > 0
  /\ Total(Padded(Column(allocation, "amount"))) = amount

\* The checks of allocatePoolPayout, but for the one of a blank name, which no beneficiary
\* has here; pools are shared among at most MAX_SHARES.
Allocates(allocation, amount) ==
  /\ Len(allocation) \in Slots
  /\ \A j, k \in 1..Len(allocation) : allocation[j].to = allocation[k].to => j = k
  /\ \A k \in 1..Len(allocation) : allocation[k].amount > 0
  /\ Total(Padded(Column(allocation, "amount"))) = amount

\* The caller shares a pool out once, and keeps the entries by their ids.
AllocatePool(key, allocation) ==
  LET rows == [k \in 1..Len(allocation) |->
                 [key |-> EntryId(pools[key].signature, key[2], allocation[k].to),
                  pool |-> key, amount |-> allocation[k].amount]]
  IN /\ \A id \in DOMAIN accrued : accrued[id].pool # key
     /\ Allocates(allocation, pools[key].amount)
     /\ accrued' = Inserted(accrued, rows)
     /\ UNCHANGED <<landed, requests, settlements, entries, pools>>

Next ==
  \/ \E e \in Events : \/ \E r \in Requests[e] : Enqueue(e, r)
                       \/ \E r \in Requests[e], how \in Landings[e] : Land(e, r, how)
  \/ \E e \in Events, tx \in landed, s \in Scales : RecordPaid(e, tx, s)
  \/ \E key \in DOMAIN pools, allocation \in Allocations : AllocatePool(key, allocation)

Spec == Init /\ [][Next]_vars

-----------------------------------------------------------------------------
(* Properties                                                              *)

SumOver(f) == F!FoldFunction(LAMBDA x, y : x + y, 0, f)

\* What the transaction moved into wallet w as payouts.
Received(tx, w) ==
  LET inner == InnerTransfers(tx)
  IN SumOver([k \in {k \in DOMAIN inner \ {0} : inner[k].to = w} |-> inner[k].amount])

\* What the transactions in S did.
PaidInto(S, w) == SumOver([tx \in S |-> Received(tx, w)])

Wallets == UNION {{r.shares[k].recipient : k \in 1..Len(r.shares)} : r \in UNION {Requests[e] : e \in Events}}

\* Shares that become one role are paid as two: not from one pool, nor to one
\* beneficiary.
RolesApart(shares) ==
  \A j, k \in 1..Len(shares) :
    shares[j].label = "synxed" /\ shares[k].label = "platform" =>
      /\ ~(Pooled(shares[j]) /\ Pooled(shares[k]))
      /\ Pooled(shares[j]) \/ Pooled(shares[k]) \/ Beneficiary(shares[j]) # Beneficiary(shares[k])

\* docs/payout-ledger.md, "Reconciliation": of every paid event, the rows credit
\* to each wallet exactly what the chain moved into it. No payout is lost by a
\* row with another's id, and none is credited twice. (Where roles are not apart
\* one is: see EntryPerShare.)
LedgerFollowsChain ==
  \A e \in Events, w \in Wallets :
    (settlements[e] # {} => RolesApart(requests[e].shares)) =>
    LET own == {id \in DOMAIN entries : entries[id].event = e /\ entries[id].wallet = w}
        shared == {key \in DOMAIN pools : key[1] = e /\ pools[key].wallet = w}
    IN SumOver([id \in own |-> entries[id].amount]) + SumOver([key \in shared |-> pools[key].amount])
         = PaidInto(settlements[e], w)

\* An event is paid only from its own settlement, in the ledger's namespace, that
\* moved to each wallet what the request asks for at one of the scales, in the ledger's tokens.
PaidAsAsked ==
  \A e \in Events : \A tx \in settlements[e] :
    /\ tx.event = e /\ tx.namespace = Namespace
    /\ \A account \in tx.accounts : account.mint = Mint
    /\ \E s \in Scales : \A w \in Wallets :
         LET r == requests[e]
             pays == Payouts(r.amount * s, Column(r.shares, "bps"))
         IN Received(tx, w) =
              SumOver([k \in {k \in 1..Len(r.shares) : r.shares[k].recipient = w} |-> pays[k]])

\* The worker's own settlement always reconciles, whatever was sent to the record
\* before, with shares of nothing, a wallet named twice, the payer among the
\* recipients or the namespace opened beside it: it never reads as an incident.
OwnReconciles ==
  \A tx \in landed, s \in Scales :
    LET r == requests[tx.event]
    IN r # NoRequest /\ Readable(tx) /\ FieldsMatch(tx, tx.event, r, s)
         => Reconciles(tx, tx.event, r, s)

\* ledger.ts:834: a pool that was shared out is shared out entirely.
PoolsConserved ==
  \A key \in DOMAIN pools :
    LET ids == {id \in DOMAIN accrued : accrued[id].pool = key}
    IN ids # {} => SumOver([id \in ids |-> accrued[id].amount]) = pools[key].amount

\* docs/studio-integration.md, section 6: a paid event has "one `paid` ledger
\* entry per direct share".
EntryPerShare ==
  \A e \in Events :
    settlements[e] # {} =>
      Cardinality({id \in DOMAIN entries : entries[id].event = e})
        = Cardinality({k \in 1..Len(requests[e].shares) : ~Pooled(requests[e].shares[k])})
=============================================================================
