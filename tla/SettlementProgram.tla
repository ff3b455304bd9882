------------------------- MODULE SettlementProgram -------------------------
(***************************************************************************)
(* The on-chain program (programs/synxed-settlement): its instructions and *)
(* the accounts of the bank they run on.                                   *)
(*                                                                         *)
(* An action is one transaction the bank executes: the accounts and        *)
(* arguments are the caller's choice, the guard is every check of the      *)
(* processor and of the programs it invokes, and a transaction that fails  *)
(* changes nothing. Addresses the program derives from seeds are tuples of *)
(* the seeds: that two derivations never collide is the hash function's.   *)
(* Fees are charged outside the program and left out.                      *)
(***************************************************************************)
EXTENDS Split, FiniteSets

CONSTANTS
  Keys,              \* wallets, the addresses that can sign
  Creators,          \* the wallets that open namespaces
  ZeroKey,           \* the all-zero key
  NamespaceIds, Events,
  Amounts,           \* gross amounts an instruction may carry
  BpsVectors,        \* basis points it may carry
  RecipientVectors,  \* recipient accounts a caller may pass
  AuthorityArgs,     \* authorities CreateNamespace may be given
  Impostors,         \* accounts of other programs laid out like a namespace
  Claims,            \* the authority each of those names
  TokenAccounts, Mints,
  Mint,              \* the mint of each token account
  Holder,            \* the wallet that owns each token account
  Decimals,          \* the decimals of each mint
  DecimalsArgs,      \* decimals an instruction may carry
  Deposits,          \* what a wallet may send in a plain transfer
  DepositTargets,    \* and where
  WalletRent, RecordRent, NamespaceRent,  \* rent-exempt minimums
  InitialLamports, InitialTokens

NamespaceAddr(creator, id) == <<"namespace", creator, id>>
RecordAddr(n, e) == <<"settlement", n, e>>

NamespaceAddrs == {NamespaceAddr(c, id) : c \in Creators, id \in NamespaceIds}
RecordAddrs == {RecordAddr(n, e) : n \in NamespaceAddrs \cup Impostors, e \in Events}

Addresses == Keys \cup NamespaceAddrs \cup RecordAddrs \cup Impostors \cup TokenAccounts

ASSUME AddressAssumption ==
  /\ Keys \cap (NamespaceAddrs \cup RecordAddrs \cup Impostors \cup TokenAccounts) = {}
  /\ NamespaceAddrs \cap (RecordAddrs \cup Impostors \cup TokenAccounts) = {}
  /\ RecordAddrs \cap (Impostors \cup TokenAccounts) = {}
  /\ Impostors \cap TokenAccounts = {}
  /\ ZeroKey \notin Keys \cup NamespaceAddrs

\* An address is 32 bytes: there are only so many accounts.
ASSUME FiniteAssumption == IsFiniteSet(Addresses)

ASSUME InputAssumption ==
  /\ Creators \subseteq Keys
  /\ Amounts \subseteq Nat /\ Deposits \subseteq Nat
  /\ DepositTargets \subseteq Addresses
  /\ BpsVectors \subseteq Seq(Nat)
  /\ Claims \in [Impostors -> Keys]
  /\ RecipientVectors \subseteq Seq(Addresses)
  /\ Mint \in [TokenAccounts -> Mints]
  /\ Holder \in [TokenAccounts -> Keys]
  /\ {WalletRent, RecordRent, NamespaceRent, InitialLamports, InitialTokens} \subseteq Nat
  /\ WalletRent > 0 /\ RecordRent > 0 /\ NamespaceRent > 0

Empty == [kind |-> "empty"]
NamespaceData(c, id, k) ==
  [kind |-> "namespace", creator |-> c, id |-> id, authority |-> k]
RecordData(e, amount) == [kind |-> "record", event |-> e, amount |-> amount]

VARIABLES
  owner,     \* the program that owns each account
  data,      \* what the account holds
  lamports,  \* its native balance
  tokens,    \* the balance of each token account
  signers,   \* the keys that signed the transaction just executed
  settling   \* the records of the events that transaction paid for

vars == <<owner, data, lamports, tokens, signers, settling>>

Init ==
  /\ owner = [a \in Addresses |-> CASE a \in Impostors     -> "other"
                                    [] a \in TokenAccounts -> "token"
                                    [] OTHER               -> "system"]
  /\ data = [a \in Addresses |->
               CASE a \in Impostors     -> NamespaceData(a, a, Claims[a])
                 [] a \in TokenAccounts -> [kind |-> "token"]
                 [] OTHER               -> Empty]
  /\ lamports = [a \in Addresses |-> CASE a \in Keys -> InitialLamports
                                       [] a \in Impostors \cup TokenAccounts -> NamespaceRent
                                       [] OTHER -> 0]
  /\ tokens = [t \in TokenAccounts |-> InitialTokens]
  /\ signers = {}
  /\ settling = {}

-----------------------------------------------------------------------------
(* Checks and effects, on an owner map o, a data map d and balances l: a   *)
(* transaction of two instructions applies the second to what the first    *)
(* leaves.                                                                 *)

\* Faulty variant of Authorized: no signature asked.
AuthorizedUnsigned(o, d, S, authority, n) ==
  /\ o[n] = "program"
  /\ d[n].kind = "namespace"
  /\ d[n].authority = authority

Authorized(o, d, S, authority, n) ==
  /\ authority \in S
  /\ o[n] = "program"
  /\ d[n].kind = "namespace"
  /\ d[n].authority = authority

\* Faulty variant of Shortfall: only an address without lamports is funded.
ShortfallOfEmpty(l, a, rent) == IF l[a] = 0 THEN rent ELSE 0

Shortfall(l, a, rent) == IF l[a] < rent THEN rent - l[a] ELSE 0

\* Faulty variant of Free: create_account's test.
FreeIfNoLamports(o, d, l, a) == o[a] = "system" /\ d[a] = Empty /\ l[a] = 0

\* create_program_account: an account is free while the System Program owns it
\* and it holds no data, whatever lamports somebody sent there.
Free(o, d, l, a) == o[a] = "system" /\ d[a] = Empty

Creatable(o, d, l, S, payer, a, rent) ==
  /\ payer \in S
  /\ Free(o, d, l, a)
  /\ l[payer] >= Shortfall(l, a, rent)

ToppedUp(l, payer, a, rent) ==
  [l EXCEPT ![payer] = @ - Shortfall(l, a, rent),
            ![a] = @ + Shortfall(l, a, rent)]

\* Faulty variant of CreditedTo: a recipient named twice is paid once.
CreditedToFirst(pays, to, a) ==
  IF \E j \in 1..Len(to) : to[j] = a
  THEN pays[CHOOSE j \in 1..Len(to) : to[j] = a]
  ELSE 0

\* What the payouts bring to account a.
CreditedTo(pays, to, a) ==
  Total([j \in Slots |-> IF j <= Len(to) /\ to[j] = a THEN pays[j] ELSE 0])

\* What the first k - 1 payouts take from the payer: a transfer to oneself
\* moves nothing.
SpentBefore(pays, to, payer, k) ==
  Total([j \in Slots |-> IF j < k /\ j <= Len(to) /\ to[j] # payer THEN pays[j] ELSE 0])

\* Each transfer needs its whole amount in the payer's balance at its turn.
Affordable(balance, pays, to, payer) ==
  \A k \in 1..Len(to) : balance >= SpentBefore(pays, to, payer, k) + pays[k]

Transferred(l, pays, to, payer) ==
  [a \in DOMAIN l |-> l[a] + CreditedTo(pays, to, a)
                      - IF a = payer THEN Total(pays) ELSE 0]

\* The bank refuses a transaction that leaves an account it changed with fewer
\* lamports than its size must hold, unless it is emptied.
MinBalance(d) == CASE d.kind = "namespace" -> NamespaceRent
                   [] d.kind = "record"    -> RecordRent
                   [] d.kind = "token"     -> NamespaceRent
                   [] d.kind = "empty"     -> WalletRent

RentStateOk(l2, d2) ==
  \A a \in Addresses :
    l2[a] # lamports[a] => l2[a] = 0 \/ l2[a] >= MinBalance(d2[a])

-----------------------------------------------------------------------------
(* Instructions *)

CreateNamespaceOk(o, d, l, S, payer, creator, id, authority) ==
  /\ creator \in S
  /\ authority # ZeroKey
  /\ Creatable(o, d, l, S, payer, NamespaceAddr(creator, id), NamespaceRent)

\* Faulty variant of RecipientsOk: only the record itself is refused.
RecipientsNotRecord(o, record, to) == \A k \in 1..Len(to) : to[k] # record

\* A payout to an account of the program could never be recovered.
RecipientsOk(o, record, to) ==
  \A k \in 1..Len(to) : to[k] # record /\ o[to[k]] # "program"

\* Every check of settle, of the record's creation and of the transfers.
SettleOk(o, d, l, S, payer, authority, n, to, e, amount, bps) ==
  LET record == RecordAddr(n, e)
      funded == ToppedUp(l, payer, record, RecordRent)
  IN /\ Len(to) = Len(bps)
     /\ Authorized(o, d, S, authority, n)
     /\ Creatable(o, d, l, S, payer, record, RecordRent)
     /\ RecipientsOk(o, record, to)
     /\ SplitVerdict(amount, bps) = "ok"
     /\ Affordable(funded[payer], Payouts(amount, bps), to, payer)

Settled(l, payer, n, to, e, amount, bps) ==
  Transferred(ToppedUp(l, payer, RecordAddr(n, e), RecordRent),
              Payouts(amount, bps), to, payer)

CreateNamespace(S, payer, creator, id, authority) ==
  LET n == NamespaceAddr(creator, id)
  IN /\ CreateNamespaceOk(owner, data, lamports, S, payer, creator, id, authority)
     /\ owner' = [owner EXCEPT ![n] = "program"]
     /\ data' = [data EXCEPT ![n] = NamespaceData(creator, id, authority)]
     /\ lamports' = ToppedUp(lamports, payer, n, NamespaceRent)
     /\ RentStateOk(lamports', data')
     /\ settling' = {}
     /\ UNCHANGED tokens

\* Faulty variant of SetNamespaceAuthority: the new authority is written over
\* the creator too.
SetNamespaceOwner(S, authority, n, newAuthority) ==
  /\ Authorized(owner, data, S, authority, n)
  /\ newAuthority # ZeroKey
  /\ newAuthority \in S
  /\ data' = [data EXCEPT ![n].authority = newAuthority, ![n].creator = newAuthority]
  /\ settling' = {}
  /\ UNCHANGED <<owner, lamports, tokens>>

SetNamespaceAuthority(S, authority, n, newAuthority) ==
  /\ Authorized(owner, data, S, authority, n)
  /\ newAuthority # ZeroKey
  /\ newAuthority \in S
  /\ data' = [data EXCEPT ![n].authority = newAuthority]
  /\ settling' = {}
  /\ UNCHANGED <<owner, lamports, tokens>>

SettleN(S, payer, authority, n, to, e, amount, bps) ==
  LET record == RecordAddr(n, e)
  IN /\ SettleOk(owner, data, lamports, S, payer, authority, n, to, e, amount, bps)
     /\ owner' = [owner EXCEPT ![record] = "program"]
     /\ data' = [data EXCEPT ![record] = RecordData(e, amount)]
     /\ lamports' = Settled(lamports, payer, n, to, e, amount, bps)
     /\ RentStateOk(lamports', data')
     /\ settling' = {record}
     /\ UNCHANGED tokens

\* Faulty variant of TokenAccountsOk: tokens of whoever holds them.
TokensOfAnybody(pays, payer, source, mint, decimals, to, record) ==
  /\ owner[source] = "token" /\ \A k \in 1..Len(to) : owner[to[k]] = "token"
  /\ Decimals[mint] = decimals
  /\ Mint[source] = mint
  /\ \A k \in 1..Len(to) : to[k] # source /\ Mint[to[k]] = mint
  /\ tokens[source] >= Total(pays)

\* The checks of settle_token on the token accounts, and the token program's:
\* the transfers together take the whole amount out of the source.
TokenAccountsOk(pays, payer, source, mint, decimals, to, record) ==
  /\ owner[source] = "token" /\ \A k \in 1..Len(to) : owner[to[k]] = "token"
  /\ Decimals[mint] = decimals
  /\ Mint[source] = mint /\ Holder[source] = payer
  /\ \A k \in 1..Len(to) :
       to[k] # source /\ to[k] # record /\ Mint[to[k]] = mint
  /\ tokens[source] >= Total(pays)

SettleTokenN(S, payer, authority, n, source, mint, to, e, amount, decimals, bps) ==
  LET record == RecordAddr(n, e)
      pays == Payouts(amount, bps)
  IN /\ Len(to) = Len(bps)
     /\ Authorized(owner, data, S, authority, n)
     /\ Creatable(owner, data, lamports, S, payer, record, RecordRent)
     /\ SplitVerdict(amount, bps) = "ok"
     /\ TokenAccountsOk(pays, payer, source, mint, decimals, to, record)
     /\ owner' = [owner EXCEPT ![record] = "program"]
     /\ data' = [data EXCEPT ![record] = RecordData(e, amount)]
     /\ lamports' = ToppedUp(lamports, payer, record, RecordRent)
     /\ tokens' = Transferred(tokens, pays, to, source)
     /\ RentStateOk(lamports', data')
     /\ settling' = {record}

\* The two-instruction transaction of an integrator's first settlement: open
\* the namespace and settle in it, or neither.
FirstSettlement(S, payer, creator, id, authority, to, e, amount, bps) ==
  LET n == NamespaceAddr(creator, id)
      record == RecordAddr(n, e)
      o == [owner EXCEPT ![n] = "program"]
      d == [data EXCEPT ![n] = NamespaceData(creator, id, authority)]
      l == ToppedUp(lamports, payer, n, NamespaceRent)
  IN /\ CreateNamespaceOk(owner, data, lamports, S, payer, creator, id, authority)
     /\ SettleOk(o, d, l, S, payer, authority, n, to, e, amount, bps)
     /\ owner' = [o EXCEPT ![record] = "program"]
     /\ data' = [d EXCEPT ![record] = RecordData(e, amount)]
     /\ lamports' = Settled(l, payer, n, to, e, amount, bps)
     /\ RentStateOk(lamports', data')
     /\ settling' = {record}
     /\ UNCHANGED tokens

\* A plain transfer: anyone can send lamports to any address.
Deposit(S, from, to, amount) ==
  /\ from \in S
  /\ from # to
  /\ lamports[from] >= amount
  /\ lamports' = [lamports EXCEPT ![from] = @ - amount, ![to] = @ + amount]
  /\ RentStateOk(lamports', data)
  /\ settling' = {}
  /\ UNCHANGED <<owner, data, tokens>>

\* A transaction that fails changes nothing. Checks that do not need the rest of its
\* data are made before that data is chosen.
Next ==
  \E S \in SUBSET Keys :
    /\ signers' = S
    /\ \/ \E payer \in Keys, creator \in Creators, id \in NamespaceIds, k \in AuthorityArgs :
            CreateNamespace(S, payer, creator, id, k)
       \/ \E k \in Keys, n \in NamespaceAddrs \cup Impostors, new \in AuthorityArgs :
            SetNamespaceAuthority(S, k, n, new)
       \/ \E payer, k \in Keys, n \in NamespaceAddrs \cup Impostors :
            /\ Authorized(owner, data, S, k, n)
            /\ \E to \in RecipientVectors, e \in Events, amount \in Amounts, bps \in BpsVectors :
                 /\ Creatable(owner, data, lamports, S, payer, RecordAddr(n, e), RecordRent)
                 /\ SplitVerdict(amount, bps) = "ok" /\ Len(to) = Len(bps)
                 /\ \/ SettleN(S, payer, k, n, to, e, amount, bps)
                    \/ \E source \in TokenAccounts, mint \in Mints, decimals \in DecimalsArgs :
                         SettleTokenN(S, payer, k, n, source, mint, to, e, amount, decimals, bps)
       \/ \E payer \in Keys, creator \in Creators, id \in NamespaceIds, k \in Keys :
            /\ CreateNamespaceOk(owner, data, lamports, S, payer, creator, id, k)
            /\ \E to \in RecipientVectors, e \in Events, amount \in Amounts, bps \in BpsVectors :
                 FirstSettlement(S, payer, creator, id, k, to, e, amount, bps)
       \/ \E from \in Keys, to \in DepositTargets, amount \in Deposits :
            Deposit(S, from, to, amount)

Spec == Init /\ [][Next]_vars

-----------------------------------------------------------------------------
(* Properties *)

Owners == {"system", "program", "token", "other"}

DataValues ==
  {Empty, [kind |-> "token"]}
    \cup {NamespaceData(c, id, k) : c \in Creators, id \in NamespaceIds, k \in AuthorityArgs \cup Keys}
    \cup {NamespaceData(a, a, k) : a \in Impostors, k \in Keys}
    \cup {RecordData(e, amount) : e \in Events, amount \in Amounts}

\* Balances never go below zero, and every account has a legal owner and data.
TypeOK ==
  /\ owner \in [Addresses -> Owners]
  /\ data \in [Addresses -> DataValues]
  /\ lamports \in [Addresses -> Nat]
  /\ tokens \in [TokenAccounts -> Nat]
  /\ signers \in SUBSET Keys
  /\ settling \in SUBSET RecordAddrs

IsNamespace(n) ==
  \E c \in Creators, id \in NamespaceIds :
    /\ n = NamespaceAddr(c, id)
    /\ owner[n] = "program"
    /\ \E k \in (AuthorityArgs \cup Keys) \ {ZeroKey} : data[n] = NamespaceData(c, id, k)

IsRecord(r) ==
  \E n \in NamespaceAddrs, e \in Events :
    /\ r = RecordAddr(n, e)
    /\ owner[r] = "program"
    /\ \E amount \in Amounts \ {0} : data[r] = RecordData(e, amount)
    /\ IsNamespace(n)

\* Every account the program owns is a namespace or a record at the address
\* derived for it, and a record's namespace exists: no record of an unopened or
\* look-alike namespace, no namespace without a possible authority.
ProgramAccounts ==
  \A a \in Addresses : owner[a] = "program" => IsNamespace(a) \/ IsRecord(a)

\* An account of the program is never closed, debited or rewritten, and only a
\* namespace's authority ever changes: an event stays settled, for the amount it
\* was settled for, across every later rotation, deposit and settlement.
AccountsPermanent ==
  [][\A a \in Addresses : owner[a] = "program" =>
       /\ owner'[a] = "program"
       /\ lamports'[a] >= lamports[a]
       /\ \/ data'[a] = data[a]
          \/ /\ data[a].kind = "namespace"
             /\ data'[a] = [data[a] EXCEPT !.authority = data'[a].authority]]_vars

\* Nobody's lamports and nobody's tokens are spent without a signature of the
\* wallet that holds them, whoever pays, settles or tops up a rent.
NoUnsignedDebit ==
  [][/\ \A a \in Addresses : lamports'[a] < lamports[a] => a \in signers'
     /\ \A t \in TokenAccounts : tokens'[t] < tokens[t] => Holder[t] \in signers']_vars

F == INSTANCE Functions

SumOver(f) == F!FoldFunction(LAMBDA x, y : x + y, 0, f)

\* Transactions move lamports and tokens and never make or lose any, also when a
\* recipient appears twice or is the payer.
Conserved ==
  /\ SumOver(lamports) =
       InitialLamports * SumOver([k \in Keys |-> 1])
       + NamespaceRent * SumOver([a \in Impostors \cup TokenAccounts |-> 1])
  /\ \A m \in Mints :
       SumOver([t \in TokenAccounts |-> IF Mint[t] = m THEN tokens[t] ELSE 0])
         = InitialTokens * SumOver([t \in {u \in TokenAccounts : Mint[u] = m} |-> 1])

\* What the program creates holds its rent-exempt minimum for ever, however much
\* or little the address held before.
RentExempt ==
  \A a \in Addresses :
    owner[a] = "program" => lamports[a] >= MinBalance(data[a])

\* processor.rs:185-187: no settlement pays into an account nothing can debit. A
\* transaction that changes an account of the program leaves every such account
\* with what it held or its rent-exempt minimum, whichever is more.
PayoutsRecoverable ==
  [][data' # data =>
       \A a \in Addresses : owner'[a] = "program" =>
         \/ lamports'[a] = lamports[a]
         \/ /\ owner[a] # "program"
            /\ lamports'[a] = MinBalance(data'[a])]_vars

\* In every reachable state, whatever was sent to its record address before, an
\* event not settled in an open namespace can be settled by the namespace's
\* authority, by any wallet that can afford it.
NeverBlocked ==
  \A n \in NamespaceAddrs, e \in Events, payer, to \in Keys, amount \in Amounts \ {0} :
    LET record == RecordAddr(n, e)
        k == data[n].authority
        after == Settled(lamports, payer, n, <<to>>, e, amount, <<BPS_DENOMINATOR>>)
    IN /\ owner[n] = "program" /\ k \in Keys
       /\ owner[record] # "program"
       /\ lamports[payer] >= RecordRent + amount + WalletRent
       /\ amount >= WalletRent
       => /\ SettleOk(owner, data, lamports, {payer, k}, payer, k, n, <<to>>, e,
                      amount, <<BPS_DENOMINATOR>>)
          /\ RentStateOk(after, [data EXCEPT ![record] = RecordData(e, amount)])

\* The program implements the book: events are settled once and namespaces
\* opened, handed over and used by the keys entitled to, in every transaction.
Book == INSTANCE SettlementBook WITH
  Namespaces <- NamespaceAddrs,
  Creator <- [n \in NamespaceAddrs |-> n[2]],
  Nobody <- ZeroKey,
  Authorities <- (AuthorityArgs \cup Keys) \ {ZeroKey},
  authority <- [n \in NamespaceAddrs |->
                  IF owner[n] = "program" THEN data[n].authority ELSE ZeroKey],
  settled <- [n \in NamespaceAddrs |-> [e \in Events |->
                IF owner[RecordAddr(n, e)] = "program"
                THEN data[RecordAddr(n, e)].amount ELSE 0]],
  paying <- {<<r[2], r[3]>> : r \in settling},
  signed <- signers

ImplementsBook == Book!Spec
=============================================================================
